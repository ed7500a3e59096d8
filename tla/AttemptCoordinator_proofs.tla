---------------------- MODULE AttemptCoordinator_proofs ----------------------
(***************************************************************************)
(* Proofs about AttemptCoordinator, for any number of coordinated and      *)
(* standalone runs, sharing attempts or not, with any faults.              *)
(***************************************************************************)
EXTENDS AttemptCoordinator, AttemptStore_proofs

-----------------------------------------------------------------------------
(* The local state of a call: what it holds is its own, and its run is     *)
(* where its program counter says.                                         *)

PlansOf(c) == {PlanOf(c, choice) : choice \in PlanChoices}

ExecutionsOf(c) == {ExecutionOf(c, success) : success \in BOOLEAN}

VerificationsOf(c) ==
  {VerificationOf(c, verdict, gathered) :
     verdict \in Verdicts, gathered \in {{}, {c}}}

\* The run has made n transitions of the path and no other.
HasMade(run, n) == run.length = n /\ run.state = PipelinePath[n + 1]

\* The run is over: verified, or failed after at least one other transition.
IsOver(run) ==
  \/ HasMade(run, 5)
  \/ run.state = "failed" /\ run.length \in 2 .. 5

\* What a call may hold at a step: where its run is, and what it has gathered.
MayBeAt(c, step, run, plan, execution, verification, calls) ==
  /\ step \in {"lookup", "begin", "route", "refused", "crashed"} => run = NewRun
  /\ step = "plan" => HasMade(run, 1)
  /\ step = "authorize" => HasMade(run, 2)
  /\ step \in {"execute", "executed"} => HasMade(run, 3)
  /\ step \in {"verify", "verified"} => HasMade(run, 4)
  /\ step = "fail" => \E n \in 1 .. 4 : HasMade(run, n)
  /\ step = "raised" => (\E n \in 0 .. 4 : HasMade(run, n)) \/ IsOver(run)
  /\ step \in RecordSteps \cup {"acked", "rejected"} => IsOver(run)
  /\ step \in {"envelope", "put", "finalize"} => calls >= 1
  /\ step = "authorize" => plan # None
  /\ step \in {"execute", "executed", "verify", "verified"} =>
       plan # None /\ plan.task = IdentityOf[c]
  /\ step \in {"lookup", "begin", "route", "plan", "authorize", "execute"} =>
       execution = None
  /\ step \in {"lookup", "begin", "route", "plan", "authorize", "execute",
               "executed", "verify"} => verification = None
  /\ step \in {"executed", "verify"} => execution = ExecutionOf(c, TRUE)
  /\ step = "verified" => verification # None /\ verification.verdict = "passed"

\* The reports of a call speak of its plan, and a verified run has passed.
ReportsFit(c, run, plan, execution, verification) ==
  /\ execution # None => plan # None /\ plan.task = IdentityOf[c]
  /\ verification # None => execution = ExecutionOf(c, TRUE)
  /\ run.state = "verified" =>
       verification # None /\ verification.verdict = "passed"

InOrder(c, step, run, plan, execution, verification, calls) ==
  /\ MayBeAt(c, step, run, plan, execution, verification, calls)
  /\ ReportsFit(c, run, plan, execution, verification)

OwnState(c, r) ==
  /\ r \in Clients
  /\ r.plan \in PlansOf(c) \cup {None}
  /\ r.execution \in ExecutionsOf(c) \cup {None}
  /\ r.verification \in VerificationsOf(c) \cup {None}
  /\ r.artifacts \subseteq {c}
  /\ InOrder(c, r.pc, r.run, r.plan, r.execution, r.verification, r.calls)

\* The invariant of the local states.
CallsAreOwn ==
  /\ client \in [Runs -> Clients]
  /\ \A c \in Runs : OwnState(c, client[c])

LEMMA DocumentsType ==
  ASSUME NEW c \in Runs
  PROVE  /\ PlansOf(c) \subseteq Plans
         /\ ExecutionsOf(c) \subseteq ExecutionReports
         /\ VerificationsOf(c) \subseteq VerificationReports
  BY CoordinatorAssumptions
     DEF PlansOf, PlanOf, Plans, ExecutionsOf, ExecutionOf, ExecutionReports,
         VerificationsOf, VerificationOf, VerificationReports, Verdicts

\* The parts of a call that a step does not name stay as they are, and so do
\* the other calls.
Fields == {"pc", "run", "plan", "execution", "verification", "artifacts",
           "calls", "answer"}

ChangesOnly(c, changed) ==
  /\ client' \in [Runs -> Clients]
  /\ \A d \in Runs : d # c => client'[d] = client[d]
  /\ \A f \in Fields \ changed : client'[c][f] = client[c][f]

\* A call becomes another call.
LEMMA Becomes ==
  ASSUME client \in [Runs -> Clients], NEW c \in Runs, NEW r \in Clients,
         client' = [client EXCEPT ![c] = r]
  PROVE  /\ client' \in [Runs -> Clients]
         /\ client'[c] = r
         /\ \A d \in Runs : d # c => client'[d] = client[d]
  OBVIOUS

\* What each kind of step makes of the call that takes it.
LEMMA Goes ==
  ASSUME client \in [Runs -> Clients], NEW c \in Runs,
         NEW step \in Steps,
         client' = [client EXCEPT ![c].pc = step]
  PROVE  /\ ChangesOnly(c, {"pc"})
         /\ client'[c].pc = step
  <1>1. ASSUME NEW x \in Clients
        PROVE  [x EXCEPT !.pc = step] \in Clients
    BY DEF Clients
  <1>2. client' = [client EXCEPT ![c] = [client[c] EXCEPT !.pc = step]]
    BY DEF Clients
  <1>3. /\ client' \in [Runs -> Clients]
        /\ client'[c] = [client[c] EXCEPT !.pc = step]
        /\ \A d \in Runs : d # c => client'[d] = client[d]
    BY <1>1, <1>2, Becomes
  <1>4. /\ client'[c].pc = step
    BY <1>3 DEF Clients
  <1>5. \A f \in Fields \ {"pc"} : client'[c][f] = client[c][f]
    BY <1>3 DEF Clients, Fields
  <1>6. QED
    BY <1>3, <1>4, <1>5 DEF ChangesOnly

LEMMA Advances ==
  ASSUME client \in [Runs -> Clients], NEW c \in Runs,
         NEW run \in OrchestratorRuns, NEW step \in Steps,
         client' = [client EXCEPT ![c].run = run, ![c].pc = step]
  PROVE  /\ ChangesOnly(c, {"run", "pc"})
         /\ client'[c].run = run
         /\ client'[c].pc = step
  <1>1. ASSUME NEW x \in Clients
        PROVE  [x EXCEPT !.run = run, !.pc = step] \in Clients
    BY DEF Clients
  <1>2. client' = [client EXCEPT ![c] = [client[c] EXCEPT !.run = run, !.pc = step]]
    BY DEF Clients
  <1>3. /\ client' \in [Runs -> Clients]
        /\ client'[c] = [client[c] EXCEPT !.run = run, !.pc = step]
        /\ \A d \in Runs : d # c => client'[d] = client[d]
    BY <1>1, <1>2, Becomes
  <1>4. /\ client'[c].run = run
        /\ client'[c].pc = step
    BY <1>3 DEF Clients
  <1>5. \A f \in Fields \ {"run", "pc"} : client'[c][f] = client[c][f]
    BY <1>3 DEF Clients, Fields
  <1>6. QED
    BY <1>3, <1>4, <1>5 DEF ChangesOnly

LEMMA PlanArrives ==
  ASSUME client \in [Runs -> Clients], NEW c \in Runs,
         NEW plan \in Plans, NEW run \in OrchestratorRuns, NEW step \in Steps,
         client' = [client EXCEPT ![c].plan = plan, ![c].run = run, ![c].pc = step]
  PROVE  /\ ChangesOnly(c, {"plan", "run", "pc"})
         /\ client'[c].plan = plan
         /\ client'[c].run = run
         /\ client'[c].pc = step
  <1>1. ASSUME NEW x \in Clients
        PROVE  [x EXCEPT !.plan = plan, !.run = run, !.pc = step] \in Clients
    BY DEF Clients
  <1>2. client' = [client EXCEPT ![c] = [client[c] EXCEPT !.plan = plan, !.run = run, !.pc = step]]
    BY DEF Clients
  <1>3. /\ client' \in [Runs -> Clients]
        /\ client'[c] = [client[c] EXCEPT !.plan = plan, !.run = run, !.pc = step]
        /\ \A d \in Runs : d # c => client'[d] = client[d]
    BY <1>1, <1>2, Becomes
  <1>4. /\ client'[c].plan = plan
        /\ client'[c].run = run
        /\ client'[c].pc = step
    BY <1>3 DEF Clients
  <1>5. /\ client'[c].execution = client[c].execution
        /\ client'[c].verification = client[c].verification
        /\ client'[c].artifacts = client[c].artifacts
        /\ client'[c].calls = client[c].calls
        /\ client'[c].answer = client[c].answer
    BY <1>3 DEF Clients
  <1>6. \A f \in Fields \ {"plan", "run", "pc"} : client'[c][f] = client[c][f]
    BY <1>5 DEF Fields
  <1>7. QED
    BY <1>3, <1>4, <1>6 DEF ChangesOnly

LEMMA ExecutionArrives ==
  ASSUME client \in [Runs -> Clients], NEW c \in Runs,
         NEW report \in ExecutionReports, NEW step \in Steps,
         client' = [client EXCEPT ![c].execution = report, ![c].pc = step]
  PROVE  /\ ChangesOnly(c, {"execution", "pc"})
         /\ client'[c].execution = report
         /\ client'[c].pc = step
  <1>1. ASSUME NEW x \in Clients
        PROVE  [x EXCEPT !.execution = report, !.pc = step] \in Clients
    BY DEF Clients
  <1>2. client' = [client EXCEPT ![c] = [client[c] EXCEPT !.execution = report, !.pc = step]]
    BY DEF Clients
  <1>3. /\ client' \in [Runs -> Clients]
        /\ client'[c] = [client[c] EXCEPT !.execution = report, !.pc = step]
        /\ \A d \in Runs : d # c => client'[d] = client[d]
    BY <1>1, <1>2, Becomes
  <1>4. /\ client'[c].execution = report
        /\ client'[c].pc = step
    BY <1>3 DEF Clients
  <1>5. \A f \in Fields \ {"execution", "pc"} : client'[c][f] = client[c][f]
    BY <1>3 DEF Clients, Fields
  <1>6. QED
    BY <1>3, <1>4, <1>5 DEF ChangesOnly

LEMMA VerificationArrives ==
  ASSUME client \in [Runs -> Clients], NEW c \in Runs,
         NEW report \in VerificationReports, NEW step \in Steps,
         client' = [client EXCEPT ![c].verification = report, ![c].pc = step]
  PROVE  /\ ChangesOnly(c, {"verification", "pc"})
         /\ client'[c].verification = report
         /\ client'[c].pc = step
  <1>1. ASSUME NEW x \in Clients
        PROVE  [x EXCEPT !.verification = report, !.pc = step] \in Clients
    BY DEF Clients
  <1>2. client' = [client EXCEPT ![c] = [client[c] EXCEPT !.verification = report, !.pc = step]]
    BY DEF Clients
  <1>3. /\ client' \in [Runs -> Clients]
        /\ client'[c] = [client[c] EXCEPT !.verification = report, !.pc = step]
        /\ \A d \in Runs : d # c => client'[d] = client[d]
    BY <1>1, <1>2, Becomes
  <1>4. /\ client'[c].verification = report
        /\ client'[c].pc = step
    BY <1>3 DEF Clients
  <1>5. \A f \in Fields \ {"verification", "pc"} : client'[c][f] = client[c][f]
    BY <1>3 DEF Clients, Fields
  <1>6. QED
    BY <1>3, <1>4, <1>5 DEF ChangesOnly

LEMMA RecordingStarts ==
  ASSUME client \in [Runs -> Clients], NEW c \in Runs,
         NEW payload \in SUBSET Runs, NEW calls \in 0 .. MaxRecordCalls, NEW step \in Steps,
         client' = [client EXCEPT ![c].artifacts = payload, ![c].calls = calls, ![c].pc = step]
  PROVE  /\ ChangesOnly(c, {"artifacts", "calls", "pc"})
         /\ client'[c].artifacts = payload
         /\ client'[c].calls = calls
         /\ client'[c].pc = step
  <1>1. ASSUME NEW x \in Clients
        PROVE  [x EXCEPT !.artifacts = payload, !.calls = calls, !.pc = step] \in Clients
    BY DEF Clients
  <1>2. client' = [client EXCEPT ![c] = [client[c] EXCEPT !.artifacts = payload, !.calls = calls, !.pc = step]]
    BY DEF Clients
  <1>3. /\ client' \in [Runs -> Clients]
        /\ client'[c] = [client[c] EXCEPT !.artifacts = payload, !.calls = calls, !.pc = step]
        /\ \A d \in Runs : d # c => client'[d] = client[d]
    BY <1>1, <1>2, Becomes
  <1>4. /\ client'[c].artifacts = payload
        /\ client'[c].calls = calls
        /\ client'[c].pc = step
    BY <1>3 DEF Clients
  <1>5. /\ client'[c].run = client[c].run
        /\ client'[c].plan = client[c].plan
        /\ client'[c].execution = client[c].execution
        /\ client'[c].verification = client[c].verification
        /\ client'[c].answer = client[c].answer
    BY <1>3 DEF Clients
  <1>6. \A f \in Fields \ {"artifacts", "calls", "pc"} : client'[c][f] = client[c][f]
    BY <1>5 DEF Fields
  <1>7. QED
    BY <1>3, <1>4, <1>6 DEF ChangesOnly

LEMMA AnswerArrives ==
  ASSUME client \in [Runs -> Clients], NEW c \in Runs,
         NEW step \in Steps, NEW answer \in Answers,
         client' = [client EXCEPT ![c].pc = step, ![c].answer = answer]
  PROVE  /\ ChangesOnly(c, {"pc", "answer"})
         /\ client'[c].pc = step
         /\ client'[c].answer = answer
  <1>1. ASSUME NEW x \in Clients
        PROVE  [x EXCEPT !.pc = step, !.answer = answer] \in Clients
    BY DEF Clients
  <1>2. client' = [client EXCEPT ![c] = [client[c] EXCEPT !.pc = step, !.answer = answer]]
    BY DEF Clients
  <1>3. /\ client' \in [Runs -> Clients]
        /\ client'[c] = [client[c] EXCEPT !.pc = step, !.answer = answer]
        /\ \A d \in Runs : d # c => client'[d] = client[d]
    BY <1>1, <1>2, Becomes
  <1>4. /\ client'[c].pc = step
        /\ client'[c].answer = answer
    BY <1>3 DEF Clients
  <1>5. \A f \in Fields \ {"pc", "answer"} : client'[c][f] = client[c][f]
    BY <1>3 DEF Clients, Fields
  <1>6. QED
    BY <1>3, <1>4, <1>5 DEF ChangesOnly

-----------------------------------------------------------------------------
(* The runs use the store as its specification allows.                     *)

Targets == {"failed", "routed", "planned", "authorized", "executed", "verified"}

LEMMA TransitionIsAllowed ==
  ASSUME NEW c \in Runs, NEW n \in 0 .. 4, HasMade(client[c].run, n),
         NEW target \in Targets
  PROVE  TransitionEvent(AttemptOf[c], IdentityOf[c], c, client[c].run.length + 1,
                         client[c].run.state, target) \in CallerEvents
  <1>1. n + 1 \in 1 .. 5
    OBVIOUS
  <1>2. TransitionEvent(AttemptOf[c], IdentityOf[c], c, n + 1, PipelinePath[n + 1],
                        target) \in EventsOf(c)
    BY <1>1 DEF EventsOf, Targets
  <1>3. QED
    BY <1>2, StoreServesTheRuns DEF EmittedEvents, HasMade

LEMMA StepEventIsAllowed ==
  ASSUME NEW c \in Runs, NEW type \in EventTypes, NEW report \in {c, None}
  PROVE  StepEvent(AttemptOf[c], IdentityOf[c], c, type, report) \in CallerEvents
  <1>1. StepEvent(AttemptOf[c], IdentityOf[c], c, type, report) \in EventsOf(c)
    BY DEF EventsOf
  <1>2. QED
    BY <1>1, StoreServesTheRuns DEF EmittedEvents

\* What a finished run hands to the recorder is one of its outcomes.
LEMMA OutcomeIsAllowed ==
  ASSUME NEW c \in Runs, OwnState(c, client[c]), IsOver(client[c].run)
  PROVE  /\ OutcomeOf(c) \in CallerOutcomes
         /\ OutcomeOf(c).plan = client[c].plan
  <1>1. OutcomeOf(c) \in OutcomesOf(c)
    BY DEF OutcomeOf, OutcomesOf, OwnState, IsOver, HasMade, PipelinePath, PlansOf,
           ExecutionsOf, VerificationsOf
  <1>2. OutcomeOf(c).plan = client[c].plan
    BY DEF OutcomeOf
  <1>3. QED
    BY <1>1, <1>2, StoreServesTheRuns DEF RecordedOutcomes

LEMMA TransitionUsesStore ==
  ASSUME NEW c \in Runs, NEW n \in 0 .. 4, HasMade(client[c].run, n),
         NEW target \in Targets, Transition(c, target)
  PROVE  StoreNext
  BY TransitionIsAllowed DEF Transition, StoreNext

LEMMA EmitUsesStore ==
  ASSUME NEW c \in Runs, NEW type \in EventTypes, NEW report \in {c, None},
         Emit(c, type, report)
  PROVE  StoreNext
  BY StepEventIsAllowed DEF Emit, StoreNext

LEMMA StoreIsUsed ==
  ASSUME CallsAreOwn, [Next]_vars
  PROVE  [StoreNext]_storeVars
  <1>1. CASE UNCHANGED vars
    BY <1>1 DEF vars, storeVars
  <1>2. ASSUME NEW c \in Runs,
               Step(c) \/ RecordAgain(c) \/ DatabaseFails(c) \/ Crash(c)
        PROVE  [StoreNext]_storeVars
    <2>0. /\ OwnState(c, client[c])
          /\ MayBeAt(c, client[c].pc, client[c].run, client[c].plan,
                     client[c].execution, client[c].verification, client[c].calls)
      BY DEF CallsAreOwn, OwnState, InOrder
    <2>1. CASE UNCHANGED storeVars
      BY <2>1
    <2>2. CASE Begin(c)
      BY <2>2, CoordinatorAssumptions DEF Begin, StoreNext
    <2>3. CASE Route(c)
      <3>1. HasMade(client[c].run, 0)
        BY <2>0, <2>3 DEF Route, At, MayBeAt, NewRun, HasMade, PipelinePath
      <3>2. QED
        BY <2>3, <3>1, TransitionUsesStore DEF Route, Advance, Targets
    <2>4. CASE PlanReturned(c)
      <3>1. HasMade(client[c].run, 1)
        BY <2>0, <2>4 DEF PlanReturned, At, MayBeAt
      <3>2. QED
        BY <2>4, <3>1, TransitionUsesStore DEF PlanReturned, Targets
    <2>5. CASE PlanFailed(c)
      BY <2>5, EmitUsesStore DEF PlanFailed, EventTypes
    <2>6. CASE Authorized(c)
      <3>1. HasMade(client[c].run, 2)
        BY <2>0, <2>6 DEF Authorized, At, MayBeAt
      <3>2. QED
        BY <2>6, <3>1, TransitionUsesStore DEF Authorized, Advance, Targets
    <2>7. CASE Denied(c)
      BY <2>7, EmitUsesStore DEF Denied, EventTypes
    <2>8. CASE ExecutionRejected(c) \/ ExecutionCompleted(c) \/ ExecutionRolledBack(c)
      BY <2>8, EmitUsesStore
         DEF ExecutionRejected, ExecutionCompleted, ExecutionRolledBack,
             ExecutionEnds, EventTypes
    <2>9. CASE Executed(c)
      <3>1. HasMade(client[c].run, 3)
        BY <2>0, <2>9 DEF Executed, At, MayBeAt
      <3>2. QED
        BY <2>9, <3>1, TransitionUsesStore DEF Executed, Advance, Targets
    <2>10. CASE Verify(c)
      BY <2>10, EmitUsesStore DEF Verify, EventTypes
    <2>11. CASE Verified(c)
      <3>1. HasMade(client[c].run, 4)
        BY <2>0, <2>11 DEF Verified, At, MayBeAt
      <3>2. QED
        BY <2>11, <3>1, TransitionUsesStore DEF Verified, Advance, Targets
    <2>12. CASE Fail(c)
      <3>1. PICK n \in 1 .. 4 : HasMade(client[c].run, n)
        BY <2>0, <2>12 DEF Fail, At, MayBeAt
      <3>2. n \in 0 .. 4
        OBVIOUS
      <3>3. QED
        BY <2>12, <3>1, <3>2, TransitionUsesStore DEF Fail, Advance, Targets
    <2>13. CASE RecordBegin(c)
      <3>1. OutcomeOf(c) \in CallerOutcomes /\ OutcomeOf(c).plan = client[c].plan
        BY <2>0, <2>13, OutcomeIsAllowed DEF RecordBegin, At, MayBeAt, RecordSteps
      <3>2. client[c].plan \in {o.plan : o \in CallerOutcomes}
        BY <3>1
      <3>3. QED
        BY <2>13, <3>2, CoordinatorAssumptions DEF RecordBegin, StoreNext
    <2>14. CASE Finalize(c)
      <3>1. OutcomeOf(c) \in CallerOutcomes
        BY <2>0, <2>14, OutcomeIsAllowed DEF Finalize, At, MayBeAt, RecordSteps
      <3>2. client[c].calls \in Clock
        BY <2>0, <2>14, CoordinatorAssumptions
           DEF Finalize, At, MayBeAt, OwnState, Clients
      <3>3. QED
        BY <2>14, <3>1, <3>2, CoordinatorAssumptions DEF Finalize, StoreNext
    <2>15. QED
      BY <1>2, <2>1, <2>2, <2>3, <2>4, <2>5, <2>6, <2>7, <2>8, <2>9, <2>10, <2>11,
         <2>12, <2>13, <2>14
         DEF Step, Lookup, BeginRefused, PipelineStep, ExecutionRaised, VerifyRaised,
             RecordStep, RecordLookup, RecordBeginRejected, PutArtifacts, PutRejected,
             FinalizeRejected, RecordAgain, DatabaseFails, Crash
  <1>3. QED
    BY <1>1, <1>2 DEF Next

-----------------------------------------------------------------------------
(* Every step leaves the local states in order.                            *)

LEMMA OwnAgain ==
  ASSUME CallsAreOwn, NEW c \in Runs, NEW changed, ChangesOnly(c, changed),
         OwnState(c, client'[c])
  PROVE  CallsAreOwn'
  BY DEF CallsAreOwn, ChangesOnly

\* A step that only moves on keeps the call in order if it may be there.
LEMMA OwnAfterGoto ==
  ASSUME CallsAreOwn, NEW c \in Runs, NEW step \in Steps, Goto(c, step),
         MayBeAt(c, step, client[c].run, client[c].plan, client[c].execution,
                 client[c].verification, client[c].calls)
  PROVE  CallsAreOwn'
  <1>1. client \in [Runs -> Clients] /\ OwnState(c, client[c])
    BY DEF CallsAreOwn
  <1>2. ChangesOnly(c, {"pc"}) /\ client'[c].pc = step
    BY <1>1, Goes DEF Goto
  <1>3. /\ client'[c] \in Clients
        /\ client'[c].run = client[c].run
        /\ client'[c].plan = client[c].plan
        /\ client'[c].execution = client[c].execution
        /\ client'[c].verification = client[c].verification
        /\ client'[c].artifacts = client[c].artifacts
        /\ client'[c].calls = client[c].calls
    BY <1>2 DEF ChangesOnly, Fields
  <1>4. OwnState(c, client'[c])
    BY <1>1, <1>2, <1>3 DEF OwnState, InOrder
  <1>5. QED
    BY <1>2, <1>4, OwnAgain

\* A transition of the path ...
LEMMA RunTransits ==
  ASSUME NEW run \in OrchestratorRuns, NEW n \in 0 .. 4, HasMade(run, n),
         NEW target, target = PipelinePath[n + 2]
  PROVE  /\ AfterTransition(run, target) \in OrchestratorRuns
         /\ HasMade(AfterTransition(run, target), n + 1)
         /\ AfterTransition(run, target).state = target
  BY DEF AfterTransition, HasMade, PipelinePath, OrchestratorRuns, TaskStates

\* ... and the failure of a run that is not over.
LEMMA RunFails ==
  ASSUME NEW run \in OrchestratorRuns, NEW n \in 1 .. 4, HasMade(run, n)
  PROVE  /\ AfterTransition(run, "failed") \in OrchestratorRuns
         /\ AfterTransition(run, "failed").state = "failed"
         /\ IsOver(AfterTransition(run, "failed"))
  BY DEF AfterTransition, HasMade, OrchestratorRuns, TaskStates, IsOver

LEMMA OwnAfterAdvance ==
  ASSUME CallsAreOwn, NEW c \in Runs, NEW step \in Steps, NEW target, NEW run,
         run = AfterTransition(client[c].run, target), run \in OrchestratorRuns,
         Advance(c, target, step),
         InOrder(c, step, run, client[c].plan, client[c].execution,
                 client[c].verification, client[c].calls)
  PROVE  CallsAreOwn'
  <1>1. client' = [client EXCEPT ![c].run = run, ![c].pc = step]
    BY DEF Advance
  <1>2. client \in [Runs -> Clients] /\ OwnState(c, client[c])
    BY DEF CallsAreOwn
  <1>3. /\ ChangesOnly(c, {"run", "pc"})
        /\ client'[c].run = run /\ client'[c].pc = step
    BY <1>1, <1>2, Advances
  <1>4. /\ client'[c] \in Clients
        /\ client'[c].plan = client[c].plan
        /\ client'[c].execution = client[c].execution
        /\ client'[c].verification = client[c].verification
        /\ client'[c].artifacts = client[c].artifacts
        /\ client'[c].calls = client[c].calls
    BY <1>3 DEF ChangesOnly, Fields
  <1>5. OwnState(c, client'[c])
    BY <1>2, <1>3, <1>4 DEF OwnState
  <1>6. QED
    BY <1>3, <1>5, OwnAgain

\* What the store answers a finalization with is a record and its receipt.
LEMMA AnswerIsARecord ==
  ASSUME StoreTypeOK, FinalizationIsAtomic, StoreTypeOK', FinalizationIsAtomic',
         NEW a \in Attempts, NEW o \in CallerOutcomes, NEW now \in Clock,
         FinalizeAttempt(a, o, now)
  PROVE  /\ Finalized(a)'
         /\ attempts'[a] \in AttemptRecords
         /\ receipts'[a] \in Receipts
         /\ receipts'[a].document = attempts'[a]
  <1>1. Finalized(a)'
    <2>1. CASE UNCHANGED storeVars
      <3>1. CASE attempts[a].status = "finalized"
        BY <2>1, <3>1 DEF storeVars, FinalizeAttempt, FinalizeAccepts, Finalized
      <3>2. CASE attempts[a].status # "finalized"
        <4>1. CommitFinalization(a, Candidate(attempts[a], o, now), now)
          BY <3>2 DEF FinalizeAttempt
        <4>2. attempts[a] \in AttemptRecords /\ o \in Outcomes
          BY StoreAssumptions DEF StoreTypeOK, FinalizeAttempt, FinalizeAccepts
        <4>3. Candidate(attempts[a], o, now).status = "finalized"
          BY <4>2, CandidateType
        <4>4. attempts'[a] = Candidate(attempts[a], o, now)
          BY <4>1 DEF CommitFinalization, StoreTypeOK
        <4>5. QED
          BY <2>1, <3>2, <4>3, <4>4 DEF storeVars
      <3>3. QED
        BY <3>1, <3>2
    <2>2. CASE ~UNCHANGED storeVars
      <3>1. PICK r \in AttemptRecords : r.status = "finalized" /\ attempts'[a] = r
        BY <2>2, FinalizeCases DEF CommitFinalization, StoreTypeOK
      <3>2. QED
        BY <3>1, StoreAssumptions DEF Finalized
    <2>3. QED
      BY <2>1, <2>2
  <1>2. QED
    BY <1>1 DEF FinalizationIsAtomic, StoreTypeOK, Finalized

LEMMA CrashedType ==
  ASSUME NEW x \in Clients, NEW step \in Steps, NEW answer \in Answers \cup {None}
  PROVE  [x EXCEPT !.pc = step, !.answer = answer] \in Clients
  BY DEF Clients

LEMMA CallsStep ==
  ASSUME CallsAreOwn, StoreTypeOK, FinalizationIsAtomic,
         StoreTypeOK', FinalizationIsAtomic', [Next]_vars
  PROVE  CallsAreOwn'
  <1>1. CASE UNCHANGED vars
    BY <1>1 DEF vars, CallsAreOwn
  <1>2. ASSUME NEW c \in Runs,
               Step(c) \/ RecordAgain(c) \/ DatabaseFails(c) \/ Crash(c)
        PROVE  CallsAreOwn'
    <2> DEFINE r == client[c]
    <2>0. /\ client \in [Runs -> Clients] /\ r \in Clients
          /\ OwnState(c, r)
          /\ MayBeAt(c, r.pc, r.run, r.plan, r.execution, r.verification, r.calls)
          /\ ReportsFit(c, r.run, r.plan, r.execution, r.verification)
      BY DEF CallsAreOwn, OwnState, InOrder
    <2>01. r.run \in OrchestratorRuns
      BY <2>0 DEF Clients
    <2> HIDE DEF r
    <2>1. CASE Lookup(c)
      <3>1. /\ MayBeAt(c, "begin", r.run, r.plan, r.execution, r.verification, r.calls)
            /\ MayBeAt(c, "refused", r.run, r.plan, r.execution, r.verification, r.calls)
        BY <2>0, <2>1
           DEF Lookup, At, MayBeAt, RecordSteps, r
      <3>2. QED
        BY <2>1, <3>1, OwnAfterGoto
           DEF Lookup, Steps, PipelineSteps, RecordSteps, Ended, r
    <2>2. CASE Begin(c)
      <3>1. MayBeAt(c, "route", r.run, r.plan, r.execution, r.verification, r.calls)
        BY <2>0, <2>2
           DEF Begin, At, MayBeAt, RecordSteps, r
      <3>2. QED
        BY <2>2, <3>1, OwnAfterGoto
           DEF Begin, Steps, PipelineSteps, RecordSteps, Ended, r
    <2>3. CASE BeginRefused(c)
      <3>1. MayBeAt(c, "refused", r.run, r.plan, r.execution, r.verification, r.calls)
        BY <2>0, <2>3
           DEF BeginRefused, At, MayBeAt, RecordSteps, r
      <3>2. QED
        BY <2>3, <3>1, OwnAfterGoto
           DEF BeginRefused, Steps, PipelineSteps, RecordSteps, Ended, r
    <2>4. CASE Route(c)
      <3> DEFINE run == AfterTransition(r.run, "routed")
      <3>1. HasMade(r.run, 0)
        BY <2>0, <2>4 DEF Route, At, MayBeAt, NewRun, HasMade, PipelinePath, r
      <3>2. /\ run \in OrchestratorRuns /\ HasMade(run, 1)
            /\ run.state = "routed"
        <4>1. PipelinePath[0 + 2] = "routed" /\ 0 + 1 = 1 /\ 0 \in 0 .. 4
          BY DEF PipelinePath
        <4>2. QED
          BY <2>01, <3>1, <4>1, RunTransits
      <3> HIDE DEF run
      <3>3. r.execution = None /\ r.verification = None
        BY <2>0, <2>4 DEF Route, At, MayBeAt, r
      <3>4. InOrder(c, "plan", run, r.plan, r.execution, r.verification, r.calls)
        BY <2>0, <3>2, <3>3 DEF InOrder, MayBeAt, ReportsFit, RecordSteps, IsOver
      <3>5. QED
        BY <2>4, <3>2, <3>4, OwnAfterAdvance
           DEF Route, Steps, PipelineSteps, RecordSteps, run, r
    <2>5. CASE PlanFailed(c) \/ Denied(c) \/ ExecutionRaised(c) \/ VerifyRaised(c)
      <3>1. MayBeAt(c, "fail", r.run, r.plan, r.execution, r.verification, r.calls)
        BY <2>0, <2>5
           DEF PlanFailed, Denied, ExecutionRaised, VerifyRaised, At, MayBeAt, RecordSteps, r
      <3>2. QED
        BY <2>5, <3>1, OwnAfterGoto
           DEF PlanFailed, Denied, ExecutionRaised, VerifyRaised, Steps, PipelineSteps, RecordSteps, Ended, r
    <2>6. CASE Authorized(c)
      <3> DEFINE run == AfterTransition(r.run, "authorized")
      <3>1. HasMade(r.run, 2)
        BY <2>0, <2>6 DEF Authorized, At, MayBeAt, r
      <3>2. /\ run \in OrchestratorRuns /\ HasMade(run, 3)
            /\ run.state = "authorized"
        <4>1. PipelinePath[2 + 2] = "authorized" /\ 2 + 1 = 3 /\ 2 \in 0 .. 4
          BY DEF PipelinePath
        <4>2. QED
          BY <2>01, <3>1, <4>1, RunTransits
      <3> HIDE DEF run
      <3>3. /\ r.plan # None /\ r.plan.task = IdentityOf[c]
            /\ r.execution = None /\ r.verification = None
        BY <2>0, <2>6 DEF Authorized, At, MayBeAt, r
      <3>4. InOrder(c, "execute", run, r.plan, r.execution, r.verification, r.calls)
        BY <2>0, <3>2, <3>3 DEF InOrder, MayBeAt, ReportsFit, RecordSteps, IsOver
      <3>5. QED
        BY <2>6, <3>2, <3>4, OwnAfterAdvance
           DEF Authorized, Steps, PipelineSteps, RecordSteps, run, r
    <2>7. CASE Executed(c)
      <3> DEFINE run == AfterTransition(r.run, "executed")
      <3>1. HasMade(r.run, 3)
        BY <2>0, <2>7 DEF Executed, At, MayBeAt, r
      <3>2. /\ run \in OrchestratorRuns /\ HasMade(run, 4)
            /\ run.state = "executed"
        <4>1. PipelinePath[3 + 2] = "executed" /\ 3 + 1 = 4 /\ 3 \in 0 .. 4
          BY DEF PipelinePath
        <4>2. QED
          BY <2>01, <3>1, <4>1, RunTransits
      <3> HIDE DEF run
      <3>3. /\ r.plan # None /\ r.plan.task = IdentityOf[c]
            /\ r.execution = ExecutionOf(c, TRUE) /\ r.verification = None
        BY <2>0, <2>7 DEF Executed, At, MayBeAt, r
      <3>4. InOrder(c, "verify", run, r.plan, r.execution, r.verification, r.calls)
        BY <2>0, <3>2, <3>3 DEF InOrder, MayBeAt, ReportsFit, RecordSteps, IsOver
      <3>5. QED
        BY <2>7, <3>2, <3>4, OwnAfterAdvance
           DEF Executed, Steps, PipelineSteps, RecordSteps, run, r
    <2>8. CASE Verified(c)
      <3> DEFINE run == AfterTransition(r.run, "verified")
      <3>1. HasMade(r.run, 4)
        BY <2>0, <2>8 DEF Verified, At, MayBeAt, r
      <3>2. /\ run \in OrchestratorRuns /\ HasMade(run, 5)
            /\ run.state = "verified"
        <4>1. PipelinePath[4 + 2] = "verified" /\ 4 + 1 = 5 /\ 4 \in 0 .. 4
          BY DEF PipelinePath
        <4>2. QED
          BY <2>01, <3>1, <4>1, RunTransits
      <3> HIDE DEF run
      <3>3. r.verification # None /\ r.verification.verdict = "passed"
        BY <2>0, <2>8 DEF Verified, At, MayBeAt, r
      <3>4. InOrder(c, "record", run, r.plan, r.execution, r.verification, r.calls)
        BY <2>0, <3>2, <3>3 DEF InOrder, MayBeAt, ReportsFit, RecordSteps, IsOver
      <3>5. QED
        BY <2>8, <3>2, <3>4, OwnAfterAdvance
           DEF Verified, Steps, PipelineSteps, RecordSteps, run, r
    <2>9. CASE Fail(c)
      <3> DEFINE run == AfterTransition(r.run, "failed")
      <3>1. PICK n \in 1 .. 4 : HasMade(r.run, n)
        BY <2>0, <2>9 DEF Fail, At, MayBeAt, r
      <3>2. run \in OrchestratorRuns /\ run.state = "failed" /\ IsOver(run)
        BY <2>01, <3>1, RunFails
      <3> HIDE DEF run
      <3>3. InOrder(c, "record", run, r.plan, r.execution, r.verification, r.calls)
        BY <2>0, <2>9, <3>2
           DEF Fail, At, InOrder, MayBeAt, ReportsFit, RecordSteps, r
      <3>4. QED
        BY <2>9, <3>2, <3>3, OwnAfterAdvance
           DEF Fail, Steps, RecordSteps, run, r
    <2>10. CASE PlanReturned(c)
      <3> DEFINE run == AfterTransition(r.run, "planned")
      <3>1. HasMade(r.run, 1)
        BY <2>0, <2>10 DEF PlanReturned, At, MayBeAt, r
      <3>2. /\ run \in OrchestratorRuns /\ HasMade(run, 2)
            /\ run.state = "planned"
        <4>1. PipelinePath[1 + 2] = "planned" /\ 1 + 1 = 2 /\ 1 \in 0 .. 4
          BY DEF PipelinePath
        <4>2. QED
          BY <2>01, <3>1, <4>1, RunTransits
      <3> HIDE DEF run
      <3>3. PICK choice \in PlanChoices :
                   client' = [client EXCEPT ![c].plan = PlanOf(c, choice),
                                            ![c].run = run, ![c].pc = "authorize"]
        BY <2>10 DEF PlanReturned, run, r
      <3> DEFINE plan == PlanOf(c, choice)
      <3>4. plan \in PlansOf(c) /\ plan \in Plans /\ plan # None
        BY DocumentsType, StoreAssumptions DEF PlansOf
      <3> HIDE DEF plan
      <3>40. client' = [client EXCEPT ![c].plan = plan, ![c].run = run,
                                      ![c].pc = "authorize"]
        BY <3>3 DEF plan
      <3>41. "authorize" \in Steps
        BY DEF Steps, PipelineSteps
      <3>5. /\ ChangesOnly(c, {"plan", "run", "pc"})
            /\ client'[c].plan = plan /\ client'[c].run = run
            /\ client'[c].pc = "authorize"
        BY <2>0, <3>2, <3>4, <3>40, <3>41, PlanArrives
      <3>6. /\ client'[c] \in Clients
            /\ client'[c].execution = r.execution
            /\ client'[c].verification = r.verification
            /\ client'[c].artifacts = r.artifacts
            /\ client'[c].calls = r.calls
        BY <3>5 DEF ChangesOnly, Fields, r
      <3>60. r.execution = None /\ r.verification = None
        BY <2>0, <2>10 DEF PlanReturned, At, MayBeAt, r
      <3>7. InOrder(c, "authorize", run, plan, r.execution, r.verification, r.calls)
        BY <2>0, <3>2, <3>4, <3>60 DEF InOrder, MayBeAt, ReportsFit, RecordSteps
      <3>8. OwnState(c, client'[c])
        BY <2>0, <3>4, <3>5, <3>6, <3>7 DEF OwnState
      <3>9. QED
        BY <3>5, <3>8, OwnAgain
    <2>11. CASE ExecutionRejected(c) \/ ExecutionCompleted(c) \/ ExecutionRolledBack(c)
      <3>1. PICK success \in BOOLEAN, step \in {"executed", "fail"} :
                   /\ client' = [client EXCEPT ![c].execution = ExecutionOf(c, success),
                                               ![c].pc = step]
                   /\ step = "executed" => success = TRUE
        BY <2>11 DEF ExecutionRejected, ExecutionCompleted, ExecutionRolledBack,
                    ExecutionEnds
      <3> DEFINE report == ExecutionOf(c, success)
      <3>2. report \in ExecutionsOf(c) /\ report \in ExecutionReports
        BY DocumentsType DEF ExecutionsOf
      <3>3. step = "executed" => report = ExecutionOf(c, TRUE)
        BY <3>1
      <3> HIDE DEF report
      <3>4. /\ ChangesOnly(c, {"execution", "pc"})
            /\ client'[c].execution = report /\ client'[c].pc = step
        BY <2>0, <3>1, <3>2, ExecutionArrives DEF report, Steps, PipelineSteps
      <3>5. /\ client'[c] \in Clients
            /\ client'[c].run = r.run
            /\ client'[c].plan = r.plan
            /\ client'[c].verification = r.verification
            /\ client'[c].artifacts = r.artifacts
            /\ client'[c].calls = r.calls
        BY <3>4 DEF ChangesOnly, Fields, r
      <3>6. At(c, "execute")
        BY <2>11 DEF ExecutionRejected, ExecutionCompleted, ExecutionRolledBack,
                    ExecutionEnds
      <3>7. HasMade(r.run, 3) /\ r.plan # None /\ r.plan.task = IdentityOf[c]
            /\ r.verification = None
        BY <2>0, <3>6 DEF At, MayBeAt, r
      <3>70. MayBeAt(c, step, r.run, r.plan, report, r.verification, r.calls)
        <4>1. \E n \in 1 .. 4 : HasMade(r.run, n)
          BY <3>7
        <4>2. QED
          BY <3>3, <3>7, <4>1 DEF MayBeAt, RecordSteps
      <3>71. r.run.state # "verified"
        BY <3>7 DEF HasMade, PipelinePath
      <3>8. InOrder(c, step, r.run, r.plan, report, r.verification, r.calls)
        BY <3>7, <3>70, <3>71 DEF InOrder, ReportsFit
      <3>9. OwnState(c, client'[c])
        BY <2>0, <3>2, <3>4, <3>5, <3>8 DEF OwnState
      <3>10. QED
        BY <3>4, <3>9, OwnAgain
    <2>12. CASE Verify(c)
      <3>1. PICK verdict \in Verdicts, gathered \in {{}, {c}} :
                   client' = [client EXCEPT
                     ![c].verification = VerificationOf(c, verdict, gathered),
                     ![c].pc = IF verdict = "passed" THEN "verified" ELSE "fail"]
        BY <2>12 DEF Verify
      <3> DEFINE report == VerificationOf(c, verdict, gathered)
                 step == IF verdict = "passed" THEN "verified" ELSE "fail"
      <3>2. report \in VerificationsOf(c) /\ report \in VerificationReports
            /\ report # None
        <4>1. report \in VerificationsOf(c)
          BY DEF VerificationsOf
        <4>2. QED
          BY <4>1, DocumentsType, StoreAssumptions
      <3>3. step \in {"verified", "fail"}
            /\ (step = "verified" => report.verdict = "passed")
        BY DEF VerificationOf
      <3> HIDE DEF report, step
      <3>4. /\ ChangesOnly(c, {"verification", "pc"})
            /\ client'[c].verification = report /\ client'[c].pc = step
        BY <2>0, <3>1, <3>2, <3>3, VerificationArrives
           DEF report, step, Steps, PipelineSteps
      <3>5. /\ client'[c] \in Clients
            /\ client'[c].run = r.run
            /\ client'[c].plan = r.plan
            /\ client'[c].execution = r.execution
            /\ client'[c].artifacts = r.artifacts
            /\ client'[c].calls = r.calls
        BY <3>4 DEF ChangesOnly, Fields, r
      <3>6. HasMade(r.run, 4) /\ r.plan # None /\ r.plan.task = IdentityOf[c]
            /\ r.execution = ExecutionOf(c, TRUE)
        BY <2>0, <2>12 DEF Verify, At, MayBeAt, r
      <3>60. MayBeAt(c, step, r.run, r.plan, r.execution, report, r.calls)
        <4>1. \E n \in 1 .. 4 : HasMade(r.run, n)
          BY <3>6
        <4>2. QED
          BY <3>2, <3>3, <3>6, <4>1 DEF MayBeAt, RecordSteps
      <3>61. r.run.state # "verified"
        BY <3>6 DEF HasMade, PipelinePath
      <3>7. InOrder(c, step, r.run, r.plan, r.execution, report, r.calls)
        BY <3>6, <3>60, <3>61 DEF InOrder, ReportsFit
      <3>8. OwnState(c, client'[c])
        BY <2>0, <3>2, <3>4, <3>5, <3>7 DEF OwnState
      <3>9. QED
        BY <3>4, <3>8, OwnAgain
    <2>13. CASE RecordLookup(c)
      <3> DEFINE step == IF Row(c) = None THEN "envelope"
                         ELSE IF RetryMatches(c) THEN "put" ELSE "rejected"
      <3>1. PICK payload \in Payloads(c) :
                   client' = [client EXCEPT ![c].artifacts = payload,
                                            ![c].calls = r.calls + 1, ![c].pc = step]
        BY <2>13 DEF RecordLookup, r
      <3>2. payload \in SUBSET Runs /\ payload \subseteq {c}
        BY DEF Payloads
      <3>3. r.calls + 1 \in 0 .. MaxRecordCalls /\ r.calls + 1 >= 1
        BY <2>0, <2>13, CoordinatorAssumptions DEF RecordLookup, Clients, r
      <3>4. step \in {"envelope", "put", "rejected"}
        OBVIOUS
      <3> HIDE DEF step
      <3>5. /\ ChangesOnly(c, {"artifacts", "calls", "pc"})
            /\ client'[c].artifacts = payload /\ client'[c].calls = r.calls + 1
            /\ client'[c].pc = step
        <4>1. step \in Steps
          BY <3>4 DEF Steps, RecordSteps, Ended
        <4>2. QED
          BY <2>0, <3>1, <3>2, <3>3, <4>1, RecordingStarts
      <3>6. /\ client'[c] \in Clients
            /\ client'[c].run = r.run
            /\ client'[c].plan = r.plan
            /\ client'[c].execution = r.execution
            /\ client'[c].verification = r.verification
        BY <3>5 DEF ChangesOnly, Fields, r
      <3>7. IsOver(r.run)
        BY <2>0, <2>13 DEF RecordLookup, At, MayBeAt, RecordSteps, r
      <3>8. InOrder(c, step, r.run, r.plan, r.execution, r.verification, r.calls + 1)
        BY <2>0, <3>3, <3>4, <3>7 DEF InOrder, MayBeAt
      <3>9. OwnState(c, client'[c])
        BY <2>0, <3>2, <3>5, <3>6, <3>8 DEF OwnState
      <3>10. QED
        BY <3>5, <3>9, OwnAgain
    <2>14. CASE RecordBegin(c)
      <3>1. MayBeAt(c, "put", r.run, r.plan, r.execution, r.verification, r.calls)
        BY <2>0, <2>14
           DEF RecordBegin, At, MayBeAt, RecordSteps, r
      <3>2. QED
        BY <2>14, <3>1, OwnAfterGoto
           DEF RecordBegin, Steps, PipelineSteps, RecordSteps, Ended, r
    <2>15. CASE RecordBeginRejected(c) \/ PutRejected(c) \/ FinalizeRejected(c)
      <3>1. MayBeAt(c, "rejected", r.run, r.plan, r.execution, r.verification, r.calls)
        BY <2>0, <2>15
           DEF RecordBeginRejected, PutRejected, FinalizeRejected, At, MayBeAt, RecordSteps, r
      <3>2. QED
        BY <2>15, <3>1, OwnAfterGoto
           DEF RecordBeginRejected, PutRejected, FinalizeRejected, Steps, PipelineSteps, RecordSteps, Ended, r
    <2>16. CASE PutArtifacts(c)
      <3>1. MayBeAt(c, "finalize", r.run, r.plan, r.execution, r.verification, r.calls)
        BY <2>0, <2>16
           DEF PutArtifacts, At, MayBeAt, RecordSteps, r
      <3>2. QED
        BY <2>16, <3>1, OwnAfterGoto
           DEF PutArtifacts, Steps, PipelineSteps, RecordSteps, Ended, r
    <2>17. CASE Finalize(c)
      <3> DEFINE answer == [record |-> attempts'[AttemptOf[c]],
                            receipt |-> receipts'[AttemptOf[c]]]
      <3>1. client' = [client EXCEPT ![c].pc = "acked", ![c].answer = answer]
        BY <2>17 DEF Finalize
      <3>2. IsOver(r.run)
        BY <2>0, <2>17 DEF Finalize, At, MayBeAt, RecordSteps, r
      <3>3. OutcomeOf(c) \in CallerOutcomes
        BY <2>0, <3>2, OutcomeIsAllowed DEF r
      <3>4. client[c].calls \in Clock
        BY <2>0, <2>17, CoordinatorAssumptions DEF Finalize, At, MayBeAt, Clients, r
      <3>5. answer \in Answers
        BY <2>17, <3>3, <3>4, AnswerIsARecord, CoordinatorAssumptions
           DEF Finalize, Answers
      <3> HIDE DEF answer
      <3>6. /\ ChangesOnly(c, {"pc", "answer"}) /\ client'[c].pc = "acked"
        BY <2>0, <3>1, <3>5, AnswerArrives DEF Steps, Ended
      <3>7. /\ client'[c] \in Clients
            /\ client'[c].run = r.run
            /\ client'[c].plan = r.plan
            /\ client'[c].execution = r.execution
            /\ client'[c].verification = r.verification
            /\ client'[c].artifacts = r.artifacts
            /\ client'[c].calls = r.calls
        BY <3>6 DEF ChangesOnly, Fields, r
      <3>8. InOrder(c, "acked", r.run, r.plan, r.execution, r.verification, r.calls)
        BY <2>0, <3>2 DEF InOrder, MayBeAt
      <3>9. OwnState(c, client'[c])
        BY <2>0, <3>6, <3>7, <3>8 DEF OwnState
      <3>10. QED
        BY <3>6, <3>9, OwnAgain
    <2>18. CASE RecordAgain(c)
      <3>1. IsOver(r.run)
        <4>1. \A n \in 0 .. 4 : HasMade(r.run, n) => r.run.state \notin {"verified", "failed"}
          BY DEF HasMade, PipelinePath
        <4>2. \/ \E n \in 0 .. 4 : HasMade(r.run, n)
              \/ IsOver(r.run)
          BY <2>0, <2>18 DEF RecordAgain, At, MayBeAt, RecordSteps, r
        <4>3. QED
          BY <2>18, <4>1, <4>2 DEF RecordAgain, HasResult, r
      <3>2. MayBeAt(c, "record", r.run, r.plan, r.execution, r.verification, r.calls)
        BY <3>1 DEF MayBeAt
      <3>3. QED
        BY <2>18, <3>2, OwnAfterGoto DEF RecordAgain, Steps, RecordSteps, r
    <2>19. CASE DatabaseFails(c)
      <3>1. MayBeAt(c, "raised", r.run, r.plan, r.execution, r.verification, r.calls)
        <4>1. r.pc \in Steps \ (Ended \cup {"execute", "verify", "put"})
          BY <2>0, <2>19 DEF DatabaseFails, Clients, r
        <4>2. r.run = NewRun => HasMade(r.run, 0)
          BY DEF NewRun, HasMade, PipelinePath
        <4>3. (\E n \in 0 .. 4 : HasMade(r.run, n)) \/ IsOver(r.run)
          BY <2>0, <4>1, <4>2 DEF Steps, PipelineSteps, RecordSteps, MayBeAt
        <4>4. QED
          BY <4>3 DEF MayBeAt, RecordSteps
      <3>2. QED
        BY <2>19, <3>1, OwnAfterGoto DEF DatabaseFails, Steps, Ended, r
    <2>20. CASE Crash(c)
      <3> DEFINE x == [StartOf(c) EXCEPT !.pc = "crashed", !.answer = r.answer]
      <3>1. /\ x.pc = "crashed" /\ x.run = NewRun /\ x.plan = None
            /\ x.execution = None /\ x.verification = None
            /\ x.artifacts = {} /\ x.calls = 0
        BY DEF StartOf
      <3>2. x \in Clients
        <4>1. NewRun \in OrchestratorRuns
          BY DEF NewRun, OrchestratorRuns, TaskStates
        <4>2. StartOf(c) \in Clients
          BY <4>1, CoordinatorAssumptions
             DEF StartOf, Clients, Steps, PipelineSteps
        <4>3. "crashed" \in Steps
          BY DEF Steps, Ended
        <4>4. r.answer \in Answers \cup {None}
          BY <2>0 DEF Clients
        <4>5. QED
          BY <4>2, <4>3, <4>4, CrashedType
      <3>3. client' = [client EXCEPT ![c] = x]
        BY <2>20 DEF Crash, r
      <3> HIDE DEF x
      <3>4. /\ client' \in [Runs -> Clients] /\ client'[c] = x
            /\ \A d \in Runs : d # c => client'[d] = client[d]
        BY <2>0, <3>2, <3>3, Becomes
      <3>5. NewRun.state # "verified"
        BY DEF NewRun
      <3>6. InOrder(c, "crashed", NewRun, None, None, None, 0)
        BY <3>5 DEF InOrder, MayBeAt, ReportsFit, RecordSteps
      <3>7. OwnState(c, x)
        BY <3>1, <3>2, <3>6 DEF OwnState
      <3>8. QED
        BY <3>4, <3>7 DEF CallsAreOwn
    <2>21. QED
      BY <1>2, <2>1, <2>2, <2>3, <2>4, <2>5, <2>6, <2>7, <2>8, <2>9, <2>10, <2>11, <2>12, <2>13, <2>14, <2>15, <2>16, <2>17, <2>18, <2>19, <2>20
         DEF Step, PipelineStep, RecordStep
  <1>3. QED
    BY <1>1, <1>2 DEF Next

-----------------------------------------------------------------------------
(* What every other invariant builds on.                                   *)

BasicInv == CallsAreOwn /\ StoreTypeOK /\ FinalizationIsAtomic

LEMMA BasicInit == Init => BasicInv
  <1> SUFFICES ASSUME Init PROVE BasicInv
    OBVIOUS
  <1>1. StoreTypeOK /\ FinalizationIsAtomic
    BY DEF Init, StoreInit, StoreTypeOK, FinalizationIsAtomic, Finalized
  <1>2. ASSUME NEW c \in Runs PROVE StartOf(c) \in Clients /\ OwnState(c, StartOf(c))
    <2>1. NewRun \in OrchestratorRuns /\ NewRun.state # "verified"
      BY DEF NewRun, OrchestratorRuns, TaskStates
    <2>2. /\ StartOf(c).pc \in {"lookup", "route"}
          /\ StartOf(c).run = NewRun /\ StartOf(c).plan = None
          /\ StartOf(c).execution = None /\ StartOf(c).verification = None
          /\ StartOf(c).artifacts = {} /\ StartOf(c).calls = 0
      BY DEF StartOf
    <2>3. StartOf(c) \in Clients
      BY <2>1, CoordinatorAssumptions DEF StartOf, Clients, Steps, PipelineSteps
    <2>4. \A step \in {"lookup", "route"} :
             MayBeAt(c, step, NewRun, None, None, None, 0)
      BY DEF MayBeAt, RecordSteps
    <2>5. ReportsFit(c, NewRun, None, None, None)
      BY <2>1 DEF ReportsFit
    <2>6. QED
      BY <2>2, <2>3, <2>4, <2>5 DEF OwnState, InOrder
  <1>3. CallsAreOwn
    BY <1>2 DEF Init, CallsAreOwn
  <1>4. QED
    BY <1>1, <1>3 DEF BasicInv

LEMMA BasicStep ==
  ASSUME BasicInv, [Next]_vars
  PROVE  BasicInv' /\ [StoreNext]_storeVars
  <1>1. [StoreNext]_storeVars
    BY StoreIsUsed DEF BasicInv
  <1>2. StoreTypeOK' /\ FinalizationIsAtomic'
    BY <1>1, StoreTypeStep, AtomicStep DEF BasicInv
  <1>3. QED
    BY <1>1, <1>2, CallsStep DEF BasicInv

LEMMA Basics == Spec => []BasicInv
  BY BasicInit, BasicStep, PTL DEF Spec

\* The coordinator, the recorder and the pipeline use the store only as its
\* specification allows, so what is proved of StoreSpec holds of every attempt
\* they open, trace and finalize.
THEOREM RunsUseTheStore == Spec => StoreSpec
  <1>1. Init => StoreInit
    BY DEF Init
  <1>2. QED
    BY <1>1, Basics, BasicStep, PTL DEF Spec, StoreSpec

-----------------------------------------------------------------------------
(* What one step of a call changes.                                        *)

Acts(c) == Step(c) \/ RecordAgain(c) \/ DatabaseFails(c) \/ Crash(c)

\* How a call that is at a step got there.
LEMMA HowItGotThere ==
  ASSUME BasicInv, NEW c \in Runs, Acts(c)
  PROVE  /\ \A d \in Runs : d # c => client'[d] = client[d]
         /\ client'[c].answer = client[c].answer \/ Finalize(c)
         /\ client'[c].pc = "begin" => Lookup(c)
         /\ client'[c].pc \in PipelineSteps =>
              Begin(c) \/ client[c].pc \in PipelineSteps
         /\ client'[c].pc = "record" =>
              Verified(c) \/ Fail(c) \/ RecordAgain(c)
         /\ client'[c].pc = "envelope" => RecordLookup(c) /\ Row(c) = None
         /\ client'[c].pc = "put" =>
              \/ RecordBegin(c)
              \/ RecordLookup(c) /\ Row(c) # None /\ RetryMatches(c)
         /\ client'[c].pc = "finalize" => PutArtifacts(c)
         /\ client'[c].pc = "acked" => Finalize(c)
         /\ client'[c].pc = "rejected" =>
              \/ RecordLookup(c) /\ Row(c) # None /\ ~RetryMatches(c)
              \/ RecordBeginRejected(c) \/ PutRejected(c) \/ FinalizeRejected(c)
         /\ client'[c].pc \in Steps \ {"lookup"}
  <1>0. client \in [Runs -> Clients]
    BY DEF BasicInv, CallsAreOwn
  <1> DEFINE Moves(step) == /\ \A d \in Runs : d # c => client'[d] = client[d]
                            /\ client'[c].pc = step
                            /\ client'[c].answer = client[c].answer
  <1>1. ASSUME NEW step \in Steps, Goto(c, step)
        PROVE  Moves(step)
    BY <1>0, <1>1, Goes DEF Goto, ChangesOnly, Fields
  <1>2. ASSUME NEW step \in Steps, NEW target, Advance(c, target, step)
        PROVE  Moves(step)
    BY <1>0, <1>2 DEF Advance, Clients
  <1>3. Crash(c) => Moves("crashed")
    BY <1>0 DEF Crash, StartOf
  <1>4. PlanReturned(c) => Moves("authorize")
    BY <1>0 DEF PlanReturned, Clients
  <1>5. /\ ExecutionCompleted(c) => Moves("executed")
        /\ ExecutionRejected(c) \/ ExecutionRolledBack(c) => Moves("fail")
    BY <1>0 DEF ExecutionCompleted, ExecutionRejected, ExecutionRolledBack,
                ExecutionEnds, Clients
  <1>6. Verify(c) => Moves("verified") \/ Moves("fail")
    BY <1>0 DEF Verify, Clients
  <1>7. RecordLookup(c) =>
          \/ Moves("envelope") /\ Row(c) = None
          \/ Moves("put") /\ Row(c) # None /\ RetryMatches(c)
          \/ Moves("rejected") /\ Row(c) # None /\ ~RetryMatches(c)
    BY <1>0 DEF RecordLookup, Clients
  <1>8. Finalize(c) => /\ \A d \in Runs : d # c => client'[d] = client[d]
                       /\ client'[c].pc = "acked"
    BY <1>0 DEF Finalize, Clients
  <1>9. \A step \in {"lookup", "begin"} \cup PipelineSteps \cup RecordSteps \cup Ended :
          step \in Steps
    BY DEF Steps
  <1>10. /\ Lookup(c) => Moves("begin") \/ Moves("refused")
         /\ Begin(c) => Moves("route")
         /\ BeginRefused(c) => Moves("refused")
         /\ PlanFailed(c) \/ Denied(c) \/ ExecutionRaised(c) \/ VerifyRaised(c)
              => Moves("fail")
         /\ RecordBegin(c) => Moves("put")
         /\ RecordBeginRejected(c) \/ PutRejected(c) \/ FinalizeRejected(c)
              => Moves("rejected")
         /\ PutArtifacts(c) => Moves("finalize")
         /\ RecordAgain(c) => Moves("record")
         /\ DatabaseFails(c) => Moves("raised")
    BY <1>1, <1>9
       DEF Lookup, Begin, BeginRefused, PlanFailed, Denied, ExecutionRaised,
           VerifyRaised, RecordBegin, RecordBeginRejected, PutRejected,
           FinalizeRejected, PutArtifacts, RecordAgain, DatabaseFails,
           PipelineSteps, RecordSteps, Ended
  <1>11. /\ Route(c) => Moves("plan")
         /\ Authorized(c) => Moves("execute")
         /\ Executed(c) => Moves("verify")
         /\ Verified(c) \/ Fail(c) => Moves("record")
    BY <1>2, <1>9
       DEF Route, Authorized, Executed, Verified, Fail, PipelineSteps, RecordSteps
  <1> HIDE DEF Moves
  <1>12. /\ Route(c) \/ PlanReturned(c) \/ PlanFailed(c) \/ Authorized(c) \/ Denied(c)
            \/ ExecutionRejected(c) \/ ExecutionCompleted(c)
            \/ ExecutionRolledBack(c) \/ ExecutionRaised(c) \/ Executed(c)
            \/ Verify(c) \/ VerifyRaised(c) \/ Verified(c) \/ Fail(c)
              => client[c].pc \in PipelineSteps
    BY DEF Route, PlanReturned, PlanFailed, Authorized, Denied, ExecutionRejected,
           ExecutionCompleted, ExecutionRolledBack, ExecutionEnds, ExecutionRaised,
           Executed, Verify, VerifyRaised, Verified, Fail, At, PipelineSteps
  <1>13. ASSUME NEW step, Moves(step)
         PROVE  /\ \A d \in Runs : d # c => client'[d] = client[d]
                /\ client'[c].pc = step /\ client'[c].answer = client[c].answer
    BY <1>13 DEF Moves
  <1>14. CASE Lookup(c) \/ Begin(c) \/ BeginRefused(c)
    BY <1>14, <1>10, <1>13
       DEF Steps, PipelineSteps, RecordSteps, Ended
  <1>15. CASE Route(c) \/ PlanReturned(c) \/ PlanFailed(c) \/ Authorized(c) \/ Denied(c)
    BY <1>15, <1>4, <1>10, <1>11, <1>12, <1>13
       DEF Steps, PipelineSteps, RecordSteps, Ended
  <1>16. CASE ExecutionRejected(c) \/ ExecutionCompleted(c) \/ ExecutionRolledBack(c)
           \/ ExecutionRaised(c)
    BY <1>16, <1>5, <1>10, <1>12, <1>13
       DEF Steps, PipelineSteps, RecordSteps, Ended
  <1>17. CASE Executed(c) \/ Verify(c) \/ VerifyRaised(c)
    BY <1>17, <1>6, <1>10, <1>11, <1>12, <1>13
       DEF Steps, PipelineSteps, RecordSteps, Ended
  <1>18. CASE Verified(c) \/ Fail(c) \/ RecordAgain(c)
    BY <1>18, <1>10, <1>11, <1>13
       DEF Steps, PipelineSteps, RecordSteps, Ended
  <1>19. CASE RecordLookup(c)
    BY <1>19, <1>7, <1>13
       DEF Steps, PipelineSteps, RecordSteps, Ended
  <1>20. CASE RecordBegin(c)
    BY <1>20, <1>10, <1>13
       DEF Steps, PipelineSteps, RecordSteps, Ended
  <1>21. CASE PutArtifacts(c)
    BY <1>21, <1>10, <1>13
       DEF Steps, PipelineSteps, RecordSteps, Ended
  <1>22. CASE RecordBeginRejected(c) \/ PutRejected(c) \/ FinalizeRejected(c)
    BY <1>22, <1>10, <1>13
       DEF Steps, PipelineSteps, RecordSteps, Ended
  <1>23. CASE Finalize(c)
    BY <1>23, <1>8, <1>13
       DEF Steps, PipelineSteps, RecordSteps, Ended
  <1>24. CASE DatabaseFails(c) \/ Crash(c)
    BY <1>24, <1>3, <1>10, <1>13
       DEF Steps, PipelineSteps, RecordSteps, Ended
  <1>25. QED
    BY <1>14, <1>15, <1>16, <1>17, <1>18, <1>19, <1>20, <1>21, <1>22, <1>23, <1>24
       DEF Acts, Step, PipelineStep, RecordStep

\* The rows are changed by the transactions that open and that finalize them.
LEMMA WhoChangesRows ==
  ASSUME NEW c \in Runs, Acts(c), attempts' # attempts
  PROVE  Begin(c) \/ RecordBegin(c) \/ Finalize(c)
  BY DEF Acts, Step, PipelineStep, RecordStep, Lookup, BeginRefused, Route,
         PlanReturned, PlanFailed, Authorized, Denied, ExecutionRejected,
         ExecutionCompleted, ExecutionRolledBack, ExecutionEnds, ExecutionRaised,
         Executed, Verify, VerifyRaised, Verified, Fail, Advance, Transition, Emit,
         AppendTrace, RecordLookup, RecordBeginRejected, PutArtifacts, PutRejected,
         FinalizeRejected, RecordAgain, DatabaseFails, Crash, storeVars

\* A finalization is one of a finished run.
LEMMA FinalizeUsesStore ==
  ASSUME BasicInv, NEW c \in Runs, Finalize(c)
  PROVE  /\ AttemptOf[c] \in Attempts
         /\ OutcomeOf(c) \in CallerOutcomes
         /\ client[c].calls \in Clock
         /\ IsOver(client[c].run)
         /\ FinalizeAttempt(AttemptOf[c], OutcomeOf(c), client[c].calls)
  <1>1. IsOver(client[c].run) /\ OwnState(c, client[c]) /\ client[c].calls >= 1
    BY DEF BasicInv, CallsAreOwn, OwnState, InOrder, MayBeAt, Finalize, At,
           RecordSteps
  <1>2. OutcomeOf(c) \in CallerOutcomes
    BY <1>1, OutcomeIsAllowed
  <1>3. client[c].calls \in Clock
    BY <1>1, CoordinatorAssumptions DEF OwnState, Clients
  <1>4. QED
    BY <1>1, <1>2, <1>3, CoordinatorAssumptions DEF Finalize

\* A row that becomes final is the outcome of the run that finalizes it.
LEMMA WhoFinalizes ==
  ASSUME BasicInv, NEW c \in Runs, Acts(c), NEW a \in Attempts,
         ~Finalized(a), Finalized(a)'
  PROVE  /\ Finalize(c) /\ a = AttemptOf[c]
         /\ attempts[a] \in AttemptRecords
         /\ attempts'[a] = Candidate(attempts[a], OutcomeOf(c), client[c].calls)
         /\ attempts'[a] \in AttemptRecords
         /\ ValidRecord(a, attempts'[a])
         /\ FirstFinalizationAccepts(a, attempts'[a])
         /\ journal'[a] = JournalAtFinalization(a, attempts'[a])
         /\ OutcomeOf(c) \in CallerOutcomes /\ IsOver(client[c].run)
         /\ PlanUnchanged(a, OutcomeOf(c))
  <1>1. Begin(c) \/ RecordBegin(c) \/ Finalize(c)
    BY WhoChangesRows DEF Finalized
  <1>2. \A b \in Attempts : \A i, env, plan :
          BeginAttempt(b, i, env, plan) => (Finalized(a)' => Finalized(a))
    BY DEF BeginAttempt, Finalized, OpenRecord, BasicInv, StoreTypeOK
  <1>3. Finalize(c)
    BY <1>1, <1>2, CoordinatorAssumptions DEF Begin, RecordBegin
  <1> DEFINE b == AttemptOf[c]
             new == Candidate(attempts[b], OutcomeOf(c), client[c].calls)
  <1>7. /\ b \in Attempts /\ OutcomeOf(c) \in CallerOutcomes
        /\ client[c].calls \in Clock /\ IsOver(client[c].run)
        /\ FinalizeAttempt(b, OutcomeOf(c), client[c].calls)
    BY <1>3, FinalizeUsesStore
  <1>8. attempts' # attempts
    BY DEF Finalized
  <1>9. /\ attempts[b] \in AttemptRecords
        /\ new \in AttemptRecords /\ ValidRecord(b, new)
        /\ FirstFinalizationAccepts(b, new)
        /\ CommitFinalization(b, new, client[c].calls)
    BY <1>7, <1>8, FinalizeCases DEF BasicInv, storeVars
  <1>10. PlanUnchanged(b, OutcomeOf(c))
    BY <1>7 DEF FinalizeAttempt, FinalizeAccepts
  <1> HIDE DEF new
  <1>11. /\ attempts' = [attempts EXCEPT ![b] = new]
         /\ journal' = [journal EXCEPT ![b] = JournalAtFinalization(b, new)]
    BY <1>9 DEF CommitFinalization
  <1>12. a = b
    BY <1>7, <1>11 DEF Finalized, BasicInv, StoreTypeOK
  <1>13. attempts'[b] = new /\ journal'[b] = JournalAtFinalization(b, new)
    BY <1>7, <1>11 DEF BasicInv, StoreTypeOK
  <1>14. QED
    BY <1>3, <1>7, <1>9, <1>10, <1>12, <1>13 DEF new

-----------------------------------------------------------------------------
(* Records are sound.                                                      *)

\* A call that is about to finalize has stored its payloads.
PayloadsArePut ==
  /\ blobs \subseteq Runs
  /\ \A c \in Runs : At(c, "finalize") => client[c].artifacts \subseteq blobs

LEMMA BlobsGrow ==
  ASSUME NEW c \in Runs, Acts(c)
  PROVE  blobs' = blobs \/ PutArtifacts(c)
  BY DEF Acts, Step, PipelineStep, RecordStep, Lookup, Begin, BeginRefused, Route,
         PlanReturned, PlanFailed, Authorized, Denied, ExecutionRejected,
         ExecutionCompleted, ExecutionRolledBack, ExecutionEnds, ExecutionRaised,
         Executed, Verify, VerifyRaised, Verified, Fail, Advance,
         RecordLookup, RecordBegin, RecordBeginRejected, PutRejected, Finalize,
         FinalizeRejected, RecordAgain, DatabaseFails, Crash

LEMMA PayloadsStep ==
  ASSUME BasicInv, PayloadsArePut, [Next]_vars
  PROVE  PayloadsArePut' /\ blobs \subseteq blobs'
  <1>1. CASE UNCHANGED vars
    BY <1>1 DEF vars, PayloadsArePut, At
  <1>2. ASSUME NEW c \in Runs, Acts(c)
        PROVE  PayloadsArePut' /\ blobs \subseteq blobs'
    <2>1. client[c] \in Clients /\ client[c].artifacts \subseteq {c}
      BY DEF BasicInv, CallsAreOwn, OwnState
    <2>2. PutArtifacts(c) => blobs' = blobs \cup client[c].artifacts
                             /\ client'[c].artifacts = client[c].artifacts
      BY DEF PutArtifacts, Goto, BasicInv, CallsAreOwn, Clients
    <2>3. blobs \subseteq blobs' /\ blobs' \subseteq Runs
      BY <1>2, <2>1, <2>2, BlobsGrow DEF PayloadsArePut
    <2>4. ASSUME NEW d \in Runs, At(d, "finalize")'
          PROVE  client'[d].artifacts \subseteq blobs'
      <3>1. CASE d = c
        BY <1>2, <2>2, <2>4, <3>1, HowItGotThere DEF At
      <3>2. CASE d # c
        BY <1>2, <2>3, <2>4, <3>2, HowItGotThere DEF At, PayloadsArePut
      <3>3. QED
        BY <3>1, <3>2
    <2>5. QED
      BY <2>3, <2>4 DEF PayloadsArePut
  <1>3. QED
    BY <1>1, <1>2 DEF Next, Acts

LEMMA SoundStep ==
  ASSUME BasicInv, PayloadsArePut, ArtifactsAreStored, [Next]_vars
  PROVE  ArtifactsAreStored'
  <1>1. CASE UNCHANGED vars
    BY <1>1 DEF vars, ArtifactsAreStored, Finalized
  <1>2. ASSUME NEW c \in Runs, Acts(c), NEW a \in Attempts, Finalized(a)'
        PROVE  attempts'[a].artifacts \subseteq blobs'
    <2>1. [Next]_vars /\ [StoreNext]_storeVars /\ blobs \subseteq blobs'
      BY BasicStep, PayloadsStep
    <2>2. CASE Finalized(a)
      <3>1. attempts'[a] = attempts[a]
        BY <2>1, <2>2, RowsStay DEF BasicInv
      <3>2. QED
        BY <2>1, <2>2, <3>1 DEF ArtifactsAreStored
    <2>3. CASE ~Finalized(a)
      <3>1. /\ Finalize(c)
            /\ attempts'[a] = Candidate(attempts[a], OutcomeOf(c), client[c].calls)
        BY <1>2, <2>3, WhoFinalizes
      <3>2. attempts'[a].artifacts = client[c].artifacts
        BY <3>1 DEF Candidate, OutcomeOf
      <3>3. client[c].artifacts \subseteq blobs
        BY <3>1 DEF Finalize, PayloadsArePut
      <3>4. QED
        BY <2>1, <3>2, <3>3
    <2>4. QED
      BY <2>2, <2>3
  <1>3. QED
    BY <1>1, <1>2 DEF Next, Acts, ArtifactsAreStored

\* Whatever fails or stops, every call, row and event is well formed and no
\* final record refers to a payload that was not stored before it.
THEOREM RecordsStaySound == Spec => []RecordsAreSound
  <1>1. Init => PayloadsArePut /\ ArtifactsAreStored
    <2>1. Init => \A c \in Runs : client[c].pc \in {"lookup", "route"}
      BY DEF Init, StartOf
    <2>2. QED
      BY <2>1 DEF Init, StoreInit, PayloadsArePut, ArtifactsAreStored, Finalized, At
  <1>2. BasicInv /\ PayloadsArePut /\ ArtifactsAreStored /\ [Next]_vars
          => PayloadsArePut' /\ ArtifactsAreStored'
    BY PayloadsStep, SoundStep
  <1>3. BasicInv /\ PayloadsArePut /\ ArtifactsAreStored => RecordsAreSound
    BY DEF BasicInv, CallsAreOwn, PayloadsArePut, RecordsAreSound, CoordinatorTypeOK
  <1>4. QED
    BY <1>1, <1>2, <1>3, Basics, PTL DEF Spec

-----------------------------------------------------------------------------
(* The envelope is durable before the first event.                         *)

\* What begin_attempt leaves in the row, whether it opened it or found it.
LEMMA BeginOpens ==
  ASSUME StoreTypeOK, NEW a \in Attempts, NEW i \in Identities,
         NEW env \in Environments, NEW plan \in Plans \cup {None},
         BeginAttempt(a, i, env, plan)
  PROVE  /\ attempts'[a] # None
         /\ attempts'[a].identity = i /\ attempts'[a].environment = env
         /\ attempts'[a].plan = Sanitized(plan)
  <1>1. CASE attempts[a] # None
    BY <1>1 DEF BeginAttempt, BeginAccepts, SameEnvelope
  <1>2. CASE attempts[a] = None
    <2>1. attempts'[a] = OpenRecord(i, env, Sanitized(plan))
      BY <1>2 DEF BeginAttempt, StoreTypeOK
    <2>2. OpenRecord(i, env, Sanitized(plan)) \in AttemptRecords
      BY SanitizedType, OpenRecordType
    <2>3. QED
      <3>1. OpenRecord(i, env, Sanitized(plan)) # None
        BY <2>2, StoreAssumptions
      <3>2. QED
        BY <2>1, <3>1 DEF OpenRecord
  <1>3. QED
    BY <1>1, <1>2

\* A row keeps its envelope, and its plan once it has one.
LEMMA EnvelopeStays ==
  ASSUME BasicInv, NEW c \in Runs, Acts(c), NEW a \in Attempts, attempts[a] # None
  PROVE  /\ attempts'[a] # None
         /\ attempts'[a].identity = attempts[a].identity
         /\ attempts'[a].environment = attempts[a].environment
         /\ attempts[a].plan # None => attempts'[a].plan = attempts[a].plan
  <1>1. CASE Begin(c) \/ RecordBegin(c)
    BY <1>1 DEF Begin, RecordBegin, BeginAttempt, BasicInv, StoreTypeOK
  <1>2. CASE Finalize(c)
    <2> DEFINE b == AttemptOf[c]
               new == Candidate(attempts[b], OutcomeOf(c), client[c].calls)
    <2>1. /\ b \in Attempts /\ OutcomeOf(c) \in CallerOutcomes
          /\ client[c].calls \in Clock
          /\ FinalizeAttempt(b, OutcomeOf(c), client[c].calls)
      BY <1>2, FinalizeUsesStore
    <2>2. CASE UNCHANGED storeVars
      BY <2>2 DEF storeVars
    <2>3. CASE ~UNCHANGED storeVars
      <3>1. /\ attempts[b] \in AttemptRecords
            /\ CommitFinalization(b, new, client[c].calls)
        BY <2>1, <2>3, FinalizeCases DEF BasicInv
      <3>2. /\ new \in AttemptRecords
            /\ new.identity = attempts[b].identity
            /\ new.environment = attempts[b].environment
            /\ new.plan = IF attempts[b].plan # None THEN attempts[b].plan
                          ELSE Sanitized(OutcomeOf(c).plan)
        BY <2>1, <3>1, CandidateType, StoreAssumptions
      <3> HIDE DEF new
      <3>3. new # None
        BY <3>2, StoreAssumptions
      <3>4. attempts' = [attempts EXCEPT ![b] = new]
        BY <3>1 DEF CommitFinalization
      <3>5. QED
        BY <3>2, <3>3, <3>4 DEF BasicInv, StoreTypeOK
    <2>4. QED
      BY <2>2, <2>3
  <1>3. CASE attempts' = attempts
    BY <1>3
  <1>4. QED
    BY <1>1, <1>2, <1>3, WhoChangesRows

\* The row of the call is there, with the envelope it was called with.
HasRow(c) ==
  /\ Row(c) # None
  /\ Row(c).identity = IdentityOf[c]
  /\ Row(c).environment = EnvironmentOf[c]

RowsAreOpened ==
  \A c \in Runs :
    /\ c \in Coordinated /\ client[c].pc \in PipelineSteps \cup RecordSteps \cup {"acked"}
         => HasRow(c)
    /\ client[c].pc \in {"put", "finalize"} => HasRow(c)
    /\ client[c].answer # None => HasRow(c)

LEMMA RowsOpenedStep ==
  ASSUME BasicInv, RowsAreOpened, [Next]_vars
  PROVE  RowsAreOpened'
  <1>1. CASE UNCHANGED vars
    BY <1>1 DEF vars, RowsAreOpened, HasRow, Row
  <1>2. ASSUME NEW c \in Runs, Acts(c)
        PROVE  RowsAreOpened'
    <2>1. ASSUME NEW d \in Runs, HasRow(d) PROVE HasRow(d)'
      BY <1>2, <2>1, EnvelopeStays, CoordinatorAssumptions DEF HasRow, Row
    <2>2. Begin(c) \/ RecordBegin(c) => HasRow(c)'
      <3>1. client[c].plan \in Plans \cup {None}
        BY DEF BasicInv, CallsAreOwn, OwnState, Clients
      <3>2. QED
        BY <3>1, BeginOpens, CoordinatorAssumptions
           DEF Begin, RecordBegin, HasRow, Row, BasicInv
    <2>3. Row(c) # None /\ RetryMatches(c) => HasRow(c)
      BY DEF RetryMatches, HasRow
    <2>4. /\ Verified(c) \/ Fail(c) => client[c].pc \in PipelineSteps
          /\ RecordAgain(c) /\ c \in Coordinated => client[c].pc = "acked"
          /\ RecordLookup(c) => client[c].pc = "record"
          /\ PutArtifacts(c) => client[c].pc = "put"
          /\ Finalize(c) => client[c].pc = "finalize"
      BY DEF Verified, Fail, RecordAgain, RecordLookup, PutArtifacts, Finalize, At,
             PipelineSteps
    <2>5. /\ c \in Coordinated
             /\ client'[c].pc \in PipelineSteps \cup RecordSteps \cup {"acked"}
               => HasRow(c)'
          /\ client'[c].pc \in {"put", "finalize"} => HasRow(c)'
          /\ client'[c].answer # None => HasRow(c)'
      BY <1>2, <2>1, <2>2, <2>3, <2>4, HowItGotThere DEF RowsAreOpened, RecordSteps
    <2>6. ASSUME NEW d \in Runs, d # c PROVE client'[d] = client[d]
      BY <1>2, <2>6, HowItGotThere
    <2>7. QED
      BY <2>1, <2>5, <2>6 DEF RowsAreOpened
  <1>3. QED
    BY <1>1, <1>2 DEF Next, Acts

-----------------------------------------------------------------------------
(* What one step of a call adds to the journals.                           *)

Transits(c) ==
  \E n \in 0 .. 4, target \in Targets :
    /\ HasMade(client[c].run, n)
    /\ Transition(c, target)
    /\ client'[c].run = AfterTransition(client[c].run, target)

Emits(c) ==
  \E type \in EventTypes \ {"orchestrator.transition"}, report \in {c, None} :
    Emit(c, type, report) /\ client'[c].run = client[c].run

LEMMA HowItTraces ==
  ASSUME BasicInv, NEW c \in Runs, Acts(c)
  PROVE  \/ Transits(c) /\ client[c].pc \in PipelineSteps
         \/ Emits(c) /\ client[c].pc \in PipelineSteps
         \/ Finalize(c) /\ client'[c].run = client[c].run
         \/ /\ UNCHANGED journal /\ client'[c].run \in {client[c].run, NewRun}
            /\ client'[c].run = client[c].run \/ client'[c].pc = "crashed"
  <1>0. client \in [Runs -> Clients]
    BY DEF BasicInv, CallsAreOwn
  <1>1. MayBeAt(c, client[c].pc, client[c].run, client[c].plan, client[c].execution,
                client[c].verification, client[c].calls)
    BY DEF BasicInv, CallsAreOwn, OwnState, InOrder
  <1>2. ASSUME NEW step, Goto(c, step) PROVE client'[c].run = client[c].run
    BY <1>0, <1>2 DEF Goto, Clients
  <1>3. ASSUME NEW step, NEW target \in Targets, Advance(c, target, step),
               \E n \in 0 .. 4 : HasMade(client[c].run, n)
        PROVE  Transits(c)
    BY <1>0, <1>3 DEF Advance, Transits, Clients
  <1>4. CASE Route(c)
    <2>1. HasMade(client[c].run, 0)
      BY <1>1, <1>4 DEF Route, At, MayBeAt, NewRun, HasMade, PipelinePath
    <2>2. QED
      BY <1>3, <1>4, <2>1 DEF Route, At, PipelineSteps, Targets
  <1>5. CASE Authorized(c) \/ Executed(c) \/ Verified(c)
    <2>1. \E n \in 0 .. 4 : HasMade(client[c].run, n)
      BY <1>1, <1>5 DEF Authorized, Executed, Verified, At, MayBeAt
    <2>2. QED
      BY <1>3, <1>5, <2>1 DEF Authorized, Executed, Verified, At, PipelineSteps, Targets
  <1>6. CASE Fail(c)
    <2>1. \E n \in 1 .. 4 : HasMade(client[c].run, n)
      BY <1>1, <1>6 DEF Fail, At, MayBeAt
    <2>2. \E n \in 0 .. 4 : HasMade(client[c].run, n)
      BY <2>1
    <2>3. QED
      BY <1>3, <1>6, <2>2 DEF Fail, At, PipelineSteps, Targets
  <1>7. CASE PlanReturned(c)
    <2>1. HasMade(client[c].run, 1)
      BY <1>1, <1>7 DEF PlanReturned, At, MayBeAt
    <2>2. client'[c].run = AfterTransition(client[c].run, "planned")
      BY <1>0, <1>7 DEF PlanReturned, Clients
    <2>3. QED
      BY <1>7, <2>1, <2>2 DEF PlanReturned, Transits, At, PipelineSteps, Targets
  <1>8. CASE PlanFailed(c) \/ Denied(c)
    BY <1>2, <1>8 DEF PlanFailed, Denied, Emits, At, PipelineSteps, EventTypes
  <1>9. CASE ExecutionRejected(c) \/ ExecutionCompleted(c) \/ ExecutionRolledBack(c)
    <2>1. client'[c].run = client[c].run
      BY <1>0, <1>9 DEF ExecutionRejected, ExecutionCompleted, ExecutionRolledBack,
                        ExecutionEnds, Clients
    <2>2. QED
      BY <1>9, <2>1
         DEF ExecutionRejected, ExecutionCompleted, ExecutionRolledBack,
             ExecutionEnds, Emits, At, PipelineSteps, EventTypes
  <1>10. CASE Verify(c)
    <2>1. client'[c].run = client[c].run
      BY <1>0, <1>10 DEF Verify, Clients
    <2>2. QED
      BY <1>10, <2>1 DEF Verify, Emits, At, PipelineSteps, EventTypes
  <1>11. CASE Lookup(c) \/ Begin(c) \/ BeginRefused(c) \/ ExecutionRaised(c)
              \/ VerifyRaised(c) \/ RecordBegin(c) \/ RecordBeginRejected(c)
              \/ PutArtifacts(c) \/ PutRejected(c) \/ FinalizeRejected(c)
              \/ RecordAgain(c) \/ DatabaseFails(c)
    BY <1>2, <1>11
       DEF Lookup, Begin, BeginAttempt, BeginRefused, ExecutionRaised, VerifyRaised,
           RecordBegin, RecordBeginRejected, PutArtifacts, PutRejected,
           FinalizeRejected, RecordAgain, DatabaseFails, storeVars
  <1>12. CASE RecordLookup(c)
    BY <1>0, <1>12 DEF RecordLookup, storeVars, Clients
  <1>13. CASE Crash(c)
    BY <1>0, <1>13 DEF Crash, StartOf, storeVars
  <1>14. CASE Finalize(c)
    BY <1>0, <1>14 DEF Finalize, Clients
  <1>15. QED
    BY <1>4, <1>5, <1>6, <1>7, <1>8, <1>9, <1>10, <1>11, <1>12, <1>13, <1>14
       DEF Acts, Step, PipelineStep, RecordStep

\* A sequence with one more element.
LEMMA Appended ==
  ASSUME NEW s \in Seq(TraceEvents), NEW e
  PROVE  /\ DOMAIN Append(s, e) = 1 .. Len(s) + 1
         /\ \A i \in DOMAIN s : i \in DOMAIN Append(s, e) /\ Append(s, e)[i] = s[i]
         /\ Append(s, e)[Len(s) + 1] = e
         /\ \A i \in DOMAIN Append(s, e) :
              \/ i \in DOMAIN s /\ Append(s, e)[i] = s[i]
              \/ i = Len(s) + 1 /\ Append(s, e)[i] = e
  OBVIOUS

\* What append_trace does to the journals.
LEMMA AppendTraceShows ==
  ASSUME StoreTypeOK, NEW e \in CallerEvents, AppendTrace(e)
  PROVE  /\ e.attempt \in Attempts /\ e \in TraceEvents /\ e.run # Store
         /\ \A a \in Attempts : a # e.attempt => journal'[a] = journal[a]
         /\ \/ journal'[e.attempt] = journal[e.attempt]
            \/ journal'[e.attempt] = Append(journal[e.attempt], e)
         /\ \E i \in DOMAIN journal'[e.attempt] : journal'[e.attempt][i] = e
  <1>1. e.attempt \in Attempts /\ e \in TraceEvents /\ e.run # Store
    BY StoreAssumptions DEF TraceEvents
  <1>2. journal[e.attempt] \in Seq(TraceEvents)
    BY <1>1 DEF StoreTypeOK
  <1>3. CASE \E i \in DOMAIN journal[e.attempt] : journal[e.attempt][i] = e
    BY <1>1, <1>3 DEF AppendTrace
  <1>4. CASE ~\E i \in DOMAIN journal[e.attempt] : journal[e.attempt][i] = e
    <2>1. /\ journal'[e.attempt] = Append(journal[e.attempt], e)
          /\ \A a \in Attempts : a # e.attempt => journal'[a] = journal[a]
      BY <1>1, <1>4 DEF AppendTrace, StoreTypeOK
    <2>2. /\ Len(journal[e.attempt]) + 1 \in DOMAIN Append(journal[e.attempt], e)
          /\ Append(journal[e.attempt], e)[Len(journal[e.attempt]) + 1] = e
      BY <1>1, <1>2
    <2>3. QED
      BY <1>1, <2>1, <2>2
  <1>5. QED
    BY <1>3, <1>4

\* The event of a transition of c, and of another step of c.
EventOf(c, e) == e.attempt = AttemptOf[c] /\ e.identity = IdentityOf[c] /\ e.run = c

LEMMA TransitsShows ==
  ASSUME BasicInv, NEW c \in Runs, Transits(c)
  PROVE  \E e \in CallerEvents :
           /\ AppendTrace(e) /\ EventOf(c, e)
           /\ e.type = "orchestrator.transition"
           /\ e.sequence = client[c].run.length + 1
           /\ e.from = client[c].run.state
           /\ e.to = client'[c].run.state
           /\ e.to \in AllowedTransitions[e.from]
           /\ client'[c].run.length = e.sequence
  <1>1. PICK n \in 0 .. 4, target \in Targets :
               /\ HasMade(client[c].run, n)
               /\ Transition(c, target)
               /\ client'[c].run = AfterTransition(client[c].run, target)
    BY DEF Transits
  <1> DEFINE e == TransitionEvent(AttemptOf[c], IdentityOf[c], c,
                                  client[c].run.length + 1, client[c].run.state, target)
  <1>2. e \in CallerEvents
    BY <1>1, TransitionIsAllowed
  <1>3. AppendTrace(e) /\ target \in AllowedTransitions[client[c].run.state]
    BY <1>1 DEF Transition, CanTransition
  <1>4. /\ EventOf(c, e) /\ e.type = "orchestrator.transition"
        /\ e.sequence = client[c].run.length + 1
        /\ e.from = client[c].run.state /\ e.to = target
    BY DEF EventOf, TransitionEvent
  <1>5. client'[c].run.length = client[c].run.length + 1
        /\ client'[c].run.state = target
    BY <1>1 DEF AfterTransition
  <1> HIDE DEF e
  <1>6. QED
    BY <1>2, <1>3, <1>4, <1>5

LEMMA EmitsShows ==
  ASSUME BasicInv, NEW c \in Runs, Emits(c)
  PROVE  \E e \in CallerEvents :
           /\ AppendTrace(e) /\ EventOf(c, e)
           /\ e.type # "orchestrator.transition"
           /\ e.report \in {c, None}
  <1>1. PICK type \in EventTypes \ {"orchestrator.transition"}, report \in {c, None} :
               Emit(c, type, report)
    BY DEF Emits
  <1> DEFINE e == StepEvent(AttemptOf[c], IdentityOf[c], c, type, report)
  <1>2. e \in CallerEvents
    BY StepEventIsAllowed
  <1>3. EventOf(c, e) /\ e.type # "orchestrator.transition" /\ e.report \in {c, None}
    BY DEF EventOf, StepEvent
  <1>4. AppendTrace(e)
    BY <1>1 DEF Emit
  <1> HIDE DEF e
  <1>5. QED
    BY <1>2, <1>3, <1>4

\* The terminal transitions carry the identity of the row, and follow what was
\* there.
LEMMA JournalOfFinalization ==
  ASSUME StoreTypeOK, NEW a \in Attempts, NEW r \in AttemptRecords,
         FirstFinalizationAccepts(a, r), NEW i \in DOMAIN JournalAtFinalization(a, r)
  PROVE  \/ /\ i \in DOMAIN journal[a]
            /\ JournalAtFinalization(a, r)[i] = journal[a][i]
         \/ /\ JournalAtFinalization(a, r)[i].run = Store
            /\ JournalAtFinalization(a, r)[i].identity = r.identity
            /\ JournalAtFinalization(a, r)[i].sequence >= 1
            /\ r.final = "completed"
  <1>1. CASE r.final # "completed"
    BY <1>1 DEF JournalAtFinalization
  <1>2. CASE r.final = "completed"
    <2> DEFINE s == journal[a]
               t == TerminalEvents(a, s, r)
    <2>1. s \in Seq(TraceEvents) /\ EndsVerified(s)
      BY <1>2 DEF StoreTypeOK, FirstFinalizationAccepts
    <2>2. t \in Seq(TraceEvents) /\ Len(t) = 2
      BY <2>1, TerminalEventsType
    <2>20. s[Len(s)] \in TraceEvents
      BY <2>1 DEF EndsVerified, TransitionsIn
    <2>21. s[Len(s)].sequence \in Nat
      BY <2>20 DEF TraceEvents
    <2>3. /\ t[1].run = Store /\ t[1].identity = r.identity /\ t[1].sequence >= 1
          /\ t[2].run = Store /\ t[2].identity = r.identity /\ t[2].sequence >= 1
      BY <2>21 DEF TerminalEvents, TransitionEvent
    <2> HIDE DEF s, t
    <2>4. JournalAtFinalization(a, r) = s \o t
      BY <1>2 DEF JournalAtFinalization, s, t
    <2>5. /\ Len(s) \in Nat
          /\ i \in 1 .. Len(s) + 2
          /\ (s \o t)[i] = IF i <= Len(s) THEN s[i] ELSE t[i - Len(s)]
      BY <2>1, <2>2, <2>4, Concatenation
    <2>6. CASE i <= Len(s)
      BY <2>1, <2>4, <2>5, <2>6 DEF s
    <2>7. CASE ~(i <= Len(s))
      <3>1. i - Len(s) = 1 \/ i - Len(s) = 2
        BY <2>5, <2>7
      <3>2. QED
        BY <1>2, <2>3, <2>4, <2>5, <2>7, <3>1
    <2>8. QED
      BY <2>6, <2>7
  <1>3. QED
    BY <1>1, <1>2

\* Where an event of a journal comes from.
LEMMA NewEvents ==
  ASSUME BasicInv, NEW c \in Runs, Acts(c), NEW a \in Attempts,
         NEW i \in DOMAIN journal'[a]
  PROVE  \/ i \in DOMAIN journal[a] /\ journal'[a][i] = journal[a][i]
         \/ /\ EventOf(c, journal'[a][i]) /\ a = AttemptOf[c]
            /\ client[c].pc \in PipelineSteps
            /\ journal'[a][i].type = "orchestrator.transition" =>
                 /\ Transits(c)
                 /\ journal'[a][i].sequence = client[c].run.length + 1
         \/ /\ Finalize(c) /\ a = AttemptOf[c]
            /\ journal'[a][i].run = Store
            /\ ~Finalized(a) /\ Finalized(a)'
            /\ journal'[a][i].identity = attempts[a].identity
            /\ journal'[a][i].sequence >= 1
  <1>1. journal[a] \in Seq(TraceEvents) /\ journal \in [Attempts -> Seq(TraceEvents)]
    BY DEF BasicInv, StoreTypeOK
  <1>2. CASE Transits(c) /\ client[c].pc \in PipelineSteps
    <2>1. PICK e \in CallerEvents :
                 /\ AppendTrace(e) /\ EventOf(c, e)
                 /\ e.sequence = client[c].run.length + 1
      BY <1>2, TransitsShows
    <2>2. /\ a # e.attempt => journal'[a] = journal[a]
          /\ \/ journal'[e.attempt] = journal[e.attempt]
             \/ journal'[e.attempt] = Append(journal[e.attempt], e)
      BY <2>1, AppendTraceShows DEF BasicInv
    <2>3. \/ i \in DOMAIN journal[a] /\ journal'[a][i] = journal[a][i]
          \/ a = e.attempt /\ journal'[a][i] = e
      <3>1. CASE journal'[a] = journal[a]
        BY <3>1
      <3>2. CASE a = e.attempt /\ journal'[a] = Append(journal[a], e)
        BY <1>1, <3>2, Appended
      <3>3. QED
        BY <2>2, <3>1, <3>2
    <2>4. QED
      BY <1>2, <2>1, <2>3 DEF EventOf
  <1>3. CASE Emits(c) /\ client[c].pc \in PipelineSteps
    <2>1. PICK e \in CallerEvents :
                 /\ AppendTrace(e) /\ EventOf(c, e)
                 /\ e.type # "orchestrator.transition"
      BY <1>3, EmitsShows
    <2>2. /\ a # e.attempt => journal'[a] = journal[a]
          /\ \/ journal'[e.attempt] = journal[e.attempt]
             \/ journal'[e.attempt] = Append(journal[e.attempt], e)
      BY <2>1, AppendTraceShows DEF BasicInv
    <2>3. \/ i \in DOMAIN journal[a] /\ journal'[a][i] = journal[a][i]
          \/ a = e.attempt /\ journal'[a][i] = e
      <3>1. CASE journal'[a] = journal[a]
        BY <3>1
      <3>2. CASE a = e.attempt /\ journal'[a] = Append(journal[a], e)
        BY <1>1, <3>2, Appended
      <3>3. QED
        BY <2>2, <3>1, <3>2
    <2>4. QED
      BY <1>3, <2>1, <2>3 DEF EventOf
  <1>4. CASE Finalize(c)
    <2>1. CASE ~Finalized(a) /\ Finalized(a)'
      <3>1. /\ attempts'[a] \in AttemptRecords
            /\ FirstFinalizationAccepts(a, attempts'[a])
            /\ journal'[a] = JournalAtFinalization(a, attempts'[a])
            /\ a = AttemptOf[c] /\ attempts[a] # None
            /\ attempts'[a].identity = attempts[a].identity
        <4>1. /\ attempts'[a] \in AttemptRecords
              /\ FirstFinalizationAccepts(a, attempts'[a])
              /\ journal'[a] = JournalAtFinalization(a, attempts'[a])
              /\ a = AttemptOf[c] /\ attempts[a] \in AttemptRecords
          BY <2>1, WhoFinalizes
        <4>2. attempts[a] # None
          BY <4>1, StoreAssumptions
        <4>3. attempts'[a].identity = attempts[a].identity
          BY <4>2, EnvelopeStays
        <4>4. QED
          BY <4>1, <4>2, <4>3
      <3>2. QED
        BY <1>4, <2>1, <3>1, JournalOfFinalization DEF BasicInv
    <2>2. CASE Finalized(a) \/ ~Finalized(a)'
      <3>1. journal'[a] = journal[a]
        <4> DEFINE b == AttemptOf[c]
        <4>1. /\ b \in Attempts /\ OutcomeOf(c) \in CallerOutcomes
              /\ client[c].calls \in Clock
              /\ FinalizeAttempt(b, OutcomeOf(c), client[c].calls)
          BY <1>4, FinalizeUsesStore
        <4>2. CASE UNCHANGED storeVars
          BY <4>2 DEF storeVars
        <4>3. CASE ~UNCHANGED storeVars
          <5> DEFINE new == Candidate(attempts[b], OutcomeOf(c), client[c].calls)
          <5>1. /\ attempts[b].status # "finalized"
                /\ new \in AttemptRecords /\ new.status = "finalized"
                /\ CommitFinalization(b, new, client[c].calls)
            BY <4>1, <4>3, FinalizeCases DEF BasicInv
          <5> HIDE DEF new
          <5>2. /\ attempts' = [attempts EXCEPT ![b] = new]
                /\ journal' = [journal EXCEPT ![b] = JournalAtFinalization(b, new)]
            BY <5>1 DEF CommitFinalization
          <5>3. ~Finalized(b) /\ Finalized(b)'
            BY <4>1, <5>1, <5>2, StoreAssumptions DEF Finalized, BasicInv, StoreTypeOK
          <5>4. QED
            BY <2>2, <5>2, <5>3 DEF BasicInv, StoreTypeOK
        <4>4. QED
          BY <4>2, <4>3
      <3>2. QED
        BY <3>1
    <2>3. QED
      BY <2>1, <2>2
  <1>5. CASE UNCHANGED journal
    BY <1>5
  <1>6. QED
    BY <1>2, <1>3, <1>4, <1>5, HowItTraces

LEMMA EnvelopeStep ==
  ASSUME BasicInv, RowsAreOpened, EnvelopeBeforeEvents, [Next]_vars
  PROVE  EnvelopeBeforeEvents'
  <1>1. CASE UNCHANGED vars
    BY <1>1 DEF vars, EnvelopeBeforeEvents
  <1>2. ASSUME NEW c \in Runs, Acts(c), NEW a \in Attempts, NEW i \in DOMAIN journal'[a],
               journal'[a][i].run \in Coordinated
        PROVE  attempts'[a] # None /\ attempts'[a].identity = journal'[a][i].identity
    <2>1. journal'[a][i].run # Store
      BY <1>2, StoreAssumptions, CoordinatorAssumptions
    <2>2. CASE i \in DOMAIN journal[a] /\ journal'[a][i] = journal[a][i]
      <3>1. attempts[a] # None /\ attempts[a].identity = journal[a][i].identity
        BY <1>2, <2>2 DEF EnvelopeBeforeEvents
      <3>2. QED
        BY <1>2, <2>2, <3>1, EnvelopeStays
    <2>3. CASE /\ EventOf(c, journal'[a][i]) /\ a = AttemptOf[c]
               /\ client[c].pc \in PipelineSteps
      <3>1. HasRow(c)
        BY <1>2, <2>3 DEF EventOf, RowsAreOpened
      <3>2. QED
        BY <1>2, <2>3, <3>1, EnvelopeStays DEF EventOf, HasRow, Row
    <2>4. QED
      BY <1>2, <2>1, <2>2, <2>3, NewEvents
  <1>3. QED
    BY <1>1, <1>2 DEF Next, Acts, EnvelopeBeforeEvents

LEMMA RowsOpenedInit == Init => RowsAreOpened
  <1> SUFFICES ASSUME Init PROVE RowsAreOpened
    OBVIOUS
  <1>1. \A c \in Runs : /\ client[c].pc = IF c \in Coordinated THEN "lookup" ELSE "route"
                        /\ client[c].answer = None
    BY DEF Init, StartOf
  <1>2. QED
    BY <1>1 DEF RowsAreOpened, PipelineSteps, RecordSteps

\* No crash, failure or race between coordinated runs leaves an event of one in a
\* journal whose attempt has no envelope, or another trace's.
THEOREM EnvelopeComesFirst == Spec => []EnvelopeBeforeEvents
  <1>1. Init => EnvelopeBeforeEvents
    BY DEF Init, StoreInit, EnvelopeBeforeEvents
  <1>2. BasicInv /\ RowsAreOpened /\ EnvelopeBeforeEvents /\ [Next]_vars
          => RowsAreOpened' /\ EnvelopeBeforeEvents'
    BY RowsOpenedStep, EnvelopeStep
  <1>3. QED
    BY <1>1, <1>2, RowsOpenedInit, Basics, PTL DEF Spec

-----------------------------------------------------------------------------
(* Answers are durable.                                                    *)

\* An answer is a final row and its receipt.
AnswersAreFinal ==
  \A c \in Runs :
    client[c].answer # None =>
      /\ Finalized(AttemptOf[c])
      /\ Row(c) = client[c].answer.record
      /\ receipts[AttemptOf[c]] = client[c].answer.receipt
      /\ client[c].answer.receipt.document = client[c].answer.record

LEMMA AnswersStep ==
  ASSUME BasicInv, AnswersAreFinal, [Next]_vars
  PROVE  AnswersAreFinal'
  <1>1. CASE UNCHANGED vars
    BY <1>1 DEF vars, AnswersAreFinal, Finalized, Row
  <1>2. ASSUME NEW c \in Runs, Acts(c), NEW d \in Runs, client'[d].answer # None
        PROVE  /\ Finalized(AttemptOf[d])'
               /\ Row(d)' = client'[d].answer.record
               /\ receipts'[AttemptOf[d]] = client'[d].answer.receipt
               /\ client'[d].answer.receipt.document = client'[d].answer.record
    <2>0. BasicInv' /\ [StoreNext]_storeVars /\ AttemptOf[d] \in Attempts
      BY <1>2, BasicStep, CoordinatorAssumptions DEF Next, Acts
    <2>1. CASE client'[d].answer = client[d].answer
      <3>1. /\ Finalized(AttemptOf[d])
            /\ Row(d) = client[d].answer.record
            /\ receipts[AttemptOf[d]] = client[d].answer.receipt
            /\ client[d].answer.receipt.document = client[d].answer.record
        BY <1>2, <2>1 DEF AnswersAreFinal
      <3>2. receipts[AttemptOf[d]] # None
        BY <2>0, <3>1 DEF BasicInv, FinalizationIsAtomic
      <3>3. attempts'[AttemptOf[d]] = attempts[AttemptOf[d]]
            /\ receipts'[AttemptOf[d]] = receipts[AttemptOf[d]]
        BY <2>0, <3>1, <3>2, RowsStay DEF BasicInv
      <3>4. QED
        BY <2>1, <3>1, <3>3 DEF Row, Finalized
    <2>2. CASE d = c /\ Finalize(c)
      <3> DEFINE b == AttemptOf[c]
      <3>1. /\ OutcomeOf(c) \in CallerOutcomes /\ client[c].calls \in Clock
            /\ FinalizeAttempt(b, OutcomeOf(c), client[c].calls)
        BY <2>2, FinalizeUsesStore
      <3>2. /\ Finalized(b)' /\ receipts'[b].document = attempts'[b]
        BY <2>0, <2>2, <3>1, AnswerIsARecord DEF BasicInv
      <3>3. client'[c].answer = [record |-> attempts'[b], receipt |-> receipts'[b]]
        BY <2>2 DEF Finalize, BasicInv, CallsAreOwn, Clients
      <3>4. QED
        BY <2>2, <3>2, <3>3 DEF Row
    <2>3. QED
      BY <1>2, <2>1, <2>2, HowItGotThere
  <1>3. QED
    BY <1>1, <1>2 DEF Next, Acts, AnswersAreFinal

LEMMA AnswersInit == Init => AnswersAreFinal
  <1>1. Init => \A c \in Runs : client[c].answer = None
    BY DEF Init, StartOf
  <1>2. QED
    BY <1>1 DEF AnswersAreFinal

\* What a caller was answered with is what the database holds, for ever.
THEOREM AnswersAreDurable == Spec => []AnswerIsDurable
  <1>1. BasicInv /\ AnswersAreFinal /\ [Next]_vars => AnswersAreFinal'
    BY AnswersStep
  <1>2. AnswersAreFinal => AnswerIsDurable
    BY DEF AnswersAreFinal, AnswerIsDurable
  <1>3. QED
    BY <1>1, <1>2, AnswersInit, Basics, PTL DEF Spec

-----------------------------------------------------------------------------
(* A final record tells one run.                                           *)

\* The journal shows the first transition of run c.
ShowsFirst(events, c) ==
  \E i \in TransitionsIn(events) : events[i].run = c /\ events[i].sequence = 1

\* Transitions are numbered from 1.
NumberedFromOne(events) == \A i \in TransitionsIn(events) : events[i].sequence >= 1

LEMMA PrefixShows ==
  ASSUME NEW s \in Seq(TraceEvents), NEW t \in Seq(TraceEvents), IsPrefixOf(s, t)
  PROVE  /\ \A i \in TransitionsIn(s) : i \in TransitionsIn(t) /\ t[i] = s[i]
         /\ \A c : ShowsFirst(s, c) => ShowsFirst(t, c)
  <1>1. \A i \in DOMAIN s : i \in DOMAIN t /\ t[i] = s[i]
    BY DEF IsPrefixOf
  <1>2. QED
    BY <1>1 DEF TransitionsIn, ShowsFirst

\* A valid lifecycle has one first transition.
LEMMA OneFirst ==
  ASSUME NEW events \in Seq(TraceEvents), NEW r, ValidLifecycle(events, r),
         NumberedFromOne(events), NEW i \in TransitionsIn(events),
         NEW j \in TransitionsIn(events),
         events[i].sequence = 1, events[j].sequence = 1
  PROVE  i = j
  <1>1. ASSUME NEW k \in TransitionsIn(events), events[k].sequence = 1
        PROVE  OpensLifecycle(events, k)
    <2>1. ASSUME NEW p \in TransitionsIn(events), Follows(events, p, k)
          PROVE  FALSE
      <3>0. p \in DOMAIN events /\ events[p] \in TraceEvents
        BY DEF TransitionsIn
      <3>1. events[p].sequence \in Nat /\ events[p].sequence >= 1
        BY <3>0 DEF NumberedFromOne, TraceEvents
      <3>2. QED
        BY <1>1, <2>1, <3>1 DEF Follows
    <2>2. QED
      BY <2>1 DEF ValidLifecycle
  <1>2. i <= j /\ j <= i
    BY <1>1 DEF OpensLifecycle
  <1>3. i \in Nat /\ j \in Nat
    BY DEF TransitionsIn
  <1>4. QED
    BY <1>2, <1>3

\* A run that has made a transition shows its first one, and so does a journal
\* with a transition of the run, or whose open row has its plan.
FirstsAreShown ==
  /\ \A a \in Attempts : NumberedFromOne(journal[a])
  /\ \A a \in Attempts : \A i \in TransitionsIn(journal[a]) :
       journal[a][i].run \in Runs => ShowsFirst(journal[a], journal[a][i].run)
  /\ \A c \in Runs :
       client[c].run.length >= 1 => ShowsFirst(journal[AttemptOf[c]], c)
  /\ \A a \in Attempts :
       attempts[a] # None /\ ~Finalized(a) /\ attempts[a].plan # None =>
         ShowsFirst(journal[a], attempts[a].plan.run)

\* The record of a, and its journal up to a terminal transition, are of run c.
TellsOf(a, c) ==
  /\ \E k \in TransitionsIn(journal[a]) :
       /\ journal[a][k].to \in TerminalStates
       /\ \A i \in TransitionsIn(journal[a]) :
            i <= k => journal[a][i].run \in {c, Store}
  /\ attempts[a].plan # None => attempts[a].plan.run = c
  /\ attempts[a].verification # None => attempts[a].verification.run = c
  /\ attempts[a].artifacts \subseteq {c}

EachTellsOneRun == \A a \in Attempts : Finalized(a) => \E c \in Runs : TellsOf(a, c)

\* A row that is open is the one that was there, or has just been opened.
LEMMA WhoOpens ==
  ASSUME BasicInv, NEW c \in Runs, Acts(c), NEW a \in Attempts,
         attempts'[a] # None, ~Finalized(a)'
  PROVE  \/ attempts'[a] = attempts[a]
         \/ Begin(c) /\ attempts'[a].plan = None
         \/ /\ RecordBegin(c) /\ a = AttemptOf[c]
            /\ attempts'[a].plan = Sanitized(client[c].plan)
  <1>1. CASE Begin(c)
    <2>1. Sanitized(None) = None
      BY DEF Sanitized
    <2>2. attempts'[AttemptOf[c]].plan = None
      BY <1>1, <2>1, BeginOpens, CoordinatorAssumptions DEF Begin, BasicInv
    <2>3. a # AttemptOf[c] => attempts'[a] = attempts[a]
      BY <1>1 DEF Begin, BeginAttempt, BasicInv, StoreTypeOK
    <2>4. QED
      BY <1>1, <2>2, <2>3
  <1>2. CASE RecordBegin(c)
    <2>1. client[c].plan \in Plans \cup {None}
      BY DEF BasicInv, CallsAreOwn, OwnState, Clients
    <2>2. attempts'[AttemptOf[c]].plan = Sanitized(client[c].plan)
      BY <1>2, <2>1, BeginOpens, CoordinatorAssumptions DEF RecordBegin, BasicInv
    <2>3. a # AttemptOf[c] => attempts'[a] = attempts[a]
      BY <1>2 DEF RecordBegin, BeginAttempt, BasicInv, StoreTypeOK
    <2>4. QED
      BY <1>2, <2>2, <2>3
  <1>3. CASE Finalize(c)
    <2> DEFINE b == AttemptOf[c]
               new == Candidate(attempts[b], OutcomeOf(c), client[c].calls)
    <2>1. /\ b \in Attempts /\ OutcomeOf(c) \in CallerOutcomes
          /\ client[c].calls \in Clock
          /\ FinalizeAttempt(b, OutcomeOf(c), client[c].calls)
      BY <1>3, FinalizeUsesStore
    <2>2. CASE UNCHANGED storeVars
      BY <2>2 DEF storeVars
    <2>3. CASE ~UNCHANGED storeVars
      <3>1. /\ new \in AttemptRecords /\ new.status = "finalized"
            /\ CommitFinalization(b, new, client[c].calls)
        BY <2>1, <2>3, FinalizeCases DEF BasicInv
      <3> HIDE DEF new
      <3>2. attempts' = [attempts EXCEPT ![b] = new]
        BY <3>1 DEF CommitFinalization
      <3>3. QED
        BY <2>1, <3>1, <3>2 DEF Finalized, BasicInv, StoreTypeOK
    <2>4. QED
      BY <2>2, <2>3
  <1>4. CASE attempts' = attempts
    BY <1>4
  <1>5. QED
    BY <1>1, <1>2, <1>3, <1>4, WhoChangesRows

LEMMA FirstsStep ==
  ASSUME BasicInv, FirstsAreShown, [Next]_vars
  PROVE  FirstsAreShown'
  <1>1. CASE UNCHANGED vars
    BY <1>1 DEF vars, FirstsAreShown, Finalized
  <1>2. ASSUME NEW c \in Runs, Acts(c)
        PROVE  FirstsAreShown'
    <2>0. BasicInv' /\ [StoreNext]_storeVars
      BY <1>2, BasicStep DEF Next, Acts
    <2>1. ASSUME NEW a \in Attempts
          PROVE  /\ journal[a] \in Seq(TraceEvents) /\ journal'[a] \in Seq(TraceEvents)
                 /\ IsPrefixOf(journal[a], journal'[a])
      BY <2>0, JournalGrows DEF BasicInv, StoreTypeOK
    <2>2. \A a \in Attempts :
            \A d : ShowsFirst(journal[a], d) => ShowsFirst(journal'[a], d)
      BY <2>1, PrefixShows
    <2>3. client[c].run.length \in Nat /\ AttemptOf[c] \in Attempts
      BY CoordinatorAssumptions DEF BasicInv, CallsAreOwn, Clients, OrchestratorRuns
    <2>4. Transits(c) => ShowsFirst(journal'[AttemptOf[c]], c)
      <3>1. CASE client[c].run.length >= 1
        BY <2>2, <2>3, <3>1 DEF FirstsAreShown
      <3>2. CASE client[c].run.length = 0 /\ Transits(c)
        <4>1. PICK e \in CallerEvents :
                     /\ AppendTrace(e) /\ EventOf(c, e)
                     /\ e.type = "orchestrator.transition"
                     /\ e.sequence = client[c].run.length + 1
          BY <3>2, TransitsShows
        <4>2. PICK i \in DOMAIN journal'[e.attempt] : journal'[e.attempt][i] = e
          BY <4>1, AppendTraceShows DEF BasicInv
        <4>3. QED
          BY <3>2, <4>1, <4>2 DEF EventOf, ShowsFirst, TransitionsIn
      <3>3. QED
        BY <2>3, <3>1, <3>2
    <2>5. ASSUME NEW d \in Runs, client'[d].run.length >= 1
          PROVE  ShowsFirst(journal'[AttemptOf[d]], d)
      <3>1. CASE client'[d].run = client[d].run
        BY <2>2, <2>5, <3>1, CoordinatorAssumptions DEF FirstsAreShown
      <3>2. CASE d = c /\ Transits(c)
        BY <2>4, <3>2
      <3>3. client'[d].run # NewRun
        BY <2>5 DEF NewRun
      <3>4. d # c => client'[d] = client[d]
        BY <1>2, HowItGotThere
      <3>5. d = c => Transits(c) \/ client'[d].run = client[d].run
        BY <1>2, <3>3, HowItTraces DEF Emits
      <3>6. QED
        BY <3>1, <3>2, <3>4, <3>5
    <2>6. ASSUME NEW a \in Attempts, NEW i \in TransitionsIn(journal'[a])
          PROVE  /\ journal'[a][i].sequence >= 1
                 /\ journal'[a][i].run \in Runs => ShowsFirst(journal'[a], journal'[a][i].run)
      <3>1. i \in DOMAIN journal'[a] /\ journal'[a][i].type = "orchestrator.transition"
        BY DEF TransitionsIn
      <3>2. CASE i \in DOMAIN journal[a] /\ journal'[a][i] = journal[a][i]
        <4>1. i \in TransitionsIn(journal[a])
          BY <3>1, <3>2 DEF TransitionsIn
        <4>2. QED
          BY <2>2, <3>2, <4>1 DEF FirstsAreShown, NumberedFromOne
      <3>3. CASE /\ EventOf(c, journal'[a][i]) /\ a = AttemptOf[c]
                 /\ Transits(c)
                 /\ journal'[a][i].sequence = client[c].run.length + 1
        BY <2>3, <2>4, <3>3 DEF EventOf
      <3>4. CASE journal'[a][i].run = Store /\ journal'[a][i].sequence >= 1
        BY <3>4, StoreAssumptions
      <3>5. QED
        BY <1>2, <3>1, <3>2, <3>3, <3>4, NewEvents
    <2>7. ASSUME NEW a \in Attempts, attempts'[a] # None, ~Finalized(a)',
                 attempts'[a].plan # None
          PROVE  ShowsFirst(journal'[a], attempts'[a].plan.run)
      <3>1. CASE attempts'[a] = attempts[a]
        BY <2>2, <2>7, <3>1 DEF FirstsAreShown, Finalized
      <3>2. CASE /\ RecordBegin(c) /\ a = AttemptOf[c]
                 /\ attempts'[a].plan = Sanitized(client[c].plan)
        <4>1. IsOver(client[c].run) /\ client[c].plan \in PlansOf(c) \cup {None}
          BY <3>2 DEF BasicInv, CallsAreOwn, OwnState, InOrder, MayBeAt, RecordBegin,
                      At, RecordSteps
        <4>2. client[c].run.length >= 1
          BY <4>1 DEF IsOver, HasMade
        <4>3. ShowsFirst(journal'[a], c)
          BY <2>2, <2>3, <3>2, <4>2 DEF FirstsAreShown
        <4>4. client[c].plan # None
          BY <2>7, <3>2 DEF Sanitized
        <4>5. Sanitized(client[c].plan).run = c
          BY <4>1, <4>4 DEF Sanitized, PlansOf, PlanOf
        <4>6. QED
          BY <3>2, <4>3, <4>5
      <3>3. QED
        BY <1>2, <2>7, <3>1, <3>2, WhoOpens
    <2>8. QED
      BY <2>5, <2>6, <2>7 DEF FirstsAreShown, NumberedFromOne
  <1>3. QED
    BY <1>1, <1>2 DEF Next, Acts

\* When a row becomes final, its journal shows transitions of no run but the
\* one that finalizes it.
LEMMA OneRunFinalizes ==
  ASSUME BasicInv, FirstsAreShown, NEW c \in Runs, Acts(c), NEW a \in Attempts,
         ~Finalized(a), Finalized(a)',
         NEW d \in Runs, ShowsFirst(journal'[a], d)
  PROVE  d = c
  <1> DEFINE W == journal'[a]
             r == attempts'[a]
  <1>1. BasicInv' /\ [StoreNext]_storeVars /\ FirstsAreShown'
    BY BasicStep, FirstsStep DEF Next, Acts
  <1>2. /\ a = AttemptOf[c] /\ IsOver(client[c].run)
        /\ FirstFinalizationAccepts(a, r)
        /\ W = JournalAtFinalization(a, r)
    BY WhoFinalizes
  <1>3. ValidLifecycle(W, r)
    BY <1>2 DEF FirstFinalizationAccepts
  <1>4. /\ journal[a] \in Seq(TraceEvents) /\ W \in Seq(TraceEvents)
        /\ IsPrefixOf(journal[a], W)
    BY <1>1, JournalGrows DEF BasicInv, StoreTypeOK
  <1>5. ShowsFirst(W, c)
    <2>1. client[c].run.length >= 1
      BY <1>2 DEF IsOver, HasMade
    <2>2. ShowsFirst(journal[a], c)
      BY <1>2, <2>1 DEF FirstsAreShown
    <2>3. QED
      BY <1>4, <2>2, PrefixShows
  <1>6. PICK i \in TransitionsIn(W) : W[i].run = d /\ W[i].sequence = 1
    BY DEF ShowsFirst
  <1>7. PICK j \in TransitionsIn(W) : W[j].run = c /\ W[j].sequence = 1
    BY <1>5 DEF ShowsFirst
  <1>8. NumberedFromOne(W)
    BY <1>1 DEF FirstsAreShown
  <1>9. i = j
    BY <1>3, <1>4, <1>6, <1>7, <1>8, OneFirst
  <1>10. QED
    BY <1>6, <1>7, <1>9

\* The run that finalizes a row is the one its record and its journal tell.
LEMMA TellsWhenFinalized ==
  ASSUME BasicInv, FirstsAreShown, NEW c \in Runs, Acts(c), NEW a \in Attempts,
         ~Finalized(a), Finalized(a)'
  PROVE  TellsOf(a, c)'
  <1> DEFINE W == journal'[a]
             r == attempts'[a]
             k == Len(W)
  <1>1. BasicInv' /\ [StoreNext]_storeVars /\ FirstsAreShown'
    BY BasicStep, FirstsStep DEF Next, Acts
  <1>2. /\ a = AttemptOf[c] /\ attempts[a] \in AttemptRecords
        /\ r = Candidate(attempts[a], OutcomeOf(c), client[c].calls)
        /\ ValidRecord(a, r)
        /\ FirstFinalizationAccepts(a, r)
        /\ W = JournalAtFinalization(a, r)
    BY WhoFinalizes
  <1>3. ValidLifecycle(W, r)
    BY <1>2 DEF FirstFinalizationAccepts
  <1>4. /\ journal[a] \in Seq(TraceEvents) /\ W \in Seq(TraceEvents)
        /\ IsPrefixOf(journal[a], W)
    BY <1>1, JournalGrows DEF BasicInv, StoreTypeOK
  <1>6. \A d \in Runs : ShowsFirst(W, d) => d = c
    BY OneRunFinalizes
  <1>7. \A i \in TransitionsIn(W) : W[i].run \in {c, Store}
    <2>1. TAKE i \in TransitionsIn(W)
    <2>2. W[i] \in TraceEvents
      BY <1>4 DEF TransitionsIn
    <2>3. W[i].run \in Runs \cup {Store}
      BY <2>2 DEF TraceEvents
    <2>4. W[i].run \in Runs => ShowsFirst(W, W[i].run)
      BY <1>1 DEF FirstsAreShown
    <2>5. QED
      BY <1>6, <2>3, <2>4
  <1>8. k \in TransitionsIn(W) /\ W[k].to \in TerminalStates
    <2>1. r.status = "finalized"
      BY <1>2 DEF Candidate
    <2>2. r.final \in TerminalStates
      BY <1>2, <2>1 DEF ValidRecord
    <2>3. QED
      BY <1>3, <2>2 DEF ValidLifecycle
  <1>9. ASSUME r.plan # None
        PROVE  r.plan.run = c
    <2>1. CASE attempts[a].plan # None
      <3>1. r.plan = attempts[a].plan
        BY <1>2, <2>1 DEF Candidate
      <3>2. attempts[a] # None
        BY <1>2, StoreAssumptions
      <3>3. ShowsFirst(journal[a], r.plan.run)
        BY <2>1, <3>1, <3>2 DEF FirstsAreShown
      <3>4. ShowsFirst(W, r.plan.run)
        BY <1>4, <3>3, PrefixShows
      <3>5. attempts[a].plan.run \in Runs
        BY <1>2, <2>1 DEF AttemptRecords, Plans
      <3>6. QED
        BY <1>6, <3>1, <3>4, <3>5
    <2>2. CASE attempts[a].plan = None
      <3>1. r.plan = Sanitized(client[c].plan)
        BY <1>2, <2>2 DEF Candidate, OutcomeOf
      <3>2. client[c].plan \in PlansOf(c) \cup {None}
        BY DEF BasicInv, CallsAreOwn, OwnState
      <3>3. client[c].plan # None
        BY <1>9, <3>1 DEF Sanitized
      <3>4. QED
        BY <3>1, <3>2, <3>3 DEF Sanitized, PlansOf, PlanOf
    <2>3. QED
      BY <2>1, <2>2
  <1>10. ASSUME r.verification # None
         PROVE  r.verification.run = c
    <2>1. r.verification = client[c].verification
      BY <1>2 DEF Candidate, OutcomeOf
    <2>2. client[c].verification \in VerificationsOf(c) \cup {None}
      BY DEF BasicInv, CallsAreOwn, OwnState
    <2>3. QED
      BY <1>10, <2>1, <2>2 DEF VerificationsOf, VerificationOf
  <1>11. r.artifacts \subseteq {c}
    <2>1. r.artifacts = client[c].artifacts
      BY <1>2 DEF Candidate, OutcomeOf
    <2>2. QED
      BY <2>1 DEF BasicInv, CallsAreOwn, OwnState
  <1>12. QED
    BY <1>7, <1>8, <1>9, <1>10, <1>11 DEF TellsOf

LEMMA TellsStep ==
  ASSUME BasicInv, FirstsAreShown, EachTellsOneRun, [Next]_vars
  PROVE  EachTellsOneRun'
  <1>1. CASE UNCHANGED vars
    BY <1>1 DEF vars, EachTellsOneRun, TellsOf, Finalized
  <1>2. ASSUME NEW c \in Runs, Acts(c), NEW a \in Attempts, Finalized(a)'
        PROVE  \E d \in Runs : TellsOf(a, d)'
    <2>1. CASE ~Finalized(a)
      BY <1>2, <2>1, TellsWhenFinalized
    <2>2. CASE Finalized(a)
      <3>1. PICK d \in Runs : TellsOf(a, d)
        BY <2>2 DEF EachTellsOneRun
      <3>2. attempts'[a] = attempts[a]
        BY <2>2, BasicStep, RowsStay DEF BasicInv
      <3>3. /\ journal[a] \in Seq(TraceEvents) /\ journal'[a] \in Seq(TraceEvents)
            /\ IsPrefixOf(journal[a], journal'[a])
        BY BasicStep, JournalGrows DEF BasicInv, StoreTypeOK
      <3>4. PICK k \in TransitionsIn(journal[a]) :
                   /\ journal[a][k].to \in TerminalStates
                   /\ \A i \in TransitionsIn(journal[a]) :
                        i <= k => journal[a][i].run \in {d, Store}
        BY <3>1 DEF TellsOf
      <3>5. k \in TransitionsIn(journal'[a]) /\ journal'[a][k] = journal[a][k]
        BY <3>3, PrefixShows
      <3>6. ASSUME NEW i \in TransitionsIn(journal'[a]), i <= k
            PROVE  journal'[a][i].run \in {d, Store}
        <4>1. i \in DOMAIN journal[a] /\ journal'[a][i] = journal[a][i]
          BY <3>3, <3>6 DEF TransitionsIn, IsPrefixOf
        <4>2. i \in TransitionsIn(journal[a])
          BY <4>1 DEF TransitionsIn
        <4>3. QED
          BY <3>4, <3>6, <4>1, <4>2
      <3>7. \E m \in TransitionsIn(journal'[a]) :
               /\ journal'[a][m].to \in TerminalStates
               /\ \A i \in TransitionsIn(journal'[a]) :
                    i <= m => journal'[a][i].run \in {d, Store}
        BY <3>4, <3>5, <3>6
      <3>8. TellsOf(a, d)'
        BY <3>1, <3>2, <3>7 DEF TellsOf
      <3>9. QED
        BY <3>8
    <2>3. QED
      BY <2>1, <2>2
  <1>3. QED
    BY <1>1, <1>2 DEF Next, Acts, EachTellsOneRun

LEMMA FirstsInit == Init => FirstsAreShown /\ EachTellsOneRun
  <1> SUFFICES ASSUME Init PROVE FirstsAreShown /\ EachTellsOneRun
    OBVIOUS
  <1>1. \A c \in Runs : client[c].run.length = 0
    BY DEF Init, StartOf, NewRun
  <1>2. /\ \A a \in Attempts : attempts[a] = None /\ journal[a] = <<>>
    BY DEF Init, StoreInit
  <1>3. \A a \in Attempts : TransitionsIn(journal[a]) = {}
    BY <1>2 DEF TransitionsIn
  <1>4. \A a \in Attempts : ~Finalized(a)
    BY <1>2 DEF Finalized
  <1>5. \A a \in Attempts : NumberedFromOne(journal[a])
    BY <1>3 DEF NumberedFromOne
  <1>6. \A c \in Runs : ~(client[c].run.length >= 1)
    BY <1>1
  <1>7. FirstsAreShown
    BY <1>2, <1>3, <1>5, <1>6 DEF FirstsAreShown
  <1>8. EachTellsOneRun
    BY <1>4 DEF EachTellsOneRun
  <1>9. QED
    BY <1>7, <1>8

\* When runs share an attempt identifier, a final record and the transitions it
\* was validated against come from one of them.
THEOREM RecordsTellOneRun == Spec => []RecordTellsOneRun
  <1>1. BasicInv /\ FirstsAreShown /\ EachTellsOneRun /\ [Next]_vars
          => FirstsAreShown' /\ EachTellsOneRun'
    BY FirstsStep, TellsStep
  <1>2. ASSUME EachTellsOneRun, NEW a \in Attempts, Finalized(a)
        PROVE  \E c \in Runs :
                 /\ \A i \in LifecycleOf(journal[a]) : journal[a][i].run \in {c, Store}
                 /\ attempts[a].plan # None => attempts[a].plan.run = c
                 /\ attempts[a].verification # None => attempts[a].verification.run = c
                 /\ attempts[a].artifacts \subseteq {c}
    <2>1. PICK c \in Runs : TellsOf(a, c)
      BY <1>2 DEF EachTellsOneRun
    <2>2. \A i \in LifecycleOf(journal[a]) : journal[a][i].run \in {c, Store}
      BY <2>1 DEF TellsOf, LifecycleOf
    <2>3. QED
      BY <2>1, <2>2 DEF TellsOf
  <1>3. EachTellsOneRun => RecordTellsOneRun
    BY <1>2 DEF RecordTellsOneRun
  <1>4. QED
    BY <1>1, <1>3, FirstsInit, Basics, PTL DEF Spec

-----------------------------------------------------------------------------
(* A result that was recorded can be recorded again.                       *)

\* What the rows and the journals hold: a final record is valid, and each event
\* carries the identity of the run that emitted it or of the row.
EventsAreOwned ==
  \A a \in Attempts :
    /\ Finalized(a) => ValidRecord(a, attempts[a])
    /\ \A i \in DOMAIN journal[a] :
         \/ /\ journal[a][i].run \in Runs
            /\ AttemptOf[journal[a][i].run] = a
            /\ journal[a][i].identity = IdentityOf[journal[a][i].run]
         \/ attempts[a] # None /\ journal[a][i].identity = attempts[a].identity

\* The plan of the row is that of the run, redacted, if it has one.
PlanFits(c) == Row(c).plan # None => Row(c).plan = Sanitized(client[c].plan)

\* A call that is past validation has a row that fits it, and a call that was
\* answered holds the result of the record it was answered with.
AnswersFit ==
  \A c \in Runs :
    /\ client[c].pc \in {"put", "finalize"} => PlanFits(c)
    /\ client[c].answer # None =>
         \/ client[c].pc = "crashed"
         \/ /\ client[c].pc \in RecordSteps \cup {"acked", "rejected", "raised"}
            /\ client[c].pc # "envelope"
            /\ Row(c).plan = Sanitized(client[c].plan)
            /\ Row(c).final = OutcomeOf(c).final
            /\ Row(c).execution = client[c].execution
            /\ Row(c).verification = client[c].verification

LEMMA OwnedStep ==
  ASSUME BasicInv, EventsAreOwned, [Next]_vars
  PROVE  EventsAreOwned'
  <1>1. CASE UNCHANGED vars
    BY <1>1 DEF vars, EventsAreOwned, Finalized
  <1>2. ASSUME NEW c \in Runs, Acts(c), NEW a \in Attempts
        PROVE  /\ Finalized(a)' => ValidRecord(a, attempts'[a])
               /\ \A i \in DOMAIN journal'[a] :
                    \/ /\ journal'[a][i].run \in Runs
                       /\ AttemptOf[journal'[a][i].run] = a
                       /\ journal'[a][i].identity = IdentityOf[journal'[a][i].run]
                    \/ attempts'[a] # None /\ journal'[a][i].identity = attempts'[a].identity
    <2>1. ASSUME Finalized(a)'
          PROVE  ValidRecord(a, attempts'[a])
      <3>1. CASE Finalized(a)
        <4>1. attempts'[a] = attempts[a]
          BY <3>1, BasicStep, RowsStay DEF BasicInv
        <4>2. QED
          BY <3>1, <4>1 DEF EventsAreOwned
      <3>2. CASE ~Finalized(a)
        BY <1>2, <2>1, <3>2, WhoFinalizes
      <3>3. QED
        BY <3>1, <3>2
    <2>2. ASSUME NEW i \in DOMAIN journal'[a]
          PROVE  \/ /\ journal'[a][i].run \in Runs
                    /\ AttemptOf[journal'[a][i].run] = a
                    /\ journal'[a][i].identity = IdentityOf[journal'[a][i].run]
                 \/ attempts'[a] # None /\ journal'[a][i].identity = attempts'[a].identity
      <3>1. CASE i \in DOMAIN journal[a] /\ journal'[a][i] = journal[a][i]
        BY <1>2, <3>1, EnvelopeStays DEF EventsAreOwned
      <3>2. CASE EventOf(c, journal'[a][i]) /\ a = AttemptOf[c]
        BY <3>2 DEF EventOf
      <3>3. CASE /\ ~Finalized(a) /\ Finalized(a)'
                 /\ journal'[a][i].identity = attempts[a].identity
        <4>1. attempts[a] # None
          BY <1>2, <3>3, WhoFinalizes, StoreAssumptions
        <4>2. QED
          BY <1>2, <3>3, <4>1, EnvelopeStays
      <3>4. QED
        BY <1>2, <3>1, <3>2, <3>3, NewEvents
    <2>3. QED
      BY <2>1, <2>2
  <1>3. QED
    BY <1>1, <1>2 DEF Next, Acts, EventsAreOwned

\* The row of a call that is past validation changes only by its own hand.
LEMMA RowIsLeftAlone ==
  ASSUME BasicInv, FirstsAreShown, RowsAreOpened, NEW c \in Runs, Acts(c),
         NEW d \in Runs, d # c, client[d].pc \in {"put", "finalize"}
  PROVE  Row(d)' = Row(d)
  <1> DEFINE a == AttemptOf[d]
  <1>1. a \in Attempts /\ attempts[a] # None
    BY CoordinatorAssumptions DEF RowsAreOpened, HasRow, Row
  <1>2. CASE Begin(c) \/ RecordBegin(c)
    BY <1>1, <1>2 DEF Begin, RecordBegin, BeginAttempt, BasicInv, StoreTypeOK, Row
  <1>3. CASE Finalize(c)
    <2>1. CASE Finalized(a)
      BY <1>1, <2>1, BasicStep, RowsStay DEF BasicInv, Row, Next, Acts
    <2>2. CASE ~Finalized(a) /\ Finalized(a)'
      <3>1. IsOver(client[d].run)
        BY DEF BasicInv, CallsAreOwn, OwnState, InOrder, MayBeAt, RecordSteps
      <3>2. client[d].run.length >= 1
        BY <3>1 DEF IsOver, HasMade
      <3>3. ShowsFirst(journal[a], d)
        BY <3>2 DEF FirstsAreShown
      <3>4. /\ journal[a] \in Seq(TraceEvents) /\ journal'[a] \in Seq(TraceEvents)
            /\ IsPrefixOf(journal[a], journal'[a])
        BY <1>1, BasicStep, JournalGrows DEF BasicInv, StoreTypeOK, Next, Acts
      <3>5. ShowsFirst(journal'[a], d)
        BY <3>3, <3>4, PrefixShows
      <3>6. d = c
        BY <1>1, <2>2, <3>5, OneRunFinalizes
      <3>7. QED
        BY <3>6
    <2>3. CASE ~Finalized(a)'
      <3> DEFINE b == AttemptOf[c]
                 new == Candidate(attempts[b], OutcomeOf(c), client[c].calls)
      <3>1. /\ b \in Attempts /\ OutcomeOf(c) \in CallerOutcomes
            /\ client[c].calls \in Clock
            /\ FinalizeAttempt(b, OutcomeOf(c), client[c].calls)
        BY <1>3, FinalizeUsesStore
      <3>2. CASE UNCHANGED storeVars
        BY <3>2 DEF storeVars, Row
      <3>3. CASE ~UNCHANGED storeVars
        <4>1. /\ new \in AttemptRecords /\ new.status = "finalized"
              /\ CommitFinalization(b, new, client[c].calls)
          BY <3>1, <3>3, FinalizeCases DEF BasicInv
        <4> HIDE DEF new
        <4>2. attempts' = [attempts EXCEPT ![b] = new]
          BY <4>1 DEF CommitFinalization
        <4>3. new # None
          BY <4>1, StoreAssumptions
        <4>4. a # b
          BY <2>3, <3>1, <4>1, <4>2, <4>3 DEF Finalized, BasicInv, StoreTypeOK
        <4>5. QED
          BY <1>1, <4>2, <4>4 DEF Row, BasicInv, StoreTypeOK
      <3>4. QED
        BY <3>2, <3>3
    <2>4. QED
      BY <2>1, <2>2, <2>3
  <1>4. CASE attempts' = attempts
    BY <1>4 DEF Row
  <1>5. QED
    BY <1>2, <1>3, <1>4, WhoChangesRows

\* A call that has its result keeps it until its process dies.
LEMMA ResultIsKept ==
  ASSUME BasicInv, NEW c \in Runs, Acts(c),
         client[c].pc \in RecordSteps \cup Ended
  PROVE  /\ client[c].pc # "crashed"
         /\ \/ client'[c].pc = "crashed"
            \/ /\ client'[c].pc \in RecordSteps \cup {"acked", "rejected", "raised"}
               /\ client'[c].run = client[c].run
               /\ client'[c].plan = client[c].plan
               /\ client'[c].execution = client[c].execution
               /\ client'[c].verification = client[c].verification
  <1>0. client \in [Runs -> Clients]
    BY DEF BasicInv, CallsAreOwn
  <1> DEFINE Keeps == /\ client'[c].run = client[c].run
                      /\ client'[c].plan = client[c].plan
                      /\ client'[c].execution = client[c].execution
                      /\ client'[c].verification = client[c].verification
  <1>1. RecordStep(c) \/ RecordAgain(c) \/ DatabaseFails(c) \/ Crash(c)
    BY DEF Acts, Step, Lookup, Begin, BeginRefused, PipelineStep, Route, PlanReturned,
           PlanFailed, Authorized, Denied, ExecutionRejected, ExecutionCompleted,
           ExecutionRolledBack, ExecutionEnds, ExecutionRaised, Executed, Verify,
           VerifyRaised, Verified, Fail, At, RecordSteps, Ended
  <1>2. ASSUME NEW step \in Steps, Goto(c, step)
        PROVE  Keeps /\ client'[c].pc = step
    BY <1>0, <1>2, Goes DEF Goto, ChangesOnly, Fields
  <1>3. /\ RecordSteps \cup {"acked", "rejected", "raised"} \subseteq Steps
        /\ "crashed" \in Ended
    BY DEF Steps, Ended
  <1>4. CASE RecordLookup(c)
    <2>1. Keeps /\ client'[c].pc \in {"envelope", "put", "rejected"}
      BY <1>0, <1>4 DEF RecordLookup, Clients
    <2>2. QED
      BY <1>4, <2>1 DEF RecordLookup, At, RecordSteps
  <1>5. CASE \/ RecordBegin(c) \/ RecordBeginRejected(c) \/ PutArtifacts(c)
             \/ PutRejected(c) \/ FinalizeRejected(c)
    <2>1. Keeps /\ client'[c].pc \in {"put", "finalize", "rejected"}
      BY <1>2, <1>3, <1>5 DEF RecordBegin, RecordBeginRejected, PutArtifacts,
                              PutRejected, FinalizeRejected, RecordSteps
    <2>2. QED
      BY <1>5, <2>1 DEF RecordBegin, RecordBeginRejected, PutArtifacts,
                        PutRejected, FinalizeRejected, At, RecordSteps
  <1>6. CASE Finalize(c)
    <2>1. Keeps /\ client'[c].pc = "acked"
      BY <1>0, <1>6 DEF Finalize, Clients
    <2>2. QED
      BY <1>6, <2>1 DEF Finalize, At
  <1>7. CASE RecordAgain(c)
    <2>1. Keeps /\ client'[c].pc = "record"
      BY <1>2, <1>3, <1>7 DEF RecordAgain, RecordSteps
    <2>2. QED
      BY <1>7, <2>1 DEF RecordAgain, At, RecordSteps
  <1>8. CASE DatabaseFails(c)
    <2>1. Keeps /\ client'[c].pc = "raised"
      BY <1>2, <1>3, <1>8 DEF DatabaseFails
    <2>2. QED
      BY <1>3, <1>8, <2>1 DEF DatabaseFails
  <1>9. CASE Crash(c)
    <2>1. client'[c].pc = "crashed"
      BY <1>0, <1>9 DEF Crash, StartOf
    <2>2. QED
      BY <1>3, <1>9, <2>1 DEF Crash
  <1>10. QED
    BY <1>1, <1>4, <1>5, <1>6, <1>7, <1>8, <1>9 DEF RecordStep

\* The record a call is answered with is its own result.
LEMMA AnswerIsTheResult ==
  ASSUME BasicInv, NEW c \in Runs, Finalize(c), PlanFits(c)
  PROVE  /\ Row(c)'.plan = Sanitized(client[c].plan)
         /\ Row(c)'.final = OutcomeOf(c).final
         /\ Row(c)'.execution = client[c].execution
         /\ Row(c)'.verification = client[c].verification
  <1> DEFINE a == AttemptOf[c]
             new == Candidate(attempts[a], OutcomeOf(c), client[c].calls)
  <1>1. /\ a \in Attempts /\ OutcomeOf(c) \in CallerOutcomes
        /\ client[c].calls \in Clock
        /\ FinalizeAttempt(a, OutcomeOf(c), client[c].calls)
    BY FinalizeUsesStore
  <1>2. attempts'[a] = new
    <2>1. CASE attempts[a].status = "finalized"
      BY <1>1, <2>1 DEF FinalizeAttempt, FinalizeAccepts, RetryAccepts, storeVars
    <2>2. CASE attempts[a].status # "finalized"
      <3>1. attempts' = [attempts EXCEPT ![a] = new]
        BY <1>1, <2>2 DEF FinalizeAttempt, CommitFinalization
      <3>2. QED
        BY <1>1, <3>1 DEF BasicInv, StoreTypeOK
    <2>3. QED
      BY <2>1, <2>2
  <1>3. /\ new.plan = IF attempts[a].plan # None THEN attempts[a].plan
                      ELSE Sanitized(client[c].plan)
        /\ new.final = OutcomeOf(c).final
        /\ new.execution = client[c].execution
        /\ new.verification = client[c].verification
    BY DEF Candidate, OutcomeOf
  <1> HIDE DEF new
  <1>4. QED
    BY <1>2, <1>3 DEF PlanFits, Row

LEMMA AnswersFitStep ==
  ASSUME BasicInv, FirstsAreShown, RowsAreOpened, AnswersAreFinal, AnswersFit, [Next]_vars
  PROVE  AnswersFit'
  <1>1. CASE UNCHANGED vars
    BY <1>1 DEF vars, AnswersFit, PlanFits, Row, OutcomeOf
  <1>2. ASSUME NEW c \in Runs, Acts(c)
        PROVE  AnswersFit'
    <2> DEFINE Fits(d) ==
          /\ client[d].pc \in RecordSteps \cup {"acked", "rejected", "raised"}
          /\ client[d].pc # "envelope"
          /\ Row(d).plan = Sanitized(client[d].plan)
          /\ Row(d).final = OutcomeOf(d).final
          /\ Row(d).execution = client[d].execution
          /\ Row(d).verification = client[d].verification
    <2>1. ASSUME NEW d \in Runs, client[d].answer # None
          PROVE  Row(d)' = Row(d) /\ Row(d) # None
      <3>1. Finalized(AttemptOf[d]) /\ AttemptOf[d] \in Attempts
        BY <2>1, CoordinatorAssumptions DEF AnswersAreFinal
      <3>2. QED
        BY <3>1, BasicStep, RowsStay DEF BasicInv, Row, Finalized
    <2>2. ASSUME NEW d \in Runs, d # c
          PROVE  /\ client'[d].pc \in {"put", "finalize"} => PlanFits(d)'
                 /\ client'[d].answer # None => client'[d].pc = "crashed" \/ Fits(d)'
      <3>1. client'[d] = client[d]
        BY <1>2, <2>2, HowItGotThere
      <3>2. client[d].pc \in {"put", "finalize"} => PlanFits(d)'
        BY <1>2, <2>2, <3>1, RowIsLeftAlone DEF AnswersFit, PlanFits
      <3>3. OutcomeOf(d)' = OutcomeOf(d)
        BY <3>1 DEF OutcomeOf
      <3>4. client[d].answer # None => client'[d].pc = "crashed" \/ Fits(d)'
        BY <2>1, <3>1, <3>3 DEF AnswersFit
      <3>5. QED
        BY <3>1, <3>2, <3>4
    <2>0. client \in [Runs -> Clients]
      BY DEF BasicInv, CallsAreOwn
    <2>3. /\ RecordBegin(c) => client'[c].plan = client[c].plan
          /\ RecordLookup(c) => client'[c].plan = client[c].plan /\ Row(c)' = Row(c)
          /\ PutArtifacts(c) => client'[c].plan = client[c].plan /\ Row(c)' = Row(c)
                                /\ client[c].pc = "put"
      <3>1. RecordBegin(c) => client'[c].plan = client[c].plan
        BY <2>0 DEF RecordBegin, Goto, Clients
      <3>2. RecordLookup(c) => client'[c].plan = client[c].plan /\ Row(c)' = Row(c)
        BY <2>0 DEF RecordLookup, Clients, Row, storeVars
      <3>3. PutArtifacts(c) => client'[c].plan = client[c].plan /\ Row(c)' = Row(c)
                                /\ client[c].pc = "put"
        BY <2>0 DEF PutArtifacts, Goto, Clients, Row, storeVars, At
      <3>4. QED
        BY <3>1, <3>2, <3>3
    <2>4. client'[c].pc \in {"put", "finalize"} => PlanFits(c)'
      <3>1. CASE RecordBegin(c)
        <4>1. client[c].plan \in Plans \cup {None}
          BY DEF BasicInv, CallsAreOwn, OwnState, Clients
        <4>2. Row(c)'.plan = Sanitized(client[c].plan)
          BY <3>1, <4>1, BeginOpens, CoordinatorAssumptions DEF RecordBegin, BasicInv, Row
        <4>3. QED
          BY <2>3, <3>1, <4>2 DEF PlanFits
      <3>2. CASE RecordLookup(c) /\ RetryMatches(c)
        BY <2>3, <3>2 DEF PlanFits, RetryMatches
      <3>3. CASE PutArtifacts(c)
        BY <2>3, <3>3 DEF PlanFits, AnswersFit
      <3>4. QED
        BY <1>2, <3>1, <3>2, <3>3, HowItGotThere
    <2>5. ASSUME client[c].answer # None, client'[c].pc # "crashed"
          PROVE  Fits(c)'
      <3>1. client[c].pc \in RecordSteps \cup Ended
        BY <2>5 DEF AnswersFit, Ended
      <3>2. /\ client[c].pc # "crashed"
            /\ client'[c].pc \in RecordSteps \cup {"acked", "rejected", "raised"}
            /\ client'[c].run = client[c].run
            /\ client'[c].plan = client[c].plan
            /\ client'[c].execution = client[c].execution
            /\ client'[c].verification = client[c].verification
        BY <1>2, <2>5, <3>1, ResultIsKept
      <3>3. client'[c].pc # "envelope"
        BY <1>2, <2>1, <2>5, HowItGotThere
      <3>4. OutcomeOf(c)'.final = OutcomeOf(c).final
        BY <3>2 DEF OutcomeOf
      <3>5. Fits(c)
        BY <2>5, <3>2 DEF AnswersFit
      <3>6. QED
        BY <2>1, <2>5, <3>2, <3>3, <3>4, <3>5
    <2>6. ASSUME Finalize(c)
          PROVE  Fits(c)'
      <3>1. PlanFits(c)
        BY <2>6 DEF AnswersFit, Finalize, At
      <3>2. /\ client'[c].pc = "acked"
            /\ client'[c].run = client[c].run
            /\ client'[c].plan = client[c].plan
            /\ client'[c].execution = client[c].execution
            /\ client'[c].verification = client[c].verification
        BY <2>6 DEF Finalize, BasicInv, CallsAreOwn, Clients
      <3>3. OutcomeOf(c)'.final = OutcomeOf(c).final
        BY <3>2 DEF OutcomeOf
      <3>4. QED
        BY <2>6, <3>1, <3>2, <3>3, AnswerIsTheResult
    <2>7. client'[c].answer # None => client'[c].pc = "crashed" \/ Fits(c)'
      BY <1>2, <2>5, <2>6, HowItGotThere
    <2>8. QED
      BY <2>2, <2>4, <2>7 DEF AnswersFit
  <1>3. QED
    BY <1>1, <1>2 DEF Next, Acts

LEMMA RepeatInit == Init => EventsAreOwned /\ AnswersFit
  <1> SUFFICES ASSUME Init PROVE EventsAreOwned /\ AnswersFit
    OBVIOUS
  <1>1. \A c \in Runs : client[c].answer = None /\ client[c].pc \in {"lookup", "route"}
    BY DEF Init, StartOf
  <1>2. \A a \in Attempts : attempts[a] = None /\ journal[a] = <<>>
    BY DEF Init, StoreInit
  <1>3. QED
    BY <1>1, <1>2 DEF EventsAreOwned, AnswersFit, Finalized

\* Merging a result into the final row it was recorded as changes nothing.
LEMMA SameCandidate ==
  ASSUME NEW r \in AttemptRecords, NEW o, NEW now, r.status = "finalized",
         r.plan = Sanitized(o.plan), r.final = o.final, r.execution = o.execution,
         r.verification = o.verification, r.artifacts = o.artifacts
  PROVE  Candidate(r, o, now) = r
  <1>1. (IF r.plan # None THEN r.plan ELSE Sanitized(o.plan)) = r.plan
    OBVIOUS
  <1>2. Candidate(r, o, now) =
          [status |-> r.status, identity |-> r.identity, environment |-> r.environment,
           plan |-> r.plan, final |-> r.final, execution |-> r.execution,
           verification |-> r.verification, artifacts |-> r.artifacts,
           finalizedAt |-> r.finalizedAt]
    BY <1>1 DEF Candidate
  <1>3. QED
    BY <1>2 DEF AttemptRecords

\* The calls that share an attempt identifier were given the same task.
OneTaskPerAttempt ==
  \A c, d \in Runs : AttemptOf[c] = AttemptOf[d] => IdentityOf[c] = IdentityOf[d]

\* The store accepts a result whose record it holds.
LEMMA FinalizeAcceptsAgain ==
  ASSUME OneTaskPerAttempt, BasicInv, EventsAreOwned, RowsAreOpened, AnswersAreFinal,
         AnswersFit, NEW c \in Runs, At(c, "finalize"), client[c].answer # None,
         client[c].artifacts = Row(c).artifacts, ~RedactionChangesPlan(c)
  PROVE  FinalizeAccepts(AttemptOf[c], OutcomeOf(c), client[c].calls)
  <1> DEFINE a == AttemptOf[c]
             r == Candidate(attempts[a], OutcomeOf(c), client[c].calls)
  <1>1. /\ a \in Attempts /\ attempts[a] \in AttemptRecords
        /\ attempts[a] # None /\ attempts[a].status = "finalized"
        /\ receipts[a] # None
    BY CoordinatorAssumptions
       DEF AnswersAreFinal, Finalized, BasicInv, StoreTypeOK, FinalizationIsAtomic
  <1>2. /\ attempts[a].plan = Sanitized(client[c].plan)
        /\ attempts[a].final = OutcomeOf(c).final
        /\ attempts[a].execution = client[c].execution
        /\ attempts[a].verification = client[c].verification
    BY DEF AnswersFit, At, Row
  <1>3. /\ OutcomeOf(c).plan = client[c].plan
        /\ OutcomeOf(c).execution = client[c].execution
        /\ OutcomeOf(c).verification = client[c].verification
        /\ OutcomeOf(c).artifacts = client[c].artifacts
    BY DEF OutcomeOf
  <1>4. r = attempts[a]
    BY <1>1, <1>2, <1>3, SameCandidate DEF Row
  <1>5. PlanUnchanged(a, OutcomeOf(c))
    BY <1>2, <1>3 DEF PlanUnchanged, RedactionChangesPlan
  <1>6. ValidRecord(a, attempts[a])
    BY <1>1 DEF EventsAreOwned, Finalized
  <1>7. TraceIdentityIs(journal[a], attempts[a].identity)
    <2>1. attempts[a].identity = IdentityOf[c]
      BY DEF RowsAreOpened, HasRow, Row
    <2>2. ASSUME NEW i \in DOMAIN journal[a]
          PROVE  journal[a][i].identity = attempts[a].identity
      BY <1>1, <2>1 DEF EventsAreOwned, OneTaskPerAttempt
    <2>3. QED
      BY <2>2 DEF TraceIdentityIs
  <1>8. RetryAccepts(a, attempts[a])
    BY <1>1 DEF RetryAccepts
  <1> HIDE DEF r
  <1>9. QED
    BY <1>1, <1>4, <1>5, <1>6, <1>7, <1>8 DEF FinalizeAccepts, r

LEMMA RepeatedStep ==
  ASSUME OneTaskPerAttempt, BasicInv, EventsAreOwned, RowsAreOpened, AnswersAreFinal,
         AnswersFit, ArtifactsAreStored, RepeatedRecordingIsAccepted, [Next]_vars
  PROVE  RepeatedRecordingIsAccepted'
  <1>1. CASE UNCHANGED vars
    BY <1>1 DEF vars, RepeatedRecordingIsAccepted, At, RedactionChangesPlan
  <1>2. ASSUME NEW c \in Runs, Acts(c), NEW d \in Runs,
               At(d, "rejected")', client'[d].answer # None,
               client'[d].artifacts = client'[d].answer.record.artifacts
        PROVE  RedactionChangesPlan(d)'
    <2>1. CASE d # c
      <3>1. client'[d] = client[d]
        BY <1>2, <2>1, HowItGotThere
      <3>2. QED
        BY <1>2, <3>1 DEF RepeatedRecordingIsAccepted, At, RedactionChangesPlan
    <2>2. CASE d = c
      <3>1. /\ \/ RecordLookup(c) /\ Row(c) # None /\ ~RetryMatches(c)
               \/ RecordBeginRejected(c) \/ PutRejected(c) \/ FinalizeRejected(c)
            /\ client[c].answer = client'[c].answer
        <4>1. client'[c].pc = "rejected"
          BY <1>2, <2>2 DEF At
        <4>2. Finalize(c) => client'[c].pc = "acked"
          BY DEF Finalize, BasicInv, CallsAreOwn, Clients
        <4>3. QED
          BY <1>2, <4>1, <4>2, HowItGotThere
      <3>2. /\ client[c].answer # None
            /\ Row(c) = client[c].answer.record
            /\ Finalized(AttemptOf[c]) /\ HasRow(c)
        BY <1>2, <2>2, <3>1 DEF AnswersAreFinal, RowsAreOpened
      <3>3. CASE RecordLookup(c) /\ ~RetryMatches(c)
        <4>1. Row(c).plan = Sanitized(client[c].plan)
          BY <3>2, <3>3 DEF AnswersFit, RecordLookup, At
        <4>2. QED
          BY <3>2, <3>3, <4>1 DEF RetryMatches, HasRow
      <3>4. CASE RecordBeginRejected(c)
        BY <3>2, <3>4 DEF AnswersFit, RecordBeginRejected, At
      <3>5. ASSUME PutRejected(c) \/ FinalizeRejected(c)
            PROVE  client'[c].artifacts = client[c].artifacts
                   /\ client'[c].plan = client[c].plan
        BY <3>5 DEF PutRejected, FinalizeRejected, Goto, BasicInv, CallsAreOwn, Clients
      <3>6. CASE PutRejected(c)
        <4>1. Row(c).artifacts \subseteq blobs
          BY <3>2, CoordinatorAssumptions DEF ArtifactsAreStored, Row
        <4>2. QED
          BY <1>2, <2>2, <3>1, <3>2, <3>5, <3>6, <4>1 DEF PutRejected
      <3>7. CASE FinalizeRejected(c)
        <4>1. client[c].artifacts = Row(c).artifacts
          BY <1>2, <2>2, <3>1, <3>2, <3>5, <3>7
        <4>2. RedactionChangesPlan(c)
          BY <3>2, <3>7, <4>1, FinalizeAcceptsAgain DEF FinalizeRejected
        <4>3. QED
          BY <2>2, <3>5, <3>7, <4>2 DEF RedactionChangesPlan
      <3>8. QED
        BY <3>1, <3>3, <3>4, <3>6, <3>7
    <2>3. QED
      BY <2>1, <2>2
  <1>3. QED
    BY <1>1, <1>2 DEF Next, Acts, RepeatedRecordingIsAccepted

\* Recording a result again is answered again, whatever else was recorded or
\* failed in between, unless redaction changed its plan.  A call given the same
\* attempt identifier for another task could spoil the journal of the attempt:
\* calls with the same identifier are assumed to have the same task.
THEOREM RepeatedRecordingsAreAccepted ==
  ASSUME OneTaskPerAttempt
  PROVE  Spec => []RepeatedRecordingIsAccepted
  <1>1. Init => RepeatedRecordingIsAccepted
    BY DEF Init, StartOf, RepeatedRecordingIsAccepted
  <1>2. BasicInv /\ FirstsAreShown /\ RowsAreOpened /\ AnswersAreFinal
          /\ EventsAreOwned /\ AnswersFit /\ [Next]_vars
          => FirstsAreShown' /\ RowsAreOpened' /\ AnswersAreFinal'
             /\ EventsAreOwned' /\ AnswersFit'
    BY FirstsStep, RowsOpenedStep, AnswersStep, OwnedStep, AnswersFitStep
  <1>3. RecordsAreSound => ArtifactsAreStored
    BY DEF RecordsAreSound
  <1>4. BasicInv /\ RowsAreOpened /\ AnswersAreFinal /\ EventsAreOwned /\ AnswersFit
          /\ ArtifactsAreStored /\ RepeatedRecordingIsAccepted /\ [Next]_vars
          => RepeatedRecordingIsAccepted'
    BY OneTaskPerAttempt, RepeatedStep
  <1>5. QED
    BY <1>1, <1>2, <1>3, <1>4, FirstsInit, RowsOpenedInit, AnswersInit, RepeatInit,
       Basics, RecordsStaySound, PTL DEF Spec

-----------------------------------------------------------------------------
(* A result can be recorded.                                               *)

\* Every call has an attempt of its own, as it has when the coordinator or the
\* pipeline makes the identifier.
OneCallPerAttempt ==
  \A c, d \in Runs : AttemptOf[c] = AttemptOf[d] => c = d

\* A journal shows the n transitions of a run that is in state s ...
Chain(events, n, s) ==
  /\ \A i \in TransitionsIn(events) :
       /\ \/ OpensLifecycle(events, i)
          \/ \E p \in TransitionsIn(events) : Follows(events, p, i)
       /\ events[i].to \in AllowedTransitions[events[i].from]
       /\ events[i].sequence <= n
  /\ IF n = 0 THEN TransitionsIn(events) = {} /\ s = "received"
     ELSE \E k \in TransitionsIn(events) :
            /\ \A j \in TransitionsIn(events) : j <= k
            /\ events[k].sequence = n /\ events[k].to = s

LastStates == TerminalStates \cup {"verified"}

\* ... of which only the last event may be its end.
Settled(events, s) ==
  \A i \in TransitionsIn(events) :
    events[i].to \in LastStates => i = Len(events) /\ s = events[i].to

\* The report of the run was announced.
Announced(events, c) ==
  \E i \in DOMAIN events :
    events[i].type = "verification.completed" /\ events[i].report = c

\* The transitions of a journal with one more event.
LEMMA TransitionsOfAppend ==
  ASSUME NEW s \in Seq(TraceEvents), NEW e \in TraceEvents
  PROVE  /\ Append(s, e) \in Seq(TraceEvents)
         /\ \A i \in TransitionsIn(s) :
              i \in TransitionsIn(Append(s, e)) /\ Append(s, e)[i] = s[i] /\ i <= Len(s)
         /\ e.type # "orchestrator.transition" =>
              TransitionsIn(Append(s, e)) = TransitionsIn(s)
         /\ e.type = "orchestrator.transition" =>
              TransitionsIn(Append(s, e)) = TransitionsIn(s) \cup {Len(s) + 1}
         /\ Len(Append(s, e)) = Len(s) + 1 /\ Append(s, e)[Len(s) + 1] = e
         /\ Len(s) \in Nat /\ TransitionsIn(s) \subseteq 1 .. Len(s)
  BY Appended DEF TransitionsIn

\* A transition that the state allows, numbered next, goes on with the chain.
LEMMA ChainGrows ==
  ASSUME NEW events \in Seq(TraceEvents), NEW n \in Nat, NEW s, Chain(events, n, s),
         NEW e \in TraceEvents, e.type = "orchestrator.transition",
         e.sequence = n + 1, e.from = s, e.to \in AllowedTransitions[s]
  PROVE  Chain(Append(events, e), n + 1, e.to)
  <1> DEFINE more == Append(events, e)
             k == Len(events) + 1
  <1>1. /\ \A i \in TransitionsIn(events) :
             i \in TransitionsIn(more) /\ more[i] = events[i] /\ i <= Len(events)
        /\ TransitionsIn(more) = TransitionsIn(events) \cup {k}
        /\ more[k] = e /\ Len(events) \in Nat
        /\ TransitionsIn(events) \subseteq 1 .. Len(events)
    BY TransitionsOfAppend
  <1>0. ASSUME NEW i \in TransitionsIn(events) PROVE events[i].sequence \in Nat
    <2>1. events[i] \in TraceEvents
      BY DEF TransitionsIn
    <2>2. QED
      BY <2>1 DEF TraceEvents
  <1> HIDE DEF more, k
  <1>2. k \in Nat /\ \A j \in TransitionsIn(events) : j < k /\ j \in Nat
    BY <1>1 DEF k
  <1>3. ASSUME NEW i \in TransitionsIn(events)
        PROVE  \/ OpensLifecycle(more, i)
               \/ \E p \in TransitionsIn(more) : Follows(more, p, i)
    <2>1. CASE OpensLifecycle(events, i)
      BY <1>1, <1>2, <2>1 DEF OpensLifecycle
    <2>2. ASSUME NEW p \in TransitionsIn(events), Follows(events, p, i)
          PROVE  Follows(more, p, i)
      BY <1>1, <1>2, <2>2 DEF Follows
    <2>3. QED
      BY <1>1, <2>1, <2>2 DEF Chain
  <1>4. \/ OpensLifecycle(more, k)
        \/ \E p \in TransitionsIn(more) : Follows(more, p, k)
    <2>1. CASE n = 0
      <3>1. TransitionsIn(events) = {} /\ s = "received"
        BY <2>1 DEF Chain
      <3>2. QED
        BY <1>1, <1>2, <2>1, <3>1 DEF OpensLifecycle
    <2>2. CASE n # 0
      <3>1. PICK p \in TransitionsIn(events) :
                   /\ \A j \in TransitionsIn(events) : j <= p
                   /\ events[p].sequence = n /\ events[p].to = s
        BY <2>2 DEF Chain
      <3>2. Follows(more, p, k)
        BY <1>1, <1>2, <3>1 DEF Follows
      <3>3. QED
        BY <1>1, <3>1, <3>2
    <2>3. QED
      BY <2>1, <2>2
  <1>5. ASSUME NEW i \in TransitionsIn(more)
        PROVE  /\ \/ OpensLifecycle(more, i)
                  \/ \E p \in TransitionsIn(more) : Follows(more, p, i)
               /\ more[i].to \in AllowedTransitions[more[i].from]
               /\ more[i].sequence <= n + 1
    <2>1. CASE i = k
      BY <1>1, <1>4, <2>1
    <2>2. CASE i \in TransitionsIn(events)
      <3>1. /\ events[i].to \in AllowedTransitions[events[i].from]
            /\ events[i].sequence <= n
        BY <2>2 DEF Chain
      <3>2. QED
        BY <1>0, <1>1, <1>3, <2>2, <3>1
    <2>3. QED
      BY <1>1, <2>1, <2>2
  <1>6. /\ k \in TransitionsIn(more) /\ \A j \in TransitionsIn(more) : j <= k
        /\ more[k].sequence = n + 1 /\ more[k].to = e.to
    BY <1>1, <1>2
  <1>7. n + 1 # 0
    OBVIOUS
  <1>8. QED
    BY <1>5, <1>6, <1>7 DEF Chain, more

\* Another event leaves the chain as it is.
LEMMA ChainStays ==
  ASSUME NEW events \in Seq(TraceEvents), NEW n \in Nat, NEW s, Chain(events, n, s),
         NEW e \in TraceEvents, e.type # "orchestrator.transition"
  PROVE  Chain(Append(events, e), n, s)
  <1> DEFINE more == Append(events, e)
  <1>1. /\ \A i \in TransitionsIn(events) : more[i] = events[i]
        /\ TransitionsIn(more) = TransitionsIn(events)
    BY TransitionsOfAppend
  <1> HIDE DEF more
  <1>2. ASSUME NEW i \in TransitionsIn(events)
        PROVE  /\ OpensLifecycle(events, i) => OpensLifecycle(more, i)
               /\ \A p \in TransitionsIn(events) :
                    Follows(events, p, i) => Follows(more, p, i)
    BY <1>1 DEF OpensLifecycle, Follows
  <1>3. QED
    BY <1>1, <1>2 DEF Chain, more

\* The journal of a lone run that is over is one the store accepts, with the two
\* transitions it appends to that of a completed one.
LEMMA ChainIsAccepted ==
  ASSUME NEW a \in Attempts, journal[a] \in Seq(TraceEvents), NEW r \in AttemptRecords,
         NEW n \in Nat \ {0}, NEW s \in {"verified", "failed"},
         Chain(journal[a], n, s), Settled(journal[a], s),
         Len(journal[a]) \in TransitionsIn(journal[a]),
         r.final = IF s = "verified" THEN "completed" ELSE s,
         TraceIdentityIs(journal[a], r.identity),
         s = "verified" =>
           r.verification # None /\ Announced(journal[a], r.verification.run)
  PROVE  /\ r.final = "completed" => EndsVerified(journal[a])
         /\ ValidLifecycle(JournalAtFinalization(a, r), r)
  <1> DEFINE J == journal[a]
             k == Len(J)
             W == JournalAtFinalization(a, r)
  <1>1. /\ k \in TransitionsIn(J) /\ J[k].sequence = n /\ J[k].to = s
        /\ k \in Nat /\ J \in Seq(TraceEvents)
    <2>1. PICK p \in TransitionsIn(J) :
                 /\ \A j \in TransitionsIn(J) : j <= p
                 /\ J[p].sequence = n /\ J[p].to = s
      BY DEF Chain
    <2>2. p \in 1 .. k /\ k \in Nat
      BY <2>1 DEF TransitionsIn
    <2>3. k <= p
      BY <2>1
    <2>4. p = k
      BY <2>2, <2>3
    <2>5. QED
      BY <2>1, <2>2, <2>4
  <1>2. CASE s = "failed"
    <2>1. W = J /\ r.final = "failed"
      BY <1>2 DEF JournalAtFinalization
    <2>2. ASSUME NEW i \in TransitionsIn(J)
          PROVE  /\ \/ OpensLifecycle(J, i)
                    \/ \E p \in TransitionsIn(J) : Follows(J, p, i)
                 /\ J[i].to \in AllowedTransitions[J[i].from]
                 /\ J[i].to \in TerminalStates => i = Len(J)
      BY DEF Chain, Settled, LastStates
    <2>3. QED
      BY <1>1, <1>2, <2>1, <2>2 DEF ValidLifecycle
  <1>3. CASE s = "verified"
    <2> DEFINE e == TransitionEvent(a, r.identity, Store, n + 1, "verified", "recorded")
               f == TransitionEvent(a, r.identity, Store, n + 2, "recorded", "completed")
               V == Append(J, e)
    <2>0. /\ e \in TraceEvents /\ f \in TraceEvents
          /\ e.type = "orchestrator.transition" /\ e.sequence = n + 1
          /\ e.from = "verified" /\ e.to = "recorded" /\ e.identity = r.identity
          /\ f.type = "orchestrator.transition" /\ f.sequence = n + 2
          /\ f.from = "recorded" /\ f.to = "completed" /\ f.identity = r.identity
      BY DEF TransitionEvent, TraceEvents, EventTypes, TaskStates, AttemptRecords
    <2>1. W = J \o <<e, f>> /\ r.final = "completed"
      BY <1>1, <1>3 DEF JournalAtFinalization, TerminalEvents
    <2> HIDE DEF e, f
    <2>2. J \o <<e, f>> = Append(Append(J, e), f)
      BY <1>1, <2>0
    <2>3. W = Append(V, f)
      BY <2>1, <2>2
    <2>4. "recorded" \in AllowedTransitions["verified"]
          /\ "completed" \in AllowedTransitions["recorded"]
      BY DEF AllowedTransitions, TaskStates
    <2>5. Chain(V, n + 1, "recorded")
      BY <1>1, <1>3, <2>0, <2>4, ChainGrows
    <2>6. V \in Seq(TraceEvents)
      BY <1>1, <2>0, TransitionsOfAppend
    <2> HIDE DEF W, V
    <2>7. Chain(W, n + 2, "completed")
      <3>1. n + 1 \in Nat /\ (n + 1) + 1 = n + 2
        OBVIOUS
      <3>2. QED
        BY <2>0, <2>3, <2>4, <2>5, <2>6, <3>1, ChainGrows
    <2>8. /\ TransitionsIn(V) = TransitionsIn(J) \cup {k + 1}
          /\ Len(V) = k + 1 /\ V[k + 1] = e
          /\ TransitionsIn(W) = TransitionsIn(V) \cup {k + 2}
          /\ Len(W) = k + 2 /\ W[k + 2] = f
          /\ \A i \in TransitionsIn(J) : V[i] = J[i] /\ W[i] = J[i] /\ i <= k
          /\ W[k + 1] = e
      <3>1. /\ TransitionsIn(V) = TransitionsIn(J) \cup {k + 1}
            /\ Len(V) = k + 1 /\ V[k + 1] = e
            /\ \A i \in TransitionsIn(J) : i \in TransitionsIn(V) /\ V[i] = J[i] /\ i <= k
        BY <1>1, <2>0, TransitionsOfAppend DEF V
      <3>2. /\ TransitionsIn(W) = TransitionsIn(V) \cup {Len(V) + 1}
            /\ Len(W) = Len(V) + 1 /\ W[Len(V) + 1] = f
            /\ \A i \in TransitionsIn(V) : W[i] = V[i]
        BY <2>0, <2>3, <2>6, TransitionsOfAppend
      <3>3. Len(V) + 1 = k + 2
        BY <1>1, <3>1
      <3>4. QED
        BY <3>1, <3>2, <3>3
    <2>9. /\ DOMAIN J = 1 .. k /\ DOMAIN W = 1 .. k + 2
          /\ \A i \in DOMAIN J : W[i] = J[i]
      <3>1. /\ DOMAIN V = 1 .. k + 1 /\ \A i \in DOMAIN J : i \in DOMAIN V /\ V[i] = J[i]
        BY <1>1, Appended DEF V
      <3>2. /\ DOMAIN W = 1 .. Len(V) + 1 /\ \A i \in DOMAIN V : W[i] = V[i]
        BY <2>3, <2>6, Appended
      <3>3. QED
        BY <1>1, <2>8, <3>1, <3>2
    <2>10. EndsVerified(J)
      BY <1>1, <1>3 DEF EndsVerified
    <2>11. TraceIdentityIs(W, r.identity)
      <3>1. ASSUME NEW i \in DOMAIN W PROVE W[i].identity = r.identity
        <4>1. i \in DOMAIN J \/ i = k + 1 \/ i = k + 2
          BY <1>1, <2>9
        <4>2. QED
          BY <2>0, <2>8, <2>9, <4>1 DEF TraceIdentityIs
      <3>2. QED
        BY <3>1 DEF TraceIdentityIs
    <2>12. ASSUME NEW i \in TransitionsIn(W), W[i].to \in TerminalStates
           PROVE  i = Len(W)
      <3>1. CASE i \in TransitionsIn(J)
        BY <1>3, <2>8, <2>12, <3>1 DEF Settled, LastStates, TerminalStates
      <3>2. CASE i = k + 1
        BY <2>0, <2>8, <2>12, <3>2 DEF TerminalStates
      <3>3. QED
        BY <2>8, <3>1, <3>2
    <2>13. /\ Len(W) \in TransitionsIn(W) /\ W[Len(W)].to = r.final
      BY <2>0, <2>1, <2>8
    <2>14. ASSUME NEW v \in TransitionsIn(W), W[v].to = "verified"
           PROVE  v = k
      <3>1. v \in TransitionsIn(J)
        BY <2>0, <2>8, <2>14
      <3>2. QED
        BY <2>8, <2>14, <3>1 DEF Settled, LastStates
    <2>15. ASSUME NEW i \in DOMAIN W, W[i].type = "verification.completed"
           PROVE  i < k
      <3>1. i # k + 1 /\ i # k + 2
        BY <2>0, <2>8, <2>15
      <3>2. W[k].type = "orchestrator.transition"
        BY <1>1, <2>9 DEF TransitionsIn
      <3>3. QED
        BY <1>1, <2>9, <2>15, <3>1, <3>2
    <2>16. /\ \E i \in DOMAIN W : /\ W[i].type = "verification.completed"
                                  /\ W[i].report = r.verification.run
           /\ \E v \in TransitionsIn(W) : W[v].to = "verified"
      <3>1. PICK i \in DOMAIN J : /\ J[i].type = "verification.completed"
                                  /\ J[i].report = r.verification.run
        BY <1>3 DEF Announced
      <3>2. i \in DOMAIN W /\ W[i] = J[i]
        BY <1>1, <2>9, <3>1
      <3>3. k \in TransitionsIn(W) /\ W[k].to = "verified"
        BY <1>1, <1>3, <2>8
      <3>4. QED
        BY <3>1, <3>2, <3>3
    <2>17. ASSUME NEW i \in TransitionsIn(W)
           PROVE  /\ \/ OpensLifecycle(W, i)
                     \/ \E p \in TransitionsIn(W) : Follows(W, p, i)
                  /\ W[i].to \in AllowedTransitions[W[i].from]
      BY <2>7 DEF Chain
    <2>18. ValidLifecycle(W, r)
      <3> DEFINE Reported == {i \in DOMAIN W :
                                /\ W[i].type = "verification.completed"
                                /\ W[i].report = r.verification.run}
                 Verif == {i \in TransitionsIn(W) : W[i].to = "verified"}
      <3>1. Reported # {} /\ Verif # {}
        BY <2>16
      <3>2. \A i \in Reported, v \in Verif : i < v
        BY <2>14, <2>15
      <3>3. QED
        BY <2>11, <2>12, <2>13, <2>17, <3>1, <3>2 DEF ValidLifecycle
    <2>19. QED
      BY <2>10, <2>18 DEF W
  <1>4. QED
    BY <1>2, <1>3

\* What a call that has not been answered has left in the tables: its journal
\* tells its run, ...
JournalTells(c) ==
  LET events == journal[AttemptOf[c]] IN
  /\ Chain(events, client[c].run.length, client[c].run.state)
  /\ Settled(events, client[c].run.state)
  /\ IsOver(client[c].run) => Len(events) \in TransitionsIn(events)
  /\ client[c].verification # None => Announced(events, c)

\* ... its row is open, and holds no plan but that of a standalone call, ...
RowFits(c) ==
  /\ ~Finalized(AttemptOf[c])
  /\ client[c].pc \in {"lookup", "begin"} => c \in Coordinated
  /\ client[c].pc = "envelope" => Row(c) = None
  /\ Row(c) # None =>
       /\ HasRow(c)
       /\ IF c \in Coordinated THEN Row(c).plan = None
          ELSE /\ client[c].pc \in RecordSteps \cup {"rejected", "raised"}
               /\ Row(c).plan = Sanitized(client[c].plan)

Unanswered(c) == client[c].pc # "crashed" /\ client[c].answer = None

UnansweredFit ==
  \A c \in Runs : Unanswered(c) => JournalTells(c) /\ RowFits(c)

\* ... and its evidence is linked to its attempt or to none.
EvidenceIsOwn == \A c \in Runs : evidence[c] \in {AttemptOf[c], None}

\* What a call changes is its own attempt.
LEMMA OthersAreLeftAlone ==
  ASSUME BasicInv, NEW c \in Runs, Acts(c), NEW a \in Attempts, a # AttemptOf[c]
  PROVE  attempts'[a] = attempts[a] /\ journal'[a] = journal[a]
  <1>1. ASSUME NEW e \in CallerEvents, AppendTrace(e), EventOf(c, e)
        PROVE  journal'[a] = journal[a]
    BY <1>1, AppendTraceShows DEF EventOf, BasicInv
  <1>2. CASE Finalize(c)
    <2>1. CASE UNCHANGED storeVars
      BY <2>1 DEF storeVars
    <2>2. CASE ~UNCHANGED storeVars
      <3>1. PICK r : CommitFinalization(AttemptOf[c], r, client[c].calls)
        BY <1>2, <2>2, FinalizeUsesStore, FinalizeCases DEF BasicInv
      <3>2. QED
        BY <3>1 DEF CommitFinalization, BasicInv, StoreTypeOK
    <2>3. QED
      BY <2>1, <2>2
  <1>3. ASSUME ~Finalize(c)
        PROVE  journal'[a] = journal[a]
    BY <1>1, <1>3, HowItTraces, TransitsShows, EmitsShows
  <1>4. ASSUME ~Finalize(c)
        PROVE  attempts'[a] = attempts[a]
    <2>1. CASE attempts' = attempts
      BY <2>1
    <2>2. CASE Begin(c) \/ RecordBegin(c)
      BY <2>2 DEF Begin, RecordBegin, BeginAttempt, BasicInv, StoreTypeOK
    <2>3. QED
      BY <1>4, <2>1, <2>2, WhoChangesRows
  <1>5. QED
    BY <1>2, <1>3, <1>4

\* A report is announced by the step that makes it.
LEMMA WhoVerifies ==
  ASSUME BasicInv, NEW c \in Runs, Acts(c)
  PROVE  client'[c].verification \in {client[c].verification, None} \/ Verify(c)
  <1>0. client \in [Runs -> Clients]
    BY DEF BasicInv, CallsAreOwn
  <1>1. ASSUME NEW step, Goto(c, step)
        PROVE  client'[c].verification = client[c].verification
    BY <1>0, <1>1 DEF Goto, Clients
  <1>2. ASSUME NEW step, NEW target, Advance(c, target, step)
        PROVE  client'[c].verification = client[c].verification
    BY <1>0, <1>2 DEF Advance, Clients
  <1>3. CASE PlanReturned(c)
    BY <1>0, <1>3 DEF PlanReturned, Clients
  <1>4. CASE ExecutionRejected(c) \/ ExecutionCompleted(c) \/ ExecutionRolledBack(c)
    BY <1>0, <1>4 DEF ExecutionRejected, ExecutionCompleted, ExecutionRolledBack,
                      ExecutionEnds, Clients
  <1>5. CASE RecordLookup(c)
    BY <1>0, <1>5 DEF RecordLookup, Clients
  <1>6. CASE Finalize(c)
    BY <1>0, <1>6 DEF Finalize, Clients
  <1>7. CASE Crash(c)
    BY <1>0, <1>7 DEF Crash, StartOf
  <1>8. CASE \/ Lookup(c) \/ Begin(c) \/ BeginRefused(c) \/ PlanFailed(c) \/ Denied(c)
             \/ ExecutionRaised(c) \/ VerifyRaised(c) \/ RecordBegin(c)
             \/ RecordBeginRejected(c) \/ PutArtifacts(c) \/ PutRejected(c)
             \/ FinalizeRejected(c) \/ RecordAgain(c) \/ DatabaseFails(c)
    BY <1>1, <1>8
       DEF Lookup, Begin, BeginRefused, PlanFailed, Denied, ExecutionRaised,
           VerifyRaised, RecordBegin, RecordBeginRejected, PutArtifacts, PutRejected,
           FinalizeRejected, RecordAgain, DatabaseFails
  <1>9. CASE Route(c) \/ Authorized(c) \/ Executed(c) \/ Verified(c) \/ Fail(c)
    BY <1>2, <1>9 DEF Route, Authorized, Executed, Verified, Fail
  <1>10. QED
    BY <1>3, <1>4, <1>5, <1>6, <1>7, <1>8, <1>9
       DEF Acts, Step, PipelineStep, RecordStep

LEMMA AnnouncedStays ==
  ASSUME NEW s \in Seq(TraceEvents), NEW t \in Seq(TraceEvents), IsPrefixOf(s, t),
         NEW c, Announced(s, c)
  PROVE  Announced(t, c)
  <1>1. \A i \in DOMAIN s : i \in DOMAIN t /\ t[i] = s[i]
    BY DEF IsPrefixOf
  <1>2. QED
    BY <1>1 DEF Announced

\* A step of a call that is neither answered nor dead afterwards leaves a
\* journal that tells its run.
LEMMA JournalTellsStep ==
  ASSUME BasicInv, NEW c \in Runs, Acts(c), JournalTells(c),
         client'[c].pc # "crashed", ~Finalize(c)
  PROVE  JournalTells(c)'
  <1> DEFINE a == AttemptOf[c]
             J == journal[a]
             run == client[c].run
  <1>0. /\ a \in Attempts /\ J \in Seq(TraceEvents) /\ run \in OrchestratorRuns
        /\ run.length \in Nat
        /\ client[c].pc \in PipelineSteps => ~IsOver(run) /\ run.state \notin LastStates
    <2>1. MayBeAt(c, client[c].pc, run, client[c].plan, client[c].execution,
                  client[c].verification, client[c].calls)
      BY DEF BasicInv, CallsAreOwn, OwnState, InOrder
    <2>2. client[c].pc \in PipelineSteps => \E n \in 0 .. 4 : HasMade(run, n)
      <3>1. NewRun.length = 0 /\ NewRun.state = PipelinePath[1]
        BY DEF NewRun, PipelinePath
      <3>2. HasMade(NewRun, 0)
        BY <3>1 DEF HasMade
      <3>3. QED
        BY <2>1, <3>2 DEF MayBeAt, PipelineSteps
    <2>3. ASSUME NEW n \in 0 .. 4, HasMade(run, n)
          PROVE  ~IsOver(run) /\ run.state \notin LastStates
      BY <2>3 DEF HasMade, IsOver, LastStates, TerminalStates, PipelinePath
    <2>4. run \in OrchestratorRuns
      BY DEF BasicInv, CallsAreOwn, Clients
    <2>5. a \in Attempts /\ J \in Seq(TraceEvents)
      BY CoordinatorAssumptions DEF BasicInv, StoreTypeOK
    <2>6. QED
      BY <2>2, <2>3, <2>4, <2>5 DEF OrchestratorRuns
  <1>1. /\ Chain(J, run.length, run.state)
        /\ Settled(J, run.state)
        /\ IsOver(run) => Len(J) \in TransitionsIn(J)
        /\ client[c].verification # None => Announced(J, c)
    BY DEF JournalTells
  <1>2. /\ journal'[a] \in Seq(TraceEvents) /\ IsPrefixOf(J, journal'[a])
    BY <1>0, BasicStep, JournalGrows DEF BasicInv, Next, Acts
  <1>3. client'[c].verification # None => Announced(journal'[a], c)
    <2>1. CASE Verify(c)
      <3> DEFINE e == StepEvent(a, IdentityOf[c], c, "verification.completed", c)
      <3>1. e \in CallerEvents /\ AppendTrace(e)
        BY <2>1, StepEventIsAllowed DEF Verify, Emit, EventTypes
      <3>2. e.attempt = a /\ e.type = "verification.completed" /\ e.report = c
        BY DEF StepEvent
      <3> HIDE DEF e
      <3>3. \E i \in DOMAIN journal'[a] : journal'[a][i] = e
        BY <3>1, <3>2, AppendTraceShows DEF BasicInv
      <3>4. QED
        BY <3>2, <3>3 DEF Announced
    <2>2. CASE ~Verify(c)
      BY <1>0, <1>1, <1>2, <2>2, WhoVerifies, AnnouncedStays
    <2>3. QED
      BY <2>1, <2>2
  <1> HIDE DEF J
  <1>4. CASE Transits(c) /\ client[c].pc \in PipelineSteps
    <2>1. PICK e \in CallerEvents :
                 /\ AppendTrace(e) /\ EventOf(c, e)
                 /\ e.type = "orchestrator.transition"
                 /\ e.sequence = run.length + 1
                 /\ e.from = run.state
                 /\ e.to = client'[c].run.state
                 /\ e.to \in AllowedTransitions[e.from]
                 /\ client'[c].run.length = e.sequence
      BY <1>4, TransitsShows
    <2>2. /\ e \in TraceEvents /\ e.attempt = a
          /\ journal'[a] = J \/ journal'[a] = Append(J, e)
          /\ \E i \in DOMAIN journal'[a] : journal'[a][i] = e
      BY <1>0, <2>1, AppendTraceShows DEF BasicInv, EventOf, J
    <2>3. ASSUME journal'[a] = J PROVE FALSE
      <3>1. PICK i \in DOMAIN J : J[i] = e
        BY <2>2, <2>3
      <3>2. i \in TransitionsIn(J)
        BY <2>1, <3>1 DEF TransitionsIn
      <3>3. J[i].sequence <= run.length
        BY <1>1, <3>2 DEF Chain
      <3>4. QED
        BY <1>0, <2>1, <3>1, <3>3
    <2>4. journal'[a] = Append(J, e)
      BY <2>2, <2>3
    <2>5. Chain(Append(J, e), run.length + 1, e.to)
      BY <1>0, <1>1, <2>1, <2>2, ChainGrows
    <2>6. /\ TransitionsIn(Append(J, e)) = TransitionsIn(J) \cup {Len(J) + 1}
          /\ Len(Append(J, e)) = Len(J) + 1 /\ Append(J, e)[Len(J) + 1] = e
          /\ \A i \in TransitionsIn(J) : Append(J, e)[i] = J[i]
      BY <1>0, <2>1, <2>2, TransitionsOfAppend
    <2>7. Settled(Append(J, e), e.to)
      BY <1>0, <1>1, <1>4, <2>6 DEF Settled
    <2>8. Len(Append(J, e)) \in TransitionsIn(Append(J, e))
      BY <2>6
    <2>9. QED
      BY <1>3, <2>1, <2>4, <2>5, <2>7, <2>8 DEF JournalTells
  <1>5. CASE Emits(c) /\ client[c].pc \in PipelineSteps
    <2>1. PICK e \in CallerEvents :
                 /\ AppendTrace(e) /\ EventOf(c, e)
                 /\ e.type # "orchestrator.transition"
      BY <1>5, EmitsShows
    <2>2. /\ e \in TraceEvents /\ e.attempt = a
          /\ journal'[a] = J \/ journal'[a] = Append(J, e)
      BY <1>0, <2>1, AppendTraceShows DEF BasicInv, EventOf, J
    <2>3. client'[c].run = run
      BY <1>5 DEF Emits
    <2>4. CASE journal'[a] = J
      BY <1>1, <1>3, <2>3, <2>4 DEF JournalTells
    <2>5. CASE journal'[a] = Append(J, e)
      <3>1. Chain(Append(J, e), run.length, run.state)
        BY <1>0, <1>1, <2>1, <2>2, ChainStays
      <3>2. /\ TransitionsIn(Append(J, e)) = TransitionsIn(J)
            /\ \A i \in TransitionsIn(J) : Append(J, e)[i] = J[i]
        BY <1>0, <2>1, <2>2, TransitionsOfAppend
      <3>3. Settled(Append(J, e), run.state)
        BY <1>0, <1>1, <1>5, <3>2 DEF Settled
      <3>4. QED
        BY <1>0, <1>3, <1>5, <2>3, <2>5, <3>1, <3>3 DEF JournalTells
    <2>6. QED
      BY <2>2, <2>4, <2>5
  <1>6. CASE UNCHANGED journal /\ client'[c].run = run
    BY <1>1, <1>3, <1>6 DEF JournalTells, J
  <1>7. QED
    BY <1>4, <1>5, <1>6, HowItTraces

\* A dead call does nothing.
LEMMA DeadIsDead ==
  ASSUME BasicInv, NEW c \in Runs, Acts(c)
  PROVE  client[c].pc # "crashed"
  BY ResultIsKept DEF Ended

LEMMA RowFitsStep ==
  ASSUME BasicInv, RowsAreOpened, NEW c \in Runs, Acts(c), RowFits(c),
         client'[c].pc # "crashed", ~Finalize(c)
  PROVE  RowFits(c)'
  <1> DEFINE a == AttemptOf[c]
  <1>0. a \in Attempts /\ client \in [Runs -> Clients]
    BY CoordinatorAssumptions DEF BasicInv, CallsAreOwn
  <1>1. ~Finalized(a)'
    BY <1>0, WhoFinalizes DEF RowFits
  <1>2. client'[c].pc \in {"lookup", "begin"} => c \in Coordinated
    <2>1. client'[c].pc # "lookup" /\ (client'[c].pc = "begin" => Lookup(c))
      BY HowItGotThere
    <2>2. QED
      BY <2>1 DEF Lookup, At, RowFits
  <1>3. CASE Begin(c)
    <2>1. c \in Coordinated /\ client'[c].pc = "route"
      BY <1>0, <1>3 DEF Begin, At, RowFits, Goto, Clients
    <2>2. None \in Plans \cup {None} /\ Sanitized(None) = None
      BY DEF Sanitized
    <2>3. HasRow(c)' /\ Row(c)'.plan = None
      BY <1>3, <2>2, BeginOpens, CoordinatorAssumptions DEF Begin, BasicInv, Row, HasRow
    <2>4. QED
      BY <1>1, <1>2, <2>1, <2>3 DEF RowFits
  <1>4. CASE RecordBegin(c)
    <2>1. /\ client[c].pc = "envelope" /\ client'[c].pc = "put"
          /\ client'[c].plan = client[c].plan
      BY <1>0, <1>4 DEF RecordBegin, At, Goto, Clients
    <2>2. c \notin Coordinated
      BY <2>1 DEF RowsAreOpened, RowFits, HasRow, RecordSteps
    <2>3. client[c].plan \in Plans \cup {None}
      BY <1>0 DEF Clients
    <2>4. HasRow(c)' /\ Row(c)'.plan = Sanitized(client[c].plan)
      BY <1>4, <2>3, BeginOpens, CoordinatorAssumptions DEF RecordBegin, BasicInv, Row, HasRow
    <2>5. QED
      BY <1>1, <1>2, <2>1, <2>2, <2>4 DEF RowFits, RecordSteps
  <1>5. CASE attempts' = attempts
    <2>1. Row(c)' = Row(c) /\ (HasRow(c) => HasRow(c)')
      BY <1>5 DEF Row, HasRow
    <2>2. client'[c].pc = "envelope" => Row(c)' = None
      BY <2>1, HowItGotThere
    <2>3. ASSUME Row(c)' # None, c \notin Coordinated
          PROVE  /\ client'[c].pc \in RecordSteps \cup {"rejected", "raised"}
                 /\ Row(c)'.plan = Sanitized(client'[c].plan)
      <3>1. /\ client[c].pc \in RecordSteps \cup {"rejected", "raised"}
            /\ Row(c).plan = Sanitized(client[c].plan)
        BY <2>1, <2>3 DEF RowFits
      <3>2. /\ client'[c].pc \in RecordSteps \cup {"acked", "rejected", "raised"}
            /\ client'[c].plan = client[c].plan
        BY <3>1, ResultIsKept DEF Ended
      <3>3. client'[c].pc # "acked"
        BY HowItGotThere
      <3>4. QED
        BY <2>1, <3>1, <3>2, <3>3
    <2>4. QED
      BY <1>1, <1>2, <2>1, <2>2, <2>3 DEF RowFits
  <1>6. QED
    BY <1>3, <1>4, <1>5, WhoChangesRows

LEMMA UnansweredStep ==
  ASSUME OneCallPerAttempt, BasicInv, RowsAreOpened, UnansweredFit, [Next]_vars
  PROVE  UnansweredFit'
  <1>1. CASE UNCHANGED vars
    BY <1>1 DEF vars, UnansweredFit, Unanswered, JournalTells, RowFits, HasRow, Row,
                Finalized
  <1>2. ASSUME NEW c \in Runs, Acts(c), NEW d \in Runs, Unanswered(d)'
        PROVE  JournalTells(d)' /\ RowFits(d)'
    <2>1. CASE d # c
      <3>1. client'[d] = client[d]
        BY <1>2, <2>1, HowItGotThere
      <3>2. AttemptOf[d] \in Attempts /\ AttemptOf[d] # AttemptOf[c]
        BY <2>1, CoordinatorAssumptions DEF OneCallPerAttempt
      <3>3. /\ attempts'[AttemptOf[d]] = attempts[AttemptOf[d]]
            /\ journal'[AttemptOf[d]] = journal[AttemptOf[d]]
        BY <1>2, <3>2, OthersAreLeftAlone
      <3>4. JournalTells(d) /\ RowFits(d)
        BY <1>2, <3>1 DEF UnansweredFit, Unanswered
      <3>5. JournalTells(d)'
        BY <3>1, <3>3, <3>4 DEF JournalTells
      <3>6. Row(d)' = Row(d) /\ (HasRow(d) => HasRow(d)')
            /\ (Finalized(AttemptOf[d])' => Finalized(AttemptOf[d]))
        BY <3>3 DEF Row, HasRow, Finalized
      <3>7. RowFits(d)'
        BY <3>1, <3>4, <3>6 DEF RowFits
      <3>8. QED
        BY <3>5, <3>7
    <2>2. CASE d = c
      <3>1. client[c].pc # "crashed" /\ client'[c].pc # "crashed"
        BY <1>2, <2>2, DeadIsDead DEF Unanswered
      <3>2. ~Finalize(c)
        <4>1. ASSUME Finalize(c) PROVE client'[c].answer # None
          <5>1. attempts'[AttemptOf[c]] \in AttemptRecords
                /\ receipts'[AttemptOf[c]] \in Receipts
            BY <1>2, <4>1, BasicStep, FinalizeUsesStore, AnswerIsARecord
               DEF BasicInv, Next, Acts
          <5> DEFINE answer == [record |-> attempts'[AttemptOf[c]],
                                receipt |-> receipts'[AttemptOf[c]]]
          <5>2. client'[c].answer = answer
            BY <4>1 DEF Finalize, BasicInv, CallsAreOwn, Clients
          <5>3. client'[c] \in Clients /\ answer \in Answers
            BY <1>2, <5>1, BasicStep DEF BasicInv, CallsAreOwn, Answers, Next, Acts
          <5> HIDE DEF answer
          <5>4. answer # None
            BY <5>3, AnswerAssumption
          <5>5. QED
            BY <5>2, <5>4
        <4>2. QED
          BY <1>2, <2>2, <4>1 DEF Unanswered
      <3>3. client[c].answer = None
        BY <1>2, <2>2, <3>2, HowItGotThere DEF Unanswered
      <3>4. JournalTells(c) /\ RowFits(c)
        BY <3>1, <3>3 DEF UnansweredFit, Unanswered
      <3>5. QED
        BY <1>2, <2>2, <3>1, <3>2, <3>4, JournalTellsStep, RowFitsStep
    <2>3. QED
      BY <2>1, <2>2
  <1>3. QED
    BY <1>1, <1>2 DEF Next, Acts, UnansweredFit

LEMMA EvidenceStep ==
  ASSUME BasicInv, EvidenceIsOwn, [Next]_vars
  PROVE  EvidenceIsOwn'
  <1>1. CASE evidence' = evidence
    BY <1>1 DEF EvidenceIsOwn
  <1>2. ASSUME NEW c \in Runs, Finalize(c), ~UNCHANGED storeVars
        PROVE  EvidenceIsOwn'
    <2> DEFINE a == AttemptOf[c]
               new == Candidate(attempts[a], OutcomeOf(c), client[c].calls)
    <2>1. CommitFinalization(a, new, client[c].calls)
      BY <1>2, FinalizeUsesStore, FinalizeCases DEF BasicInv
    <2>2. new.verification = client[c].verification
      BY DEF Candidate, OutcomeOf
    <2>3. client[c].verification \in VerificationsOf(c) \cup {None}
      BY DEF BasicInv, CallsAreOwn, OwnState
    <2> HIDE DEF new
    <2>4. EvidenceOf(new) \subseteq {c}
      BY <2>2, <2>3 DEF EvidenceOf, VerificationsOf, VerificationOf
    <2>5. evidence' = [id \in DOMAIN evidence |->
                         IF id \in EvidenceOf(new) THEN a ELSE evidence[id]]
      BY <2>1 DEF CommitFinalization
    <2>6. DOMAIN evidence = Runs
      BY DEF BasicInv, StoreTypeOK
    <2>7. ASSUME NEW d \in Runs PROVE evidence'[d] \in {AttemptOf[d], None}
      BY <2>4, <2>5, <2>6 DEF EvidenceIsOwn
    <2>8. QED
      BY <2>7 DEF EvidenceIsOwn
  <1>3. ASSUME NEW c \in Runs, Acts(c), ~Finalize(c)
        PROVE  evidence' = evidence
    <2>1. \A e : AppendTrace(e) => evidence' = evidence
      BY DEF AppendTrace
    <2>2. \A a, i, env, plan : BeginAttempt(a, i, env, plan) => evidence' = evidence
      BY DEF BeginAttempt
    <2>3. Begin(c) \/ RecordBegin(c) => evidence' = evidence
      BY <2>2 DEF Begin, RecordBegin
    <2>4. \/ UNCHANGED storeVars
          \/ \E e : AppendTrace(e)
          \/ Begin(c) \/ RecordBegin(c)
      BY <1>3
         DEF Acts, Step, PipelineStep, RecordStep, Lookup, BeginRefused, Route,
             PlanReturned, PlanFailed, Authorized, Denied, ExecutionRejected,
             ExecutionCompleted, ExecutionRolledBack, ExecutionEnds, ExecutionRaised,
             Executed, Verify, VerifyRaised, Verified, Fail, Advance, Transition,
             Emit, RecordLookup, RecordBeginRejected, PutArtifacts, PutRejected,
             FinalizeRejected, RecordAgain, DatabaseFails, Crash
    <2>5. QED
      BY <2>1, <2>3, <2>4 DEF storeVars
  <1>4. CASE UNCHANGED storeVars
    BY <1>1, <1>4 DEF storeVars
  <1>5. QED
    BY <1>1, <1>2, <1>3, <1>4 DEF Next, Acts, vars

\* Why the first recording of a result may be refused.
Excused(c) ==
  \/ ~(client[c].artifacts \subseteq blobs)
  \/ client[c].plan # None /\ client[c].plan.task # IdentityOf[c]
  \/ c \notin Coordinated /\ RedactionChangesPlan(c)

\* The journal of a call's attempt carries its identity only.
LEMMA JournalIsOwn ==
  ASSUME OneCallPerAttempt, EventsAreOwned, NEW c \in Runs, AttemptOf[c] \in Attempts,
         Row(c) = None \/ HasRow(c)
  PROVE  TraceIdentityIs(journal[AttemptOf[c]], IdentityOf[c])
  BY DEF EventsAreOwned, OneCallPerAttempt, TraceIdentityIs, Row, HasRow

\* The record of a finished run is valid: its plan, its reports and its state fit.
LEMMA RecordIsValid ==
  ASSUME BasicInv, NEW c \in Runs, At(c, "finalize"), RowFits(c), HasRow(c),
         ~Excused(c)
  PROVE  /\ ValidRecord(AttemptOf[c],
                        Candidate(Row(c), OutcomeOf(c), client[c].calls))
         /\ PlanUnchanged(AttemptOf[c], OutcomeOf(c))
  <1> DEFINE a == AttemptOf[c]
             x == client[c]
             r == Candidate(Row(c), OutcomeOf(c), x.calls)
  <1>1. /\ IsOver(x.run) /\ x.calls \in 0 .. MaxRecordCalls /\ x.calls >= 1
        /\ x.plan \in PlansOf(c) \cup {None}
        /\ x.execution \in ExecutionsOf(c) \cup {None}
        /\ x.verification \in VerificationsOf(c) \cup {None}
        /\ ReportsFit(c, x.run, x.plan, x.execution, x.verification)
        /\ x.run.state \in TaskStates
    BY DEF BasicInv, CallsAreOwn, OwnState, InOrder, MayBeAt, At, RecordSteps,
           Clients, OrchestratorRuns
  <1>2. x.calls \in Clock /\ x.calls # None
    BY <1>1, CoordinatorAssumptions, StoreAssumptions
  <1>3. Row(c).plan = None \/ Row(c).plan = x.plan
    BY DEF RowFits, HasRow, Excused, RedactionChangesPlan
  <1>4. Sanitized(x.plan) = None <=> x.plan = None
    BY <1>1, StoreAssumptions, DocumentsType, SanitizedType DEF Sanitized, PlansOf, PlanOf, Plans
  <1>5. x.plan # None => /\ Sanitized(x.plan).run = c
                         /\ Sanitized(x.plan).task = IdentityOf[c]
                         /\ x.plan.run = c /\ x.plan.task = IdentityOf[c]
    BY <1>1 DEF Excused, Sanitized, PlansOf, PlanOf
  <1>6. /\ r.status = "finalized" /\ r.identity = IdentityOf[c]
        /\ r.plan = IF Row(c).plan # None THEN Row(c).plan ELSE Sanitized(x.plan)
        /\ r.final = OutcomeOf(c).final
        /\ r.execution = x.execution /\ r.verification = x.verification
        /\ r.finalizedAt # None
    <2>1. a \in Attempts /\ Row(c) \in AttemptRecords /\ Row(c).status # "finalized"
      BY CoordinatorAssumptions DEF BasicInv, StoreTypeOK, Row, HasRow, RowFits, Finalized
    <2>2. QED
      BY <1>2, <2>1 DEF Candidate, OutcomeOf, HasRow
  <1>7. OutcomeOf(c).final = IF x.run.state = "verified" THEN "completed" ELSE "failed"
    BY <1>1 DEF OutcomeOf, IsOver, HasMade, PipelinePath
  <1> HIDE DEF r
  <1>8. /\ r.plan # None => r.plan.task = r.identity /\ r.plan.run = c
        /\ x.plan # None => r.plan # None
    BY <1>3, <1>4, <1>5, <1>6
  <1>9. r.execution # None =>
          /\ r.execution.task = r.identity
          /\ r.plan # None /\ r.execution.plan = r.plan.run
    BY <1>1, <1>6, <1>8 DEF ReportsFit, ExecutionsOf, ExecutionOf
  <1>10. r.verification # None =>
           /\ r.verification.task = r.identity /\ r.verification.attempt = a
           /\ r.execution # None /\ r.execution.success
    <2>1. ExecutionOf(c, TRUE) # None
      BY DocumentsType, StoreAssumptions DEF ExecutionsOf
    <2>2. ExecutionOf(c, TRUE).success
      BY DEF ExecutionOf
    <2>3. x.verification # None => x.execution = ExecutionOf(c, TRUE)
      BY <1>1 DEF ReportsFit
    <2>4. x.verification # None =>
            x.verification.task = IdentityOf[c] /\ x.verification.attempt = a
      BY <1>1 DEF VerificationsOf, VerificationOf
    <2>5. QED
      BY <1>6, <2>1, <2>2, <2>3, <2>4
  <1>11. r.final \in TerminalStates
    BY <1>6, <1>7 DEF TerminalStates
  <1>12. r.final = "completed" =>
           r.verification # None /\ r.verification.verdict = "passed"
    BY <1>1, <1>6, <1>7 DEF ReportsFit
  <1>13. ValidRecord(a, r)
    BY <1>6, <1>8, <1>9, <1>10, <1>11, <1>12 DEF ValidRecord
  <1>14. PlanUnchanged(a, OutcomeOf(c))
    BY <1>3 DEF PlanUnchanged, OutcomeOf, Row
  <1>15. QED
    BY <1>13, <1>14 DEF r

\* The store accepts the first recording of a result that is not excused.
LEMMA FinalizeAcceptsFirst ==
  ASSUME OneCallPerAttempt, BasicInv, EventsAreOwned, RowsAreOpened, UnansweredFit,
         EvidenceIsOwn, NEW c \in Runs, At(c, "finalize"), client[c].answer = None,
         ~Excused(c)
  PROVE  FinalizeAccepts(AttemptOf[c], OutcomeOf(c), client[c].calls)
  <1> DEFINE a == AttemptOf[c]
             x == client[c]
             r == Candidate(attempts[a], OutcomeOf(c), x.calls)
  <1>1. /\ a \in Attempts /\ JournalTells(c) /\ RowFits(c) /\ HasRow(c)
        /\ journal[a] \in Seq(TraceEvents)
    BY CoordinatorAssumptions
       DEF UnansweredFit, Unanswered, At, RowsAreOpened, BasicInv, StoreTypeOK
  <1>2. ValidRecord(a, r) /\ PlanUnchanged(a, OutcomeOf(c))
    BY <1>1, RecordIsValid DEF Row
  <1>3. /\ IsOver(x.run) /\ x.calls \in Clock /\ OutcomeOf(c) \in Outcomes
        /\ ReportsFit(c, x.run, x.plan, x.execution, x.verification)
        /\ x.verification \in VerificationsOf(c) \cup {None}
        /\ x.run.length \in Nat
    <2>1. /\ OwnState(c, x) /\ IsOver(x.run) /\ x.calls >= 1
          /\ x.calls \in 0 .. MaxRecordCalls /\ x.run.length \in Nat
      BY DEF BasicInv, CallsAreOwn, OwnState, InOrder, MayBeAt, At, RecordSteps,
             Clients, OrchestratorRuns
    <2>2. x.calls \in Clock
      BY <2>1, CoordinatorAssumptions
    <2>3. OutcomeOf(c) \in Outcomes
      BY <2>1, OutcomeIsAllowed, StoreAssumptions
    <2>4. QED
      BY <2>1, <2>2, <2>3 DEF OwnState, InOrder
  <1>4. /\ attempts[a] # None /\ attempts[a] \in AttemptRecords
        /\ attempts[a].status # "finalized" /\ attempts[a].identity = IdentityOf[c]
    BY <1>1 DEF HasRow, Row, RowFits, Finalized, BasicInv, StoreTypeOK
  <1>5. /\ r \in AttemptRecords /\ r.identity = IdentityOf[c]
        /\ r.final = OutcomeOf(c).final
        /\ r.verification = x.verification
    BY <1>3, <1>4, CandidateType DEF Candidate, OutcomeOf
  <1>6. TraceIdentityIs(journal[a], r.identity)
    BY <1>1, <1>5, JournalIsOwn
  <1>7. /\ x.run.length # 0 /\ x.run.state \in {"verified", "failed"}
        /\ OutcomeOf(c).final = IF x.run.state = "verified" THEN "completed"
                                ELSE x.run.state
    BY <1>3 DEF IsOver, HasMade, PipelinePath, OutcomeOf
  <1> HIDE DEF r
  <1>8. x.run.state = "verified" =>
          r.verification # None /\ Announced(journal[a], r.verification.run)
    <2>1. ASSUME x.run.state = "verified"
          PROVE  x.verification # None /\ x.verification.run = c
      BY <1>3, <2>1 DEF ReportsFit, VerificationsOf, VerificationOf
    <2>2. QED
      BY <1>1, <1>5, <2>1 DEF JournalTells
  <1>9. /\ Chain(journal[a], x.run.length, x.run.state)
        /\ Settled(journal[a], x.run.state)
        /\ Len(journal[a]) \in TransitionsIn(journal[a])
    BY <1>1, <1>3 DEF JournalTells
  <1>10. /\ r.final = "completed" => EndsVerified(journal[a])
         /\ ValidLifecycle(JournalAtFinalization(a, r), r)
    <2>1. x.run.length \in Nat \ {0}
      BY <1>3, <1>7
    <2>2. r.final = IF x.run.state = "verified" THEN "completed" ELSE x.run.state
      BY <1>5, <1>7
    <2>3. QED
      BY <1>1, <1>5, <1>6, <1>7, <1>8, <1>9, <2>1, <2>2, ChainIsAccepted
  <1>11. EvidenceFits(a, r)
    <2>1. EvidenceOf(r) \subseteq {c}
      BY <1>3, <1>5 DEF EvidenceOf, VerificationsOf, VerificationOf
    <2>2. QED
      BY <2>1 DEF EvidenceFits, EvidenceIsOwn
  <1>12. FirstFinalizationAccepts(a, r)
    BY <1>10, <1>11 DEF FirstFinalizationAccepts
  <1>13. QED
    BY <1>2, <1>4, <1>6, <1>12 DEF FinalizeAccepts, r

LEMMA RecordableStep ==
  ASSUME OneCallPerAttempt, BasicInv, EventsAreOwned, RowsAreOpened, UnansweredFit,
         EvidenceIsOwn, ResultIsRecordable, [Next]_vars
  PROVE  ResultIsRecordable'
  <1>1. CASE UNCHANGED vars
    BY <1>1 DEF vars, ResultIsRecordable, At, RedactionChangesPlan
  <1>2. ASSUME NEW c \in Runs, Acts(c), NEW d \in Runs,
               At(d, "rejected")', client'[d].answer = None
        PROVE  Excused(d)'
    <2>1. CASE d # c
      <3>1. client'[d] = client[d] /\ Excused(d)
        BY <1>2, <2>1, HowItGotThere DEF ResultIsRecordable, At, Excused
      <3>2. client[d].artifacts \subseteq {d} /\ client[c].artifacts \subseteq {c}
        BY DEF BasicInv, CallsAreOwn, OwnState
      <3>3. blobs' = blobs \/ blobs' = blobs \cup client[c].artifacts
        BY <1>2, BlobsGrow DEF PutArtifacts
      <3>4. client'[d].artifacts \subseteq blobs' => client[d].artifacts \subseteq blobs
        BY <2>1, <3>1, <3>2, <3>3
      <3>5. QED
        BY <3>1, <3>4 DEF Excused, RedactionChangesPlan
    <2>2. CASE d = c
      <3>0. client \in [Runs -> Clients] /\ AttemptOf[c] \in Attempts
        BY CoordinatorAssumptions DEF BasicInv, CallsAreOwn
      <3>1. /\ \/ RecordLookup(c) /\ Row(c) # None /\ ~RetryMatches(c)
               \/ RecordBeginRejected(c) \/ PutRejected(c) \/ FinalizeRejected(c)
            /\ client[c].answer = None
        <4>1. Finalize(c) => client'[c].pc = "acked"
          BY <3>0 DEF Finalize, Clients
        <4>2. QED
          BY <1>2, <2>2, <4>1, HowItGotThere DEF At
      <3>2. JournalTells(c) /\ RowFits(c)
        BY <3>1, <1>2, DeadIsDead DEF UnansweredFit, Unanswered
      <3>3. Row(c) = None \/ HasRow(c)
        BY <3>2 DEF RowFits
      <3>4. ASSUME RecordLookup(c), Row(c) # None, ~RetryMatches(c)
            PROVE  FALSE
        BY <3>2, <3>4 DEF RowFits, HasRow, RetryMatches
      <3>5. ASSUME RecordBeginRejected(c) \/ PutRejected(c) \/ FinalizeRejected(c)
            PROVE  Excused(c) => Excused(c)'
        <4>1. /\ client'[c].artifacts = client[c].artifacts
              /\ client'[c].plan = client[c].plan /\ blobs' = blobs
          BY <3>0, <3>5 DEF RecordBeginRejected, PutRejected, FinalizeRejected, Goto,
                            Clients
        <4>2. QED
          BY <4>1 DEF Excused, RedactionChangesPlan
      <3>6. CASE RecordBeginRejected(c)
        <4>1. /\ Row(c) = None
              /\ ~BeginAccepts(AttemptOf[c], IdentityOf[c], EnvironmentOf[c],
                               client[c].plan)
          BY <3>2, <3>6 DEF RecordBeginRejected, At, RowFits
        <4>2. TraceIdentityIs(journal[AttemptOf[c]], IdentityOf[c])
          BY <3>0, <3>3, JournalIsOwn
        <4>3. ~ValidRecord(AttemptOf[c], OpenRecord(IdentityOf[c], EnvironmentOf[c],
                                                    client[c].plan))
          BY <4>1, <4>2 DEF BeginAccepts, Row
        <4>4. None # "completed"
          BY StoreAssumptions DEF TaskStates
        <4>5. client[c].plan # None /\ client[c].plan.task # IdentityOf[c]
          BY <4>3, <4>4 DEF ValidRecord, OpenRecord
        <4>6. QED
          BY <2>2, <3>5, <3>6, <4>5 DEF Excused
      <3>7. CASE PutRejected(c)
        BY <2>2, <3>5, <3>7 DEF PutRejected, Excused
      <3>8. CASE FinalizeRejected(c)
        BY <2>2, <3>1, <3>5, <3>8, FinalizeAcceptsFirst DEF FinalizeRejected
      <3>9. QED
        BY <3>1, <3>4, <3>6, <3>7, <3>8
    <2>3. QED
      BY <2>1, <2>2
  <1>3. QED
    BY <1>1, <1>2 DEF Next, Acts, ResultIsRecordable, Excused

LEMMA RecordableInit == Init => UnansweredFit /\ EvidenceIsOwn /\ ResultIsRecordable
  <1> SUFFICES ASSUME Init PROVE UnansweredFit /\ EvidenceIsOwn /\ ResultIsRecordable
    OBVIOUS
  <1>1. \A c \in Runs :
          /\ client[c].pc = IF c \in Coordinated THEN "lookup" ELSE "route"
          /\ client[c].run = NewRun /\ client[c].verification = None
    BY DEF Init, StartOf
  <1>2. ASSUME NEW c \in Runs PROVE JournalTells(c) /\ RowFits(c)
    <2>1. AttemptOf[c] \in Attempts
      BY CoordinatorAssumptions
    <2>2. attempts[AttemptOf[c]] = None /\ journal[AttemptOf[c]] = <<>>
      BY <2>1 DEF Init, StoreInit
    <2>3. NewRun.length = 0 /\ NewRun.state = "received" /\ ~IsOver(NewRun)
      BY DEF NewRun, IsOver, HasMade
    <2>4. TransitionsIn(<<>>) = {}
      BY DEF TransitionsIn
    <2>5. Chain(<<>>, 0, "received") /\ Settled(<<>>, "received")
      BY <2>4 DEF Chain, Settled
    <2>6. JournalTells(c)
      BY <1>1, <2>2, <2>3, <2>5 DEF JournalTells
    <2>7. RowFits(c)
      BY <1>1, <2>2 DEF RowFits, Row, Finalized
    <2>8. QED
      BY <2>6, <2>7
  <1>3. UnansweredFit
    BY <1>2 DEF UnansweredFit
  <1>4. EvidenceIsOwn
    BY DEF Init, StoreInit, EvidenceIsOwn
  <1>5. ResultIsRecordable
    BY <1>1 DEF ResultIsRecordable, At
  <1>6. QED
    BY <1>3, <1>4, <1>5

\* The store accepts the journal of any result a pipeline returns: its first
\* recording is refused only for a payload, for a plan of another task, or for a
\* plan that redaction changes when record() opened the attempt with it.  Calls
\* that share an identifier may spoil each other's journal: each is assumed to
\* have its own.
THEOREM ResultsAreRecordable ==
  ASSUME OneCallPerAttempt
  PROVE  Spec => []ResultIsRecordable
  <1>1. BasicInv /\ EventsAreOwned /\ RowsAreOpened /\ UnansweredFit /\ EvidenceIsOwn
          /\ ResultIsRecordable /\ [Next]_vars
          => EventsAreOwned' /\ RowsAreOpened' /\ UnansweredFit' /\ EvidenceIsOwn'
             /\ ResultIsRecordable'
    BY OneCallPerAttempt, OwnedStep, RowsOpenedStep, UnansweredStep, EvidenceStep,
       RecordableStep
  <1>2. QED
    BY <1>1, RecordableInit, RowsOpenedInit, RepeatInit, Basics, PTL DEF Spec
=============================================================================
