---------------------------- MODULE AttemptStore ----------------------------
(***************************************************************************)
(* The attempt tables of SQLiteMemoryStore (src/llmin/memory/sqlite.py):   *)
(* attempts, trace_events, evidence and recording_receipts, and the        *)
(* operations on them.  begin_attempt, append_trace and finalize_attempt   *)
(* run in one BEGIN IMMEDIATE transaction each that commits whole or rolls *)
(* back whole (_connect), so each is one action; a rejected call raises    *)
(* MemoryStoreError, rolls back, and is a stuttering step here.            *)
(* append_evidence looks before it inserts, without a transaction around   *)
(* both: here it is its INSERT, which changes nothing when the identifier  *)
(* is taken; EpisodeStore.tla takes the two steps apart.                   *)
(*                                                                         *)
(* The callers are arbitrary: StoreNext lets anybody append any event of   *)
(* CallerEvents and finalize any attempt with any outcome of               *)
(* CallerOutcomes, so what is shown of StoreSpec holds of whatever drives  *)
(* the store.  AttemptCoordinator.tla drives it the way the code does.     *)
(***************************************************************************)
EXTENDS TaskLifecycle, Sequences, FiniteSets

CONSTANTS
  Attempts,        \* attempt identifiers
  Runs,            \* pipeline runs: each makes one plan and one report at most
  Identities,      \* (trace_id, TaskSpec) pairs
  Environments,    \* environment fingerprints, each standing for its content
  Store,           \* the emitter of the events the store itself appends
  None,            \* Python's None, and a row that does not exist
  CallerEvents,    \* the trace events callers may append
  CallerOutcomes,  \* the results callers may finalize an attempt with
  Clock            \* the timestamps datetime.now() may return

VARIABLES
  attempts,        \* attempt -> its row in attempts, or None
  journal,         \* attempt -> its rows in trace_events, ordered by sequence
  evidence,        \* evidence id -> the attempt it is linked to, or None
  receipts         \* attempt -> its row in recording_receipts, or None

storeVars == <<attempts, journal, evidence, receipts>>

-----------------------------------------------------------------------------
(* The documents.  Contents are abstracted to what the code compares.      *)

\* A plan is known by the run that made it (plan_id).  "secret" is a plan with
\* text that redact() rewrites, "redacted" is what redact() makes of it.
Plans == [run : Runs, task : Identities, text : {"plain", "secret", "redacted"}]

ExecutionReports == [plan : Runs, task : Identities, success : BOOLEAN]

VerificationReports ==
  [run : Runs, task : Identities, attempt : Attempts,
   verdict : {"passed", "failed", "inconclusive"}, evidence : SUBSET Runs]

Outcomes ==
  [plan : Plans \cup {None}, final : TaskStates,
   execution : ExecutionReports \cup {None},
   verification : VerificationReports \cup {None},
   artifacts : SUBSET Runs]

AttemptRecords ==
  [status : {"open", "finalized"}, identity : Identities,
   environment : Environments, plan : Plans \cup {None},
   final : TaskStates \cup {None},
   execution : ExecutionReports \cup {None},
   verification : VerificationReports \cup {None},
   artifacts : SUBSET Runs, finalizedAt : Clock \cup {None}]

\* The receipt's document_hash is SHA-256 of the canonical document: the
\* document itself stands for it.  transaction is storage_transaction_id.
Receipts == [identity : Identities, document : AttemptRecords, transaction : Clock]

\* A trace event is known by its whole content (event_id is unique to one
\* emission, and no run emits the same content twice).  "execution.rolled_back"
\* stands for execution.rollback_completed and execution.rollback_failed.
EventTypes == {"orchestrator.transition", "verification.completed",
               "planning.failed", "authorization.failed",
               "execution.preflight_rejected", "execution.rolled_back",
               "execution.completed"}

TraceEvents ==
  [attempt : Attempts, identity : Identities, run : Runs \cup {Store},
   type : EventTypes, sequence : Nat,
   from : TaskStates \cup {None}, to : TaskStates \cup {None},
   report : Runs \cup {None}]

TransitionEvent(a, identity, run, sequence, from, to) ==
  [attempt |-> a, identity |-> identity, run |-> run,
   type |-> "orchestrator.transition", sequence |-> sequence,
   from |-> from, to |-> to, report |-> None]

StepEvent(a, identity, run, type, report) ==
  [attempt |-> a, identity |-> identity, run |-> run, type |-> type,
   sequence |-> 0, from |-> None, to |-> None, report |-> report]

ASSUME StoreAssumptions ==
  /\ None \notin AttemptRecords \cup Receipts \cup Plans \cup ExecutionReports
                 \cup VerificationReports \cup TaskStates \cup Attempts
                 \cup Runs \cup Clock \cup (Identities \X Environments)
  /\ Store \notin Runs
  /\ CallerEvents \subseteq {e \in TraceEvents : e.run # Store}
  /\ CallerOutcomes \subseteq Outcomes

-----------------------------------------------------------------------------
(* Helpers the operations share.                                           *)

\* redact() applied to a plan.
Sanitized(plan) ==
  IF plan # None /\ plan.text = "secret"
  THEN [plan EXCEPT !.text = "redacted"]
  ELSE plan

\* AttemptRecord.validate_identity_and_state, the pydantic validator that every
\* construction of a record runs.
ValidRecord(a, r) ==
  /\ r.plan # None => r.plan.task = r.identity
  /\ r.execution # None =>
       /\ r.execution.task = r.identity
       /\ r.plan # None /\ r.execution.plan = r.plan.run
  /\ r.verification # None =>
       /\ r.verification.task = r.identity
       /\ r.verification.attempt = a
       /\ r.execution # None /\ r.execution.success
  /\ r.status = "open" =>
       /\ r.final = None /\ r.execution = None /\ r.verification = None
       /\ r.finalizedAt = None /\ r.artifacts = {}
  /\ r.status = "finalized" => r.final \in TerminalStates /\ r.finalizedAt # None
  /\ r.final = "completed" =>
       /\ r.execution # None /\ r.execution.success
       /\ r.verification # None /\ r.verification.verdict = "passed"

OpenRecord(identity, environment, plan) ==
  [status |-> "open", identity |-> identity, environment |-> environment,
   plan |-> plan, final |-> None, execution |-> None, verification |-> None,
   artifacts |-> {}, finalizedAt |-> None]

\* The journal of an attempt speaks of one trace and one task
\* (_validate_existing_trace_identity).
TraceIdentityIs(events, identity) ==
  \A i \in DOMAIN events : events[i].identity = identity

TransitionsIn(events) ==
  {i \in DOMAIN events : events[i].type = "orchestrator.transition"}

\* The transition at i is the first of the journal ...
OpensLifecycle(events, i) ==
  /\ \A j \in TransitionsIn(events) : i <= j
  /\ events[i].sequence = 1
  /\ events[i].from = "received"

\* ... or the next one after the transition at p.
Follows(events, p, i) ==
  /\ p < i
  /\ \A j \in TransitionsIn(events) : j <= p \/ i <= j
  /\ events[i].sequence = events[p].sequence + 1
  /\ events[i].from = events[p].to

\* Faulty variant: a journal is accepted whatever its verification events.
BugUnverifiedLifecycle(events, r) ==
  /\ TraceIdentityIs(events, r.identity)
  /\ \A i \in TransitionsIn(events) :
       /\ \/ OpensLifecycle(events, i)
          \/ \E p \in TransitionsIn(events) : Follows(events, p, i)
       /\ events[i].to \in AllowedTransitions[events[i].from]
       /\ events[i].to \in TerminalStates => i = Len(events)
  /\ Len(events) \in TransitionsIn(events)
  /\ events[Len(events)].to = r.final

\* Faulty variant: transitions are not numbered and chained.
BugUnorderedLifecycle(events, r) ==
  /\ TraceIdentityIs(events, r.identity)
  /\ Len(events) \in TransitionsIn(events)
  /\ events[Len(events)].to = r.final

\* _validate_lifecycle_trace: the transitions are numbered 1, 2, ... and chain
\* from "received" through allowed steps; nothing follows a terminal state; the
\* journal ends in the state the attempt claims; and a completed attempt's
\* verification.completed event precedes its "verified" transition.
ValidLifecycle(events, r) ==
  /\ TraceIdentityIs(events, r.identity)
  /\ \A i \in TransitionsIn(events) :
       /\ \/ OpensLifecycle(events, i)
          \/ \E p \in TransitionsIn(events) : Follows(events, p, i)
       /\ events[i].to \in AllowedTransitions[events[i].from]
       /\ events[i].to \in TerminalStates => i = Len(events)
  /\ Len(events) \in TransitionsIn(events)
  /\ events[Len(events)].to = r.final
  /\ r.final = "completed" =>
       LET Reported == {i \in DOMAIN events :
                          /\ events[i].type = "verification.completed"
                          /\ events[i].report = r.verification.run}
           Verified == {i \in TransitionsIn(events) : events[i].to = "verified"}
       IN  Reported # {} /\ Verified # {}
           /\ \A i \in Reported, v \in Verified : i < v

\* _append_terminal_completion_events appends the last two transitions itself,
\* to a journal whose last event is the transition to "verified".
EndsVerified(events) ==
  /\ Len(events) \in TransitionsIn(events)
  /\ events[Len(events)].to = "verified"

TerminalEvents(a, events, r) ==
  LET next == events[Len(events)].sequence + 1 IN
  <<TransitionEvent(a, r.identity, Store, next, "verified", "recorded"),
    TransitionEvent(a, r.identity, Store, next + 1, "recorded", "completed")>>

JournalAtFinalization(a, r) ==
  IF r.final = "completed"
  THEN journal[a] \o TerminalEvents(a, journal[a], r)
  ELSE journal[a]

\* The evidence rows of the report are new or already linked to this attempt
\* (_insert_evidence).
EvidenceOf(r) == IF r.verification = None THEN {} ELSE r.verification.evidence

EvidenceFits(a, r) == \A id \in EvidenceOf(r) : evidence[id] \in {a, None}

-----------------------------------------------------------------------------
(* The operations: for each, when the store accepts it and what it does.   *)

\* begin_attempt on an existing row accepts only the same envelope ...
SameEnvelope(a, identity, environment, plan) ==
  /\ attempts[a].identity = identity
  /\ attempts[a].environment = environment
  /\ attempts[a].plan = Sanitized(plan)

BeginAccepts(a, identity, environment, plan) ==
  IF attempts[a] # None
  THEN SameEnvelope(a, identity, environment, plan)
  ELSE /\ ValidRecord(a, OpenRecord(identity, environment, plan))
       /\ TraceIdentityIs(journal[a], identity)

\* Faulty variant: INSERT OR REPLACE instead of returning the existing row.
BugBeginReplaces(a, identity, environment, plan) ==
  /\ attempts' = [attempts EXCEPT
                    ![a] = OpenRecord(identity, environment, Sanitized(plan))]
  /\ UNCHANGED <<journal, evidence, receipts>>

\* ... which it returns unchanged; otherwise it inserts an open row.
BeginAttempt(a, identity, environment, plan) ==
  /\ BeginAccepts(a, identity, environment, plan)
  /\ attempts' = IF attempts[a] # None THEN attempts
                 ELSE [attempts EXCEPT
                         ![a] = OpenRecord(identity, environment, Sanitized(plan))]
  /\ UNCHANGED <<journal, evidence, receipts>>

\* append_trace looks at no row of attempts; an event that is already there is
\* not appended again (_insert_trace).
AppendTrace(e) ==
  /\ journal' = IF \E i \in DOMAIN journal[e.attempt] : journal[e.attempt][i] = e
                THEN journal
                ELSE [journal EXCEPT ![e.attempt] = Append(@, e)]
  /\ UNCHANGED <<attempts, evidence, receipts>>

\* Faulty variant: the identifier is stored in the attempt_id column.
BugEvidenceColumns(id, a) ==
  /\ evidence' = IF evidence[id] # None THEN evidence
                 ELSE [evidence EXCEPT ![id] = id]
  /\ UNCHANGED <<attempts, journal, receipts>>

\* append_evidence: an identifier that exists is left alone, whichever attempt
\* it belongs to (_insert_immutable).
AppendEvidence(id, a) ==
  /\ evidence' = IF evidence[id] # None THEN evidence
                 ELSE [evidence EXCEPT ![id] = a]
  /\ UNCHANGED <<attempts, journal, receipts>>

\* Faulty variant: the plan is stored as given.
BugPlanNotRedacted(current, outcome, now) ==
  [status |-> "finalized", identity |-> current.identity,
   environment |-> current.environment,
   plan |-> IF current.plan # None THEN current.plan ELSE outcome.plan,
   final |-> outcome.final, execution |-> outcome.execution,
   verification |-> outcome.verification, artifacts |-> outcome.artifacts,
   finalizedAt |-> IF current.status = "finalized" THEN current.finalizedAt ELSE now]

\* Faulty variant: a retry stamps the record anew.
BugRetryRestamps(current, outcome, now) ==
  [status |-> "finalized", identity |-> current.identity,
   environment |-> current.environment,
   plan |-> IF current.plan # None THEN current.plan ELSE Sanitized(outcome.plan),
   final |-> outcome.final, execution |-> outcome.execution,
   verification |-> outcome.verification, artifacts |-> outcome.artifacts,
   finalizedAt |-> now]

\* The record finalize_attempt_with_receipt would store: the row with the
\* outcome merged into it, redacted; a finalized row keeps its timestamp.
Candidate(current, outcome, now) ==
  [status |-> "finalized", identity |-> current.identity,
   environment |-> current.environment,
   plan |-> IF current.plan # None THEN current.plan ELSE Sanitized(outcome.plan),
   final |-> outcome.final, execution |-> outcome.execution,
   verification |-> outcome.verification, artifacts |-> outcome.artifacts,
   finalizedAt |-> IF current.status = "finalized" THEN current.finalizedAt ELSE now]

\* A row that is already finalized is returned with its receipt if the retry
\* would store the same document.
RetryAccepts(a, r) == r = attempts[a] /\ receipts[a] # None

FirstFinalizationAccepts(a, r) ==
  /\ r.final = "completed" => EndsVerified(journal[a])
  /\ ValidLifecycle(JournalAtFinalization(a, r), r)
  /\ EvidenceFits(a, r)

\* The stored plan is the redacted one; it is compared with the plan as given.
PlanUnchanged(a, outcome) ==
  attempts[a].plan # None /\ outcome.plan # None => attempts[a].plan = outcome.plan

FinalizeAccepts(a, outcome, now) ==
  /\ attempts[a] # None
  /\ PlanUnchanged(a, outcome)
  /\ LET r == Candidate(attempts[a], outcome, now) IN
       /\ ValidRecord(a, r)
       /\ TraceIdentityIs(journal[a], r.identity)
       /\ IF attempts[a].status = "finalized" THEN RetryAccepts(a, r)
          ELSE FirstFinalizationAccepts(a, r)

\* Faulty variant: the receipt is one of the row before the update.
BugReceiptOfOldRow(a, r, now) ==
  /\ journal' = [journal EXCEPT ![a] = JournalAtFinalization(a, r)]
  /\ evidence' = [id \in DOMAIN evidence |->
                    IF id \in EvidenceOf(r) THEN a ELSE evidence[id]]
  /\ attempts' = [attempts EXCEPT ![a] = r]
  /\ receipts' = [receipts EXCEPT ![a] = [identity |-> r.identity,
                                          document |-> attempts[a],
                                          transaction |-> now]]

\* The terminal transitions, the evidence, the row and the receipt commit in
\* one transaction.
CommitFinalization(a, r, now) ==
  /\ journal' = [journal EXCEPT ![a] = JournalAtFinalization(a, r)]
  /\ evidence' = [id \in DOMAIN evidence |->
                    IF id \in EvidenceOf(r) THEN a ELSE evidence[id]]
  /\ attempts' = [attempts EXCEPT ![a] = r]
  /\ receipts' = [receipts EXCEPT ![a] = [identity |-> r.identity,
                                          document |-> r, transaction |-> now]]

\* Faulty variant: a retry commits a second time.
BugRetryCommits(a, outcome, now) ==
  /\ FinalizeAccepts(a, outcome, now)
  /\ CommitFinalization(a, Candidate(attempts[a], outcome, now), now)

FinalizeAttempt(a, outcome, now) ==
  /\ FinalizeAccepts(a, outcome, now)
  /\ IF attempts[a].status = "finalized" THEN UNCHANGED storeVars
     ELSE CommitFinalization(a, Candidate(attempts[a], outcome, now), now)

-----------------------------------------------------------------------------
(* The store under arbitrary callers.                                      *)

StoreInit ==
  /\ attempts = [a \in Attempts |-> None]
  /\ journal = [a \in Attempts |-> <<>>]
  /\ evidence = [id \in Runs |-> None]
  /\ receipts = [a \in Attempts |-> None]

StoreNext ==
  \/ \E a \in Attempts, i \in Identities, env \in Environments,
        plan \in {o.plan : o \in CallerOutcomes} \cup {None} :
       BeginAttempt(a, i, env, plan)
  \/ \E e \in CallerEvents : AppendTrace(e)
  \/ \E id \in Runs, a \in Attempts : AppendEvidence(id, a)
  \/ \E a \in Attempts, o \in CallerOutcomes, now \in Clock :
       FinalizeAttempt(a, o, now)

StoreSpec == StoreInit /\ [][StoreNext]_storeVars

-----------------------------------------------------------------------------
(* What the store promises, whoever calls it.                              *)

\* Every row, event, evidence link and receipt is a well-formed document.
StoreTypeOK ==
  /\ attempts \in [Attempts -> AttemptRecords \cup {None}]
  /\ journal \in [Attempts -> Seq(TraceEvents)]
  /\ evidence \in [Runs -> Attempts \cup {None}]
  /\ receipts \in [Attempts -> Receipts \cup {None}]

Finalized(a) == attempts[a] # None /\ attempts[a].status = "finalized"

\* A finalization commits whole: a finalized row has its receipt, the receipt is
\* a hash of exactly that row, its verification evidence is linked to it, and no
\* attempt without a finalized, completed row has a "recorded" or "completed"
\* transition of the store in its journal (finalize_attempt_with_receipt).
FinalizationIsAtomic ==
  \A a \in Attempts :
    /\ Finalized(a) <=> receipts[a] # None
    /\ Finalized(a) =>
         /\ receipts[a].document = attempts[a]
         /\ receipts[a].identity = attempts[a].identity
         /\ \A id \in EvidenceOf(attempts[a]) : evidence[id] = a
    /\ (\E i \in DOMAIN journal[a] : journal[a][i].run = Store) =>
         Finalized(a) /\ attempts[a].final = "completed"

\* The positions p < q < r < s of a journal at which the report of the attempt
\* was announced and the attempt became verified, recorded and completed.
CompletionIsProved(events, r) ==
  \E p, q, u, v \in DOMAIN events :
    /\ p < q /\ q < u /\ u < v
    /\ events[p].type = "verification.completed"
    /\ events[p].report = r.verification.run
    /\ events[q].type = "orchestrator.transition" /\ events[q].to = "verified"
    /\ events[u].run = Store /\ events[u].to = "recorded"
    /\ events[v].run = Store /\ events[v].to = "completed"

\* An attempt recorded as completed executed successfully and passed independent
\* verification of this attempt, and its journal shows verification, verified,
\* recorded, completed in that order.
CompletedIsVerified ==
  \A a \in Attempts :
    Finalized(a) /\ attempts[a].final = "completed" =>
      /\ attempts[a].execution # None /\ attempts[a].execution.success
      /\ attempts[a].verification # None
      /\ attempts[a].verification.verdict = "passed"
      /\ attempts[a].verification.attempt = a
      /\ CompletionIsProved(journal[a], attempts[a])

\* No stored plan has unredacted text, in an open row or in a final one.
StoredPlansAreRedacted ==
  \A a \in Attempts :
    attempts[a] # None /\ attempts[a].plan # None =>
      attempts[a].plan.text # "secret"

IsPrefixOf(s, t) == Len(s) <= Len(t) /\ \A i \in DOMAIN s : t[i] = s[i]

\* A journal only grows at its end, an evidence link never moves to another
\* attempt, and neither a finalized row nor a receipt ever changes.
HistoryIsKept ==
  [][/\ \A a \in Attempts :
          /\ IsPrefixOf(journal[a], journal'[a])
          /\ Finalized(a) => attempts'[a] = attempts[a]
          /\ receipts[a] # None => receipts'[a] = receipts[a]
     /\ \A id \in Runs : evidence[id] # None => evidence'[id] = evidence[id]
    ]_storeVars

\* Seen from outside, an attempt is opened once and answered once: the tables
\* implement AttemptPromise (PromiseKept).
Promise ==
  INSTANCE AttemptPromise WITH
    Envelopes <- Identities \X Environments,
    Acceptable <- {r \in AttemptRecords :
                     r.final = "completed" =>
                       /\ r.execution # None /\ r.execution.success
                       /\ r.verification # None
                       /\ r.verification.verdict = "passed"},
    envelope <- [a \in Attempts |->
                   IF attempts[a] = None THEN None
                   ELSE <<attempts[a].identity, attempts[a].environment>>],
    outcome <- [a \in Attempts |-> IF Finalized(a) THEN attempts[a] ELSE None]

\* Every behaviour of the store is one of the abstract specification.
PromiseKept == Promise!Spec
=============================================================================
