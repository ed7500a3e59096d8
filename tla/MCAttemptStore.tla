--------------------------- MODULE MCAttemptStore ---------------------------
(***************************************************************************)
(* AttemptStore, and readers of it, under callers that append the events   *)
(* of one run in any order, mixed with a foreign event, and finalize with  *)
(* good and bad outcomes.  A behaviour has one of three workloads, so that *)
(* one run explores the union of three instances and not their product.    *)
(***************************************************************************)
EXTENDS AttemptReader

VARIABLE workload

CONSTANTS a1, a2, r1, i1, i2, env

Moves == <<<<"received", "routed">>, <<"routed", "planned">>,
           <<"planned", "authorized">>, <<"authorized", "executed">>,
           <<"executed", "verified">>>>

\* The journal of one successful run of a1, and its failure after "routed".
CompletingEvents ==
  {TransitionEvent(a1, i1, r1, n, Moves[n][1], Moves[n][2]) : n \in 1 .. 5}
    \cup {TransitionEvent(a1, i1, r1, 2, "routed", "failed"),
          StepEvent(a1, i1, r1, "verification.completed", r1)}

\* A failing run of a1 and events that carry another trace.
FailingEvents ==
  {TransitionEvent(a1, i1, r1, 1, "received", "routed"),
   TransitionEvent(a1, i1, r1, 2, "routed", "failed"),
   TransitionEvent(a2, i2, r1, 1, "received", "failed"),
   StepEvent(a1, i2, r1, "planning.failed", None)}

Plan(text) == [run |-> r1, task |-> i1, text |-> text]
Executed(success) == [plan |-> r1, task |-> i1, success |-> success]
Verdict(v) == [run |-> r1, task |-> i1, attempt |-> a1, verdict |-> v,
               evidence |-> {r1}]
Outcome(plan, final, execution, verification) ==
  [plan |-> plan, final |-> final, execution |-> execution,
   verification |-> verification, artifacts |-> {}]

\* A sound outcome, and three a caller may get wrong.
CompletingOutcomes ==
  {Outcome(Plan("plain"), "completed", Executed(TRUE), Verdict("passed")),
   Outcome(Plan("plain"), "completed", Executed(TRUE), Verdict("failed")),
   Outcome(Plan("plain"), "completed", Executed(FALSE), None),
   Outcome(None, "failed", None, None)}

\* Failures, with a plan that redaction rewrites, with evidence, and without a
\* plan.
FailingOutcomes ==
  {Outcome(Plan("secret"), "failed", Executed(FALSE), None),
   Outcome(Plan("plain"), "failed", Executed(TRUE), Verdict("failed")),
   Outcome(None, "failed", None, None)}

-----------------------------------------------------------------------------
\* The events of a1 in any order with four outcomes; two attempts, two traces,
\* and evidence and plans shared between them; a reader of an attempt that
\* completes, or stays open, meanwhile.
Workloads ==
  {[attempts |-> {a1}, identities |-> {i1}, events |-> CompletingEvents,
    outcomes |-> CompletingOutcomes, clock |-> {1, 2}, reads |-> FALSE],
   [attempts |-> {a1, a2}, identities |-> {i1, i2}, events |-> FailingEvents,
    outcomes |-> FailingOutcomes, clock |-> {1, 2}, reads |-> FALSE],
   [attempts |-> {a1}, identities |-> {i1},
    events |-> {e \in CompletingEvents : e.to # "failed"},
    outcomes |-> {o \in CompletingOutcomes :
                    o.verification # None /\ o.verification.verdict = "passed"},
    clock |-> {1}, reads |-> TRUE]}

SomeEvents == CompletingEvents \cup FailingEvents
SomeOutcomes == CompletingOutcomes \cup FailingOutcomes

\* StoreNext and the steps of readers, with the inputs of one workload.
WorkNext(w) ==
  \/ /\ \/ \E a \in w.attempts, i \in w.identities,
              plan \in {o.plan : o \in w.outcomes} \cup {None} :
             BeginAttempt(a, i, env, plan)
        \/ \E e \in w.events : AppendTrace(e)
        \/ \E id \in Runs, a \in w.attempts : AppendEvidence(id, a)
        \/ \E a \in w.attempts, o \in w.outcomes, now \in w.clock :
             FinalizeAttempt(a, o, now)
     /\ UNCHANGED views
  \/ /\ w.reads
     /\ \E r \in Readers :
          (\E a \in w.attempts : Show(r, a)) \/ Read(r) \/ NotFound(r)

WorkloadInit == ReaderInit /\ workload \in Workloads

WorkloadSpec ==
  WorkloadInit /\ [][WorkNext(workload) /\ UNCHANGED workload]_<<readerVars, workload>>
=============================================================================
