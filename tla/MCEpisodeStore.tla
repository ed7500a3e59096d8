---------------------------- MODULE MCEpisodeStore ----------------------------
(***************************************************************************)
(* EpisodeStore with one or two attempts, at most two episodes and the     *)
(* requests that can go wrong: episodes that cite each other, foreign      *)
(* events and evidence, a report that is not there yet, two closings of    *)
(* one contradiction.  A behaviour has one of three workloads, so that one *)
(* run explores the union of three instances and not their product.        *)
(***************************************************************************)
EXTENDS EpisodeStore

VARIABLE workload

CONSTANTS a1, a2, r1, i1, i2, t1, t2, env1, env2, e1, e2, c1, c2, c3

TwoTasks == [i \in {i1, i2} |-> IF i = i1 THEN t1 ELSE t2]

\* What the attempt leaves: an event that ends it, of its own trace or of
\* another, and a failure whose report cites the evidence.
Ends(i) == TransitionEvent(a1, i, r1, 1, "received", "failed")
FailingOrForeign == {Ends(i1), Ends(i2)}

FailedReport == [run |-> r1, task |-> i1, attempt |-> a1, verdict |-> "failed",
                 evidence |-> {r1}]
FailedOutcome == [plan |-> [run |-> r1, task |-> i1, text |-> "plain"],
                  final |-> "failed",
                  execution |-> [plan |-> r1, task |-> i1, success |-> TRUE],
                  verification |-> FailedReport, artifacts |-> {}]
Failures == {FailedOutcome}

Document(events, reports, parents, environments) ==
  [task |-> t1, attempt |-> a1, events |-> events, evidence |-> {r1},
   reports |-> reports, parents |-> parents, environments |-> environments,
   keepUntil |-> 2, hashed |-> TRUE, state |-> "active", summary |-> TRUE]
Plain(parents) == Document({Ends(i1)}, {}, parents, {env1})

Create(e, d) == [table |-> "episodes", id |-> e, document |-> d]
Observe(a) == [table |-> "evidence", id |-> r1, document |-> a]

\* Episodes of an attempt, or of an event of another task, with and without
\* its report and its environment, that may cite each other.
ProvenanceRequests ==
  {Observe(a1), Observe(a2), Create(e1, Plain({})), Create(e1, Plain({e2})),
   Create(e2, Document({Ends(i1)}, {r1}, {e1}, {env1})),
   Create(e2, Document({Ends(i1), Ends(i2)}, {}, {}, {env1, env2}))}

\* Episodes, and what relates and contradicts them.
Relate == [table |-> "artifact_relations", id |-> c1,
           document |-> [artifacts |-> {e1, e2}, source |-> e1]]
Contradict(id, status, supersedes) ==
  [table |-> "contradictions", id |-> id,
   document |-> [artifacts |-> {e1, e2}, status |-> status,
                 supersedes |-> supersedes]]
Spend(a, units) == [table |-> "cost_entries", id |-> c1,
                    document |-> [attempt |-> a, units |-> units]]
RetentionRequests ==
  {Observe(a1), Create(e1, Plain({})), Create(e1, [Plain({}) EXCEPT !.hashed = FALSE]),
   Create(e1, [Plain({}) EXCEPT !.state = "cold"]), Spend(a1, 1), Spend(a1, 2)}
RecordRequests ==
  {Observe(a1), Create(e1, Plain({})), Create(e2, Plain({e1})), Relate,
   Contradict(c1, "open", None), Contradict(c2, "explained", c1),
   Contradict(c3, "invalidated", c1), Contradict(c3, "explained", c2)}

AllRequests == ProvenanceRequests \cup RetentionRequests \cup RecordRequests

-----------------------------------------------------------------------------
\* Episodes of an attempt that begins and ends meanwhile; one episode and its
\* retention states; two episodes, what relates them and what contradicts them.
Workloads ==
  {[requests |-> ProvenanceRequests, attempts |-> {a1}, events |-> FailingOrForeign,
    moves |-> 1, times |-> {1, 2}],
   [requests |-> RetentionRequests, attempts |-> {}, events |-> {Ends(i1)},
    moves |-> 3, times |-> {1, 2}],
   [requests |-> RecordRequests, attempts |-> {}, events |-> {Ends(i1)},
    moves |-> 1, times |-> {2}]}

\* EpisodeNext with the inputs of one workload.
WorkNext(w) ==
  \/ /\ \/ \E a \in w.attempts, i \in Identities, env \in Environments :
             BeginAttempt(a, i, env, None)
        \/ \E e \in w.events : AppendTrace(e)
        \/ \E a \in w.attempts, o \in CallerOutcomes, now \in Clock :
             FinalizeAttempt(a, o, now)
     /\ UNCHANGED <<episodeVars, calls>>
  \/ \E c \in Authors, q \in w.requests : Look(c, q)
  \/ \E c \in Authors : Insert(c)
  \/ \E e \in EpisodeIds, target \in MemoryStates, at \in w.times :
       Len(transitions[e]) < w.moves /\ TransitionEpisode(e, target, at)

WorkloadInit == EpisodeInit /\ workload \in Workloads

WorkloadSpec ==
  WorkloadInit /\ [][WorkNext(workload) /\ UNCHANGED workload]_<<allVars, workload>>
=============================================================================
