------------------------ MODULE MCAttemptCoordinator ------------------------
(***************************************************************************)
(* AttemptCoordinator with two runs.  CallerEvents and CallerOutcomes are  *)
(* exactly what these runs emit and record, so that StoreSpec, checked as  *)
(* a property, says that they use the store as its specification allows.   *)
(***************************************************************************)
EXTENDS AttemptCoordinator, TLC

CONSTANTS a1, a2, r1, r2, i1, i2, env

\* The two runs share one attempt, or have one each.
SharedAttempt == [c \in Runs |-> a1]
OwnAttempt == [c \in Runs |-> IF c = r1 THEN a1 ELSE a2]

OneIdentity == [c \in Runs |-> i1]
OwnIdentity == [c \in Runs |-> IF c = r1 THEN i1 ELSE i2]

OneEnvironment == [c \in Runs |-> env]

\* The runs are interchangeable when they share all their arguments.
RunsAreAlike == Permutations(Runs)

PlainPlan == [task |-> i1, text |-> "plain"]
SecretPlan == [task |-> i1, text |-> "secret"]
ForeignPlan == [task |-> i2, text |-> "plain"]

JustPlain == {PlainPlan}
AnyPlan == {PlainPlan, SecretPlan, ForeignPlan}

\* Runs that fail somewhere have plain plans, and runs with other plans do not
\* fail: the union of two instances, not their product (a state constraint).
PlanOrFault ==
  \/ \A c \in Runs : client[c].plan \in {None} \cup {PlanOf(c, p) : p \in JustPlain}
  \/ \A c \in Runs : client[c].pc \notin {"raised", "crashed"}
=============================================================================
