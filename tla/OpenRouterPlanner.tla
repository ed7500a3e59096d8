-------------------------- MODULE OpenRouterPlanner --------------------------
(***************************************************************************)
(* OpenRouterPlanner.plan (src/llmin/planning.py): budgets are checked,    *)
(* one request is made, and the response of a provider nobody controls     *)
(* becomes a plan or an error.  The plan then meets Executor.authorize     *)
(* (src/llmin/execution/executor.py), as in Pipeline.run.                  *)
(*                                                                         *)
(* The transport and the prompt are not modelled: a request answers with   *)
(* any response, or fails.  Of a response the model keeps what plan()      *)
(* tells apart.                                                            *)
(***************************************************************************)
EXTENDS Naturals, Sequences, FiniteSets

CONSTANTS
  Capabilities,    \* capability names a task or a response may contain
  Schemas,         \* those of _CAPABILITY_ARGUMENT_SCHEMAS
  Registered,      \* those of the executor's registry
  Budgets,         \* values of max_llm_calls, max_cost_usd and max_actions
  Items,           \* what the list of actions in a completion may hold
  Costs,           \* what usage.cost may be, beside missing
  MaxItems,        \* bound on the length of that list
  None

VARIABLES
  task,            \* the TaskSpec: its budget and allowed capabilities
  pc,              \* where the call is
  requests,        \* requests made
  response,        \* what the provider answered, or None
  result,          \* the plan, or None
  denied           \* whether Executor.authorize denied the plan

vars == <<task, pc, requests, response, result, denied>>

TaskSpecs == [calls : Budgets, cost : Budgets, actions : Budgets \ {0},
              allowed : SUBSET Capabilities]

\* "choice" says whether choices[0] is what the code expects, has no JSON text
\* with an "actions" entry in it, reports a failure, or is no object at all.
Responses ==
  [error : BOOLEAN, choice : {"whole", "malformed", "failed", "no object"},
   items : UNION {[1 .. n -> Items] : n \in 0 .. MaxItems},
   cost : Costs \cup {None}]

\* An item is an object or not, an Action or not, and may bring its own id.
ASSUME PlannerAssumptions ==
  /\ Schemas \subseteq Registered /\ Registered \subseteq Capabilities
  /\ Budgets \subseteq Nat
  /\ \A i \in Items : i \in [object : BOOLEAN, valid : BOOLEAN,
                             capability : Capabilities, id : Nat \cup {None}]
  /\ \A c \in Costs : c \in [finite : BOOLEAN, sign : {"+", "-"}, amount : Nat]
  /\ MaxItems \in Nat
  /\ None \notin Responses \cup [actions : Seq(Items), cost : Nat]

-----------------------------------------------------------------------------
Elements(s) == {s[i] : i \in DOMAIN s}

\* Faulty variant: whatever has a schema may be requested.
BugSupported(t) == Schemas

\* The capabilities the planner offers to the model.
Supported(t) == t.allowed \cap Schemas

MayRequest(t) == t.calls >= 1 /\ t.cost > 0 /\ Supported(t) # {}

\* _extract_actions finds a list of objects.
HasActions(r) ==
  /\ ~r.error /\ r.choice = "whole" /\ r.items # <<>>
  /\ \A i \in Elements(r.items) : i.object

\* Of a choice that is no object, get() raises an AttributeError.
ChoiceRaises(r) == ~r.error /\ r.choice = "no object"

\* _extract_cost: a missing cost is zero.
CostOf(r) == IF r.cost = None THEN 0 ELSE r.cost.amount

CostIsValid(r) ==
  r.cost # None => r.cost.finite /\ (r.cost.sign = "+" \/ r.cost.amount = 0)

\* Faulty variant: a cost of exactly the budget is too much.
BugAccepts(t, r) ==
  /\ HasActions(r) /\ \A i \in Elements(r.items) : i.valid
  /\ Len(r.items) <= t.actions
  /\ \A i \in Elements(r.items) : i.capability \in Supported(t)
  /\ CostIsValid(r) /\ CostOf(r) < t.cost

\* The checks of plan() up to the construction of the plan.
Accepts(t, r) ==
  /\ HasActions(r) /\ \A i \in Elements(r.items) : i.valid
  /\ Len(r.items) <= t.actions
  /\ \A i \in Elements(r.items) : i.capability \in Supported(t)
  /\ CostIsValid(r) /\ CostOf(r) <= t.cost

\* ExecutionPlan.validate_knowledge_source: ids are unique; an item without one
\* gets a new one.
IdsAreUnique(r) ==
  \A i, j \in DOMAIN r.items :
    i # j /\ r.items[i].id # None => r.items[i].id # r.items[j].id

PlanOf(r) == [actions |-> r.items, cost |-> CostOf(r)]

\* Executor.authorize.
Denies(t, plan) ==
  \/ Len(plan.actions) > t.actions
  \/ \E a \in Elements(plan.actions) : a.capability \notin t.allowed \cap Registered

-----------------------------------------------------------------------------
Init ==
  /\ task \in TaskSpecs
  /\ pc = "start" /\ requests = 0
  /\ response = None /\ result = None /\ denied = FALSE

\* A task whose budget or capabilities allow no request ends at once.
Start ==
  /\ pc = "start"
  /\ pc' = IF MayRequest(task) THEN "requested" ELSE "PlanningError"
  /\ requests' = requests + (IF MayRequest(task) THEN 1 ELSE 0)
  /\ UNCHANGED <<task, response, result, denied>>

\* The transport fails: HTTP errors, timeouts, oversized or broken JSON.
TransportFails ==
  /\ pc = "requested"
  /\ pc' = "PlanningError"
  /\ UNCHANGED <<task, requests, response, result, denied>>

Respond ==
  /\ pc = "requested"
  /\ response' \in Responses
  /\ pc' = CASE ChoiceRaises(response') -> "AttributeError"
             [] ~ChoiceRaises(response') /\ ~Accepts(task, response') -> "PlanningError"
             [] Accepts(task, response') /\ ~IdsAreUnique(response') -> "ValidationError"
             [] OTHER -> "planned"
  /\ result' = IF pc' = "planned" THEN PlanOf(response') ELSE None
  /\ UNCHANGED <<task, requests, denied>>

\* Pipeline.run asks the executor.
Authorize ==
  /\ pc = "planned"
  /\ pc' = "authorized"
  /\ denied' = Denies(task, result)
  /\ UNCHANGED <<task, requests, response, result>>

Next == Start \/ TransportFails \/ Respond \/ Authorize

Spec == Init /\ [][Next]_vars

-----------------------------------------------------------------------------
Errors == {"PlanningError", "AttributeError", "ValidationError"}

\* A call ends with a plan or with one error, and a plan has as many actions
\* and costs as little as the task allows: the budget is never exceeded by
\* what the provider says, at any boundary (plan).
BudgetIsKept ==
  /\ requests <= task.calls
  /\ pc \in Errors => result = None
  /\ pc \in {"planned", "authorized"} =>
       /\ result # None
       /\ Len(result.actions) \in 1 .. task.actions
       /\ result.cost \in 0 .. task.cost

\* The planner's own checks are not weaker than the executor's: whatever the
\* provider says, a plan that is returned is never denied (plan and
\* Executor.authorize).
ReturnedPlanIsAuthorized == ~denied

\* A plan that comes back is one the task allows: within every budget, and
\* never denied by the executor (plan, Executor.authorize).
ReturnedPlanIsAllowed == BudgetIsKept /\ ReturnedPlanIsAuthorized

\* The reference: actions the task allows, each once, at a cost within the
\* budget.
Fits(t, r) ==
  /\ ~r.error /\ r.choice = "whole"
  /\ Len(r.items) \in 1 .. t.actions
  /\ Elements(r.items) \subseteq
       {i \in Items : i.object /\ i.valid /\ i.capability \in Schemas \cap t.allowed}
  /\ \A id \in {i.id : i \in Elements(r.items)} \ {None} :
       Cardinality({k \in DOMAIN r.items : r.items[k].id = id}) = 1
  /\ \/ r.cost = None
     \/ r.cost.finite /\ r.cost.amount = 0
     \/ r.cost.finite /\ r.cost.sign = "+" /\ r.cost.amount <= t.cost

\* A response that fits the task is not lost, and nothing else becomes a plan,
\* at the boundary of every budget and whatever check of plan() comes first.
FittingResponseIsPlanned ==
  response # None => (Fits(task, response) <=> result = PlanOf(response))

\* The test of invalid provider responses expects a PlanningError of each, the
\* only error the commands handle.
RefusalIsPlanningError == pc \notin {"AttributeError", "ValidationError"}
=============================================================================
