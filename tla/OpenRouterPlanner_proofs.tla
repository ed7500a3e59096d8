---------------------- MODULE OpenRouterPlanner_proofs ----------------------
(***************************************************************************)
(* Proofs about OpenRouterPlanner, for any budgets, any provider and lists *)
(* of actions of any length.                                               *)
(***************************************************************************)
EXTENDS OpenRouterPlanner, FiniteSetTheorems, TLAPS

Plans == [actions : Seq(Items), cost : Nat]

\* What the fields of a response are.
LEMMA ResponseFields ==
  ASSUME NEW r \in Responses
  PROVE  /\ r.items \in Seq(Items) /\ Len(r.items) \in Nat
         /\ DOMAIN r.items = 1 .. Len(r.items)
         /\ r.cost \in Costs \cup {None}
         /\ CostOf(r) \in Nat
         /\ PlanOf(r) \in Plans
  <1>1. PICK n \in 0 .. MaxItems : r.items \in [1 .. n -> Items]
    BY DEF Responses
  <1>2. n \in Nat
    BY PlannerAssumptions
  <1>3. r.items \in Seq(Items) /\ Len(r.items) \in Nat /\ DOMAIN r.items = 1 .. Len(r.items)
    BY <1>1, <1>2
  <1>4. r.cost \in Costs \cup {None}
    BY DEF Responses
  <1>5. CostOf(r) \in Nat
    BY <1>4, PlannerAssumptions DEF CostOf
  <1>6. QED
    BY <1>3, <1>4, <1>5 DEF PlanOf, Plans

\* A plan the checks of plan() let through is within the budgets of the task.
LEMMA AcceptedIsWithin ==
  ASSUME NEW t \in TaskSpecs, NEW r \in Responses, Accepts(t, r)
  PROVE  /\ Len(r.items) \in 1 .. t.actions
         /\ CostOf(r) \in 0 .. t.cost
         /\ ~Denies(t, PlanOf(r))
  <1>1. /\ r.items \in Seq(Items) /\ Len(r.items) \in Nat /\ CostOf(r) \in Nat
    BY ResponseFields
  <1>2. t.actions \in Nat /\ t.cost \in Nat
    BY PlannerAssumptions DEF TaskSpecs
  <1>3. Len(r.items) <= t.actions /\ r.items # <<>> /\ CostOf(r) <= t.cost
    BY DEF Accepts, HasActions
  <1>4. Len(r.items) # 0
    BY <1>1, <1>3
  <1>5. \A i \in Elements(r.items) : i.capability \in t.allowed \cap Registered
    BY PlannerAssumptions DEF Accepts, Supported
  <1>6. QED
    BY <1>1, <1>2, <1>3, <1>4, <1>5 DEF Denies, PlanOf

-----------------------------------------------------------------------------
(* A returned plan is allowed.                                             *)

\* The invariant: where the call is, and what it has by then.
PlannerInv ==
  /\ task \in TaskSpecs
  /\ pc \in {"start", "requested", "planned", "authorized"} \cup Errors
  /\ requests \in {0, 1}
  /\ requests = 1 => MayRequest(task)
  /\ pc = "start" => requests = 0
  /\ pc \in {"start", "requested"} => response = None /\ result = None
  /\ response \in Responses \cup {None}
  /\ pc \in Errors => result = None
  /\ pc \in {"planned", "authorized"} =>
       /\ response # None /\ Accepts(task, response)
       /\ result = PlanOf(response)
  /\ ~denied

LEMMA PlannerInit == Init => PlannerInv
  BY DEF Init, PlannerInv, Errors

LEMMA PlannerStep == PlannerInv /\ [Next]_vars => PlannerInv'
  <1> SUFFICES ASSUME PlannerInv, [Next]_vars PROVE PlannerInv'
    OBVIOUS
  <1>1. CASE Start
    BY <1>1 DEF Start, PlannerInv, Errors
  <1>2. CASE TransportFails
    BY <1>2 DEF TransportFails, PlannerInv, Errors
  <1>3. CASE Respond
    <2>1. response' \in Responses /\ response' # None
      BY <1>3, PlannerAssumptions DEF Respond
    <2>2. /\ pc' \in Errors \cup {"planned"}
          /\ pc' = "planned" => Accepts(task, response') /\ result' = PlanOf(response')
          /\ pc' # "planned" => result' = None
      <3>1. CASE ChoiceRaises(response')
        BY <1>3, <3>1 DEF Respond, Errors
      <3>2. CASE ~ChoiceRaises(response') /\ ~Accepts(task, response')
        BY <1>3, <3>2 DEF Respond, Errors
      <3>3. CASE ~ChoiceRaises(response') /\ Accepts(task, response')
        BY <1>3, <3>3 DEF Respond, Errors
      <3>4. QED
        BY <3>1, <3>2, <3>3
    <2>3. QED
      BY <1>3, <2>1, <2>2 DEF Respond, PlannerInv, Errors
  <1>4. CASE Authorize
    <2>1. response \in Responses /\ Accepts(task, response) /\ result = PlanOf(response)
          /\ task \in TaskSpecs
      BY <1>4 DEF Authorize, PlannerInv
    <2>2. ~Denies(task, result)
      BY <2>1, AcceptedIsWithin
    <2>3. QED
      BY <1>4, <2>2 DEF Authorize, PlannerInv, Errors
  <1>5. CASE UNCHANGED vars
    BY <1>5 DEF vars, PlannerInv
  <1>6. QED
    BY <1>1, <1>2, <1>3, <1>4, <1>5 DEF Next

\* Whatever the provider answers, a plan that comes back keeps every budget of
\* the task and is not denied by the executor.
THEOREM PlansAreAllowed == Spec => []ReturnedPlanIsAllowed
  <1>1. PlannerInv => ReturnedPlanIsAllowed
    <2> SUFFICES ASSUME PlannerInv PROVE ReturnedPlanIsAllowed
      OBVIOUS
    <2>1. requests <= task.calls
      <3>1. task.calls \in Nat
        BY PlannerAssumptions DEF PlannerInv, TaskSpecs
      <3>2. QED
        BY <3>1 DEF PlannerInv, MayRequest
    <2>2. ASSUME pc \in {"planned", "authorized"}
          PROVE  /\ result # None
                 /\ Len(result.actions) \in 1 .. task.actions
                 /\ result.cost \in 0 .. task.cost
      <3>1. /\ task \in TaskSpecs /\ response \in Responses
            /\ Accepts(task, response) /\ result = PlanOf(response)
        BY <2>2 DEF PlannerInv
      <3>2. result \in Plans
        BY <3>1, ResponseFields
      <3>3. result # None
        BY <3>2, PlannerAssumptions DEF Plans
      <3>4. QED
        BY <3>1, <3>3, AcceptedIsWithin DEF PlanOf
    <2>3. QED
      BY <2>1, <2>2 DEF ReturnedPlanIsAllowed, BudgetIsKept, ReturnedPlanIsAuthorized,
                        PlannerInv
  <1>2. QED
    BY <1>1, PlannerInit, PlannerStep, PTL DEF Spec

-----------------------------------------------------------------------------
(* The checks of plan() let through what fits, and nothing else.           *)

\* Ids are pairwise different iff each is there once.
LEMMA UniqueIds ==
  ASSUME NEW r \in Responses
  PROVE  IdsAreUnique(r) <=>
           \A id \in {i.id : i \in Elements(r.items)} \ {None} :
             Cardinality({k \in DOMAIN r.items : r.items[k].id = id}) = 1
  <1> DEFINE At(id) == {k \in DOMAIN r.items : r.items[k].id = id}
  <1>1. IsFiniteSet(DOMAIN r.items)
    BY ResponseFields, FS_Interval
  <1>2. \A id : IsFiniteSet(At(id))
    BY <1>1, FS_Subset
  <1>3. ASSUME IdsAreUnique(r), NEW j \in DOMAIN r.items, r.items[j].id # None
        PROVE  Cardinality(At(r.items[j].id)) = 1
    <2>1. At(r.items[j].id) = {j}
      BY <1>3 DEF IdsAreUnique
    <2>2. QED
      BY <2>1, FS_Singleton
  <1>4. ASSUME NEW i \in DOMAIN r.items, NEW j \in DOMAIN r.items, i # j,
               r.items[i].id # None, Cardinality(At(r.items[i].id)) = 1
        PROVE  r.items[i].id # r.items[j].id
    <2>0. IsFiniteSet(At(r.items[i].id)) /\ Cardinality(At(r.items[i].id)) = 1
      BY <1>2, <1>4
    <2>1. PICK x : At(r.items[i].id) = {x}
      <3> HIDE DEF At
      <3>1. QED
        BY <2>0, FS_Singleton
    <2>2. i \in At(r.items[i].id)
      OBVIOUS
    <2>3. j \notin At(r.items[i].id)
      BY <1>4, <2>1, <2>2
    <2>4. QED
      BY <2>3
  <1> HIDE DEF At
  <1>5. {i.id : i \in Elements(r.items)} = {r.items[j].id : j \in DOMAIN r.items}
    BY DEF Elements
  <1>6. IdsAreUnique(r) <=>
          \A id \in {i.id : i \in Elements(r.items)} \ {None} : Cardinality(At(id)) = 1
    BY <1>3, <1>4, <1>5 DEF IdsAreUnique
  <1>7. QED
    BY <1>6 DEF At

LEMMA AcceptsWhatFits ==
  ASSUME NEW t \in TaskSpecs, NEW r \in Responses
  PROVE  Fits(t, r) <=> ~ChoiceRaises(r) /\ Accepts(t, r) /\ IdsAreUnique(r)
  <1>1. /\ r.items \in Seq(Items) /\ Len(r.items) \in Nat
        /\ DOMAIN r.items = 1 .. Len(r.items)
        /\ r.cost \in Costs \cup {None}
    BY ResponseFields
  <1>2. t.actions \in Nat /\ t.cost \in Nat
    BY PlannerAssumptions DEF TaskSpecs
  <1>3. Len(r.items) \in 1 .. t.actions <=> r.items # <<>> /\ Len(r.items) <= t.actions
    BY <1>1, <1>2
  <1>4. Elements(r.items) \subseteq Items
    BY <1>1 DEF Elements
  <1>5. Elements(r.items) \subseteq
          {i \in Items : i.object /\ i.valid /\ i.capability \in Schemas \cap t.allowed}
        <=> \A i \in Elements(r.items) :
              i.object /\ i.valid /\ i.capability \in Supported(t)
    BY <1>4 DEF Supported
  <1>6. (\/ r.cost = None
         \/ r.cost.finite /\ r.cost.amount = 0
         \/ r.cost.finite /\ r.cost.sign = "+" /\ r.cost.amount <= t.cost)
        <=> CostIsValid(r) /\ CostOf(r) <= t.cost
    <2>1. CASE r.cost = None
      BY <1>2, <2>1 DEF CostIsValid, CostOf
    <2>2. CASE r.cost # None
      <3>1. r.cost.amount \in Nat
        BY <1>1, <2>2, PlannerAssumptions
      <3>2. QED
        BY <1>2, <2>2, <3>1 DEF CostIsValid, CostOf
    <2>3. QED
      BY <2>1, <2>2
  <1>7. ~r.error /\ r.choice = "whole" => ~ChoiceRaises(r)
    BY DEF ChoiceRaises
  <1>8. QED
    BY <1>3, <1>5, <1>6, <1>7, UniqueIds DEF Fits, Accepts, HasActions

LEMMA FittingStep ==
  ASSUME PlannerInv, FittingResponseIsPlanned, [Next]_vars
  PROVE  FittingResponseIsPlanned'
  <1>1. CASE Respond
    <2>1. response' \in Responses /\ task \in TaskSpecs /\ task' = task
      BY <1>1 DEF Respond, PlannerInv
    <2>2. pc' = "planned" <=> Fits(task, response')
      <3>1. pc' = "planned" <=> /\ ~ChoiceRaises(response') /\ Accepts(task, response')
                                /\ IdsAreUnique(response')
        BY <1>1 DEF Respond
      <3>2. QED
        BY <2>1, <3>1, AcceptsWhatFits
    <2>3. PlanOf(response') # None
      BY <2>1, ResponseFields, PlannerAssumptions DEF Plans
    <2>4. QED
      BY <1>1, <2>1, <2>2, <2>3 DEF Respond, FittingResponseIsPlanned
  <1>2. CASE Start \/ TransportFails \/ Authorize \/ UNCHANGED vars
    BY <1>2 DEF Start, TransportFails, Authorize, vars, FittingResponseIsPlanned
  <1>3. QED
    BY <1>1, <1>2 DEF Next

\* The checks of plan(), in whatever order, let every response through that fits
\* the task, and no other.
THEOREM FittingIsPlanned == Spec => []FittingResponseIsPlanned
  <1>1. Init => FittingResponseIsPlanned
    BY DEF Init, FittingResponseIsPlanned
  <1>2. QED
    BY <1>1, PlannerInit, PlannerStep, FittingStep, PTL DEF Spec
=============================================================================
