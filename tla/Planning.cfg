\* Every task and every response of at most two actions.
SPECIFICATION Spec
CONSTANTS
  None = None
  Capabilities <- Names
  Schemas = {"patch_toml", "write_text_atomic"}
  Registered = {"patch_toml", "write_text_atomic"}
  Budgets = {0, 1, 2}
  Items <- SomeItems
  Costs <- SomeCosts
  MaxItems = 2
INVARIANTS
  ReturnedPlanIsAllowed
  FittingResponseIsPlanned
CHECK_DEADLOCK FALSE
