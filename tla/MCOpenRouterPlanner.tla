------------------------ MODULE MCOpenRouterPlanner ------------------------
(***************************************************************************)
(* OpenRouterPlanner with budgets of 0 to 2 and responses at, below and    *)
(* above them.                                                             *)
(***************************************************************************)
EXTENDS OpenRouterPlanner

Names == {"patch_toml", "write_text_atomic", "unknown"}

Item(capability, id) ==
  [object |-> TRUE, valid |-> TRUE, capability |-> capability, id |-> id]

SomeItems ==
  {Item("patch_toml", None), Item("write_text_atomic", None), Item("unknown", None),
   Item("patch_toml", 1), [Item("patch_toml", None) EXCEPT !.valid = FALSE],
   [Item("patch_toml", None) EXCEPT !.object = FALSE, !.valid = FALSE]}

Cost(finite, sign, amount) == [finite |-> finite, sign |-> sign, amount |-> amount]

SomeCosts ==
  {Cost(TRUE, "+", 0), Cost(TRUE, "+", 1), Cost(TRUE, "+", 2), Cost(TRUE, "+", 3),
   Cost(TRUE, "-", 0), Cost(TRUE, "-", 1), Cost(FALSE, "+", 0)}
=============================================================================
