--------------------------- MODULE MCBenchmarkGate ---------------------------
(***************************************************************************)
(* Manifests of up to four cases out of nine; the package's own requires   *)
(* ten, three of the least the other rules allow.                          *)
(***************************************************************************)
EXTENDS BenchmarkGate

MCSplits == {"train", "holdout"}

Int1   == [type |-> "int", number |-> 1]
Int2   == [type |-> "int", number |-> 2]
True1  == [type |-> "bool", number |-> 1]
Str1   == [type |-> "str", number |-> 1]
NotANumber == [type |-> "float", number |-> None]

MCValues == {Int1, Int2, True1, Str1, NotANumber}

Completed == [state |-> "completed", executed |-> TRUE, verdict |-> "passed"]
NotDone   == [state |-> "failed", executed |-> FALSE, verdict |-> None]
Denied    == [state |-> "failed", executed |-> None, verdict |-> None]

Ordinary(id, mode, patchable, expected) ==
  [id |-> id, split |-> "train", mode |-> mode, patchable |-> patchable,
   action |-> Int1, wanted |-> Int1, mutation |-> FALSE, expected |-> expected]

Mutation(id, patchable, action, wanted, expected) ==
  [id |-> id, split |-> "holdout", mode |-> "patch_toml", patchable |-> patchable,
   action |-> action, wanted |-> wanted, mutation |-> TRUE, expected |-> expected]

MCCasePool ==
  {Ordinary(1, "patch_toml", TRUE, Completed),
   Ordinary(1, "capability_error", FALSE, NotDone),
   Ordinary(4, "incompatible", TRUE, Denied),
   Mutation(2, TRUE, Int2, Int1, Rejected),
   Mutation(2, FALSE, Int1, Int2, Rejected),
   Mutation(2, FALSE, Int1, Int2, NotDone),
   Mutation(3, TRUE, True1, Int1, Rejected),
   Mutation(3, TRUE, Str1, Int1, Rejected),
   Mutation(3, TRUE, NotANumber, NotANumber, Rejected)}
==============================================================================
