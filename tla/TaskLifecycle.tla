---------------------------- MODULE TaskLifecycle ----------------------------
(***************************************************************************)
(* The lifecycle of one task attempt: src/llmin/orchestrator/              *)
(* state_machine.py.  A pure module: the states, which of them are         *)
(* terminal, and the transition relation that both OrchestratorRun (while  *)
(* the pipeline runs) and SQLiteMemoryStore (when it validates a journal)  *)
(* consult.                                                                *)
(***************************************************************************)
EXTENDS Naturals

TaskStates == {"received", "routed", "planned", "authorized", "executed",
               "verified", "recorded", "completed", "failed", "escalated"}

TerminalStates == {"completed", "failed", "escalated"}

\* The states a state may be followed by; a terminal state has none.
AllowedTransitions ==
  [s \in TaskStates |->
     CASE s = "received"   -> {"routed", "failed", "escalated"}
       [] s = "routed"     -> {"planned", "failed", "escalated"}
       [] s = "planned"    -> {"authorized", "failed", "escalated"}
       [] s = "authorized" -> {"executed", "failed"}
       [] s = "executed"   -> {"verified", "failed"}
       [] s = "verified"   -> {"recorded", "failed"}
       [] s = "recorded"   -> {"completed", "failed"}
       [] OTHER            -> {}]

\* OrchestratorRun keeps its state and the length of its history: a run is
\* created in "received" with an empty history.
NewRun == [state |-> "received", length |-> 0]

OrchestratorRuns == [state : TaskStates, length : Nat]

\* transition() refuses a target the current state does not allow ...
CanTransition(run, target) == target \in AllowedTransitions[run.state]

\* Faulty variant: the record is not appended to the history.
BugHistoryNotKept(run, target) == [state |-> target, length |-> run.length]

\* ... and otherwise numbers the record with the length of the history plus 1.
AfterTransition(run, target) == [state |-> target, length |-> run.length + 1]
=============================================================================
