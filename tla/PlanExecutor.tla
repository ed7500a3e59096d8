----------------------------- MODULE PlanExecutor -----------------------------
(***************************************************************************)
(* Executor.execute (src/llmin/execution/executor.py): a plan is           *)
(* authorized, its actions run one after the other in one                  *)
(* SandboxTransaction, and the outcome is reported.  Trace events matter   *)
(* here only because emitting one may raise; where that happens decides    *)
(* what is rolled back and whether there is a report.                      *)
(***************************************************************************)
EXTENDS SandboxTransaction, SequencesExt

CONSTANTS
  Capabilities,   \* capability names a plan may ask for
  Allowed,        \* task.constraints.allowed_capabilities
  Registered,     \* the capabilities of the registry
  Patched,        \* content -> what patch_toml makes of it, or None
  MaxActions,     \* task.budget.max_actions
  StartDisks,     \* the workspaces execution may start from
  PlanChoices     \* the plans that may be executed: sequences of actions

VARIABLES
  before,         \* the disk when execution started
  plan,           \* the plan
  exec            \* Executor.execute: where it is, and its results

execVars == <<disk, saved, tx, before, plan, exec>>

Actions == [capability : Capabilities, path : Paths, content : Contents]

ChangeRecords ==
  [path : Paths, kind : {"created", "modified"},
   before : Contents \cup {None}, after : Contents]

Reports ==
  [success : BOOLEAN, rolledBack : BOOLEAN, results : Seq(BOOLEAN),
   changes : SUBSET ChangeRecords]

Steps == {"authorize", "open", "run", "committed", "rollback", "failed",
          "returned", "raised"}

Executions ==
  [pc : Steps, results : Seq(BOOLEAN), report : Reports \cup {None}]

ASSUME ExecutorAssumptions ==
  /\ {"read_text", "write_text_atomic", "patch_toml"} \subseteq Capabilities
  /\ Registered \subseteq {"read_text", "write_text_atomic", "patch_toml"}
  /\ Patched \in [Contents -> Contents \cup {None}]
  /\ MaxActions \in Nat
  /\ StartDisks \subseteq Disks
  /\ PlanChoices \subseteq Seq(Actions) \ {<<>>}
  /\ None \notin Reports

-----------------------------------------------------------------------------

At(step) == exec.pc = step

\* Executor.authorize: the budget, then each action's capability.  Here plans
\* are those of the task; a plan for another task, which authorize refuses
\* first, is in AttemptCoordinator (Denied).
Authorized ==
  /\ Len(plan) <= MaxActions
  /\ \A i \in DOMAIN plan : plan[i].capability \in Allowed \cap Registered

FailureReport(results, rolledBack) ==
  [success |-> FALSE, rolledBack |-> rolledBack, results |-> results, changes |-> {}]

SuccessReport ==
  [success |-> TRUE, rolledBack |-> FALSE, results |-> exec.results,
   changes |-> Changes]

\* execute() returns a report once its last event is emitted, or raises.
ReturnOrRaise(report) ==
  \/ exec' = [exec EXCEPT !.pc = "returned", !.report = report]
  \/ "emit" \in Faults /\ exec' = [exec EXCEPT !.pc = "raised"]

\* The plan is refused, or the sandbox cannot be opened: nothing is touched.
PreflightRejected ==
  /\ At("authorize")
  /\ ~Authorized \/ "open" \in Faults
  /\ ReturnOrRaise(FailureReport(<<>>, FALSE))
  /\ UNCHANGED <<disk, saved, tx, before, plan>>

PreflightAuthorized ==
  /\ At("authorize")
  /\ Authorized
  /\ \/ exec' = [exec EXCEPT !.pc = "run"]
     \/ "emit" \in Faults /\ exec' = [exec EXCEPT !.pc = "raised"]
  /\ UNCHANGED <<disk, saved, tx, before, plan>>

\* The action that runs next.
Current == plan[Len(exec.results) + 1]

\* What the capability of action a writes, None if it refuses, given that it
\* can read what it needs.
Output(a) ==
  IF a.capability = "patch_toml" THEN Patched[disk[a.path].content] ELSE a.content

Succeeds(a) ==
  IF a.capability = "read_text" THEN CanRead(a.path) /\ UNCHANGED <<disk, saved>>
  ELSE /\ a.capability = "patch_toml" => CanRead(a.path)
       /\ Output(a) # None
       /\ Written(a.path, Output(a))

\* A capability that reads fails before it writes; one that writes may fail in
\* every way write_text_atomic does.
FailsToRead(a) ==
  /\ a.capability \in {"read_text", "patch_toml"}
  /\ \/ ~CanRead(a.path) \/ "read" \in Faults
     \/ a.capability = "patch_toml" /\ CanRead(a.path) /\ Output(a) = None
  /\ UNCHANGED <<disk, saved>>

FailsToWrite(a) ==
  /\ a.capability \in {"write_text_atomic", "patch_toml"}
  /\ a.capability = "patch_toml" => CanRead(a.path)
  /\ Output(a) # None
  /\ WriteRaises(a.path, Output(a))

Running == At("run") /\ Len(exec.results) < Len(plan)

\* An exception inside the with block: rollback begins.
RollBackWith(results) ==
  /\ StartRollback
  /\ exec' = [exec EXCEPT !.pc = "rollback", !.results = results]

ActionSucceeds ==
  /\ Running
  /\ Succeeds(Current)
  /\ exec' = [exec EXCEPT !.results = Append(@, TRUE)]
  /\ UNCHANGED <<tx, before, plan>>

ActionFails ==
  /\ Running
  /\ FailsToRead(Current) \/ FailsToWrite(Current)
  /\ RollBackWith(Append(exec.results, FALSE))
  /\ UNCHANGED <<before, plan>>

\* Faulty variant: an event that cannot be emitted leaves without a rollback.
BugUntoldKeepsFiles ==
  /\ Running /\ "emit" \in Faults
  /\ Succeeds(Current)
  /\ exec' = [exec EXCEPT !.pc = "raised", !.results = Append(@, TRUE)]
  /\ UNCHANGED <<tx, before, plan>>

\* action_started or action_completed cannot be emitted.
ActionUntold ==
  /\ Running /\ "emit" \in Faults
  /\ \/ UNCHANGED <<disk, saved>> /\ RollBackWith(exec.results)
     \/ Succeeds(Current) /\ RollBackWith(Append(exec.results, TRUE))
  /\ UNCHANGED <<before, plan>>

AllDone == At("run") /\ Len(exec.results) = Len(plan)

CommitPlan ==
  /\ AllDone
  /\ Commit
  /\ exec' = [exec EXCEPT !.pc = "committed"]
  /\ UNCHANGED <<before, plan>>

CommitRaises ==
  /\ AllDone
  /\ CommitFails
  /\ RollBackWith(exec.results)
  /\ UNCHANGED <<before, plan>>

\* execution.completed is emitted after the commit, outside the try.
Completed ==
  /\ At("committed")
  /\ ReturnOrRaise(SuccessReport)
  /\ UNCHANGED <<disk, saved, tx, before, plan>>

RollbackStep ==
  /\ At("rollback")
  /\ RestoreNext \/ RestoreFails
  /\ UNCHANGED <<before, plan, exec>>

RolledBack ==
  /\ At("rollback")
  /\ RollbackEnds
  /\ exec' = [exec EXCEPT !.pc = "failed"]
  /\ UNCHANGED <<before, plan>>

\* rollback_completed or rollback_failed, by transaction.rolled_back.
ReportFailure ==
  /\ At("failed")
  /\ ReturnOrRaise(FailureReport(exec.results, tx.rolledBack))
  /\ UNCHANGED <<disk, saved, tx, before, plan>>

ExecInit ==
  /\ before \in StartDisks
  /\ disk = before
  /\ plan \in PlanChoices
  /\ saved = <<>>
  /\ tx = NewTransaction
  /\ exec = [pc |-> "authorize", results |-> <<>>, report |-> None]

ExecNext ==
  \/ PreflightRejected \/ PreflightAuthorized
  \/ ActionSucceeds \/ ActionFails \/ ActionUntold
  \/ CommitPlan \/ CommitRaises \/ Completed
  \/ RollbackStep \/ RolledBack \/ ReportFailure

ExecSpec == ExecInit /\ [][ExecNext]_execVars

FairExecSpec == ExecSpec /\ WF_execVars(ExecNext)

-----------------------------------------------------------------------------
(* What execution promises.                                                *)

\* Files, snapshots, transaction and reports are well formed.
ExecTypeOK ==
  /\ disk \in Disks /\ before \in Disks
  /\ saved \in Seq(Snapshots)
  /\ tx \in Transactions /\ tx.left <= Len(saved)
  /\ plan \in PlanChoices
  /\ exec \in Executions

\* What differs between two disks, as change records.
Difference(old, new) ==
  {r \in ChangeRecords :
     /\ new[r.path] # None
     /\ r.after = new[r.path].content
     /\ IF old[r.path] = None THEN r.kind = "created" /\ r.before = None
        ELSE r.kind = "modified" /\ r.before = old[r.path].content
     /\ r.after # r.before}

\* A successful report is the whole truth: its change records are exactly the
\* difference between the disk before and after, no file is missing, and every
\* action succeeded (SandboxTransaction.commit).
SuccessTellsTheDisk ==
  exec.report # None /\ exec.report.success =>
    /\ exec.report.changes = Difference(before, disk)
    /\ \A p \in Paths : before[p] # None => disk[p] # None
    /\ exec.report.results = [i \in DOMAIN plan |-> TRUE]

\* A rollback that is reported as completed restored every file: the bytes, the
\* permissions, and the absence of files that did not exist (docs/sandbox.md).
RolledBackIsRestored == tx.rolledBack => disk = before

\* A failed execution that does not claim a rollback did not start its
\* transaction, or met an error while restoring; otherwise a failure is undone.
FailureIsUndone ==
  exec.report # None /\ ~exec.report.success =>
    disk = before \/ (tx.errors /\ ~exec.report.rolledBack)

\* The disk an action leaves behind when it succeeds on disk d.
After(a, d) ==
  LET output == IF a.capability = "patch_toml" THEN Patched[d[a.path].content]
                ELSE a.content
      mode   == IF before[a.path] = None THEN Private ELSE before[a.path].mode
  IN  IF a.capability = "read_text" THEN d
      ELSE [d EXCEPT ![a.path] = [content |-> output, mode |-> mode]]

\* When execute() raises instead of reporting, an event could not be emitted and
\* nobody learns what became of the files.  They are still all or nothing: as
\* before, or with the complete effect of every action of the plan (the event
\* that failed was execution.completed), unless a rollback met errors.
RaisedIsAllOrNothing ==
  At("raised") /\ disk # before /\ ~tx.errors =>
    disk = FoldLeft(LAMBDA d, a : After(a, d), before, plan)

\* However execute() ends other than with a successful report, its effect is all
\* or nothing unless restoring failed too (SandboxTransaction.__exit__).
FailureIsAllOrNothing == FailureIsUndone /\ RaisedIsAllOrNothing

\* In every state, and so after a crash: only allowlisted files differ from what
\* they were, a file that existed exists with its permissions, and what was
\* written is within the size limit.
FilesAreWhole ==
  \A p \in Paths :
    disk[p] # before[p] =>
      /\ p \in Writable /\ disk[p] # None
      /\ before[p] # None => disk[p].mode = before[p].mode
      /\ disk[p].content \notin Large

\* An execution that began its transaction ends with it closed.
TransactionEnds == At("run") ~> tx.closed
=============================================================================
