------------------------- MODULE VerificationService -------------------------
(***************************************************************************)
(* VerificationService.verify (src/llmin/verification/service.py) and its  *)
(* verifiers, run by the pipeline on the workspace a successful execution  *)
(* left: each postcondition of the task is inspected through a read-only   *)
(* sandbox that is opened for verification, and a verdict is aggregated.   *)
(***************************************************************************)
EXTENDS PlanExecutor

CONSTANTS
  TaskChoices   \* the postconditions a task may have: sequences of conditions

VARIABLES
  postconditions,   \* task.postconditions
  check             \* VerificationService.verify: where it is, and its findings

verifyVars == <<postconditions, check>>

runVars == <<execVars, verifyVars>>

\* A postcondition is known by what decides it: whether it is required, its path
\* (None: not a valid one), whether its type has a verifier, the contents that
\* meet it, and the contents the verifier cannot inspect (not UTF-8, not TOML,
\* no such key).
Conditions ==
  [required : BOOLEAN, path : Paths \cup {None}, verifier : BOOLEAN,
   accepts : SUBSET Contents, opaque : SUBSET Contents]

Verdicts == {"passed", "failed", "inconclusive"}

\* Evidence holds the hash of the inspected file: its content stands for it.
Evidence == [index : Nat, content : Contents]

Checks ==
  [pc : {"wait", "prepare", "inspect", "reported", "raised"}, at : Nat,
   covered : SUBSET Nat, evidence : SUBSET Evidence,
   mismatches : SUBSET Nat, errors : SUBSET Nat, verdict : Verdicts \cup {None}]

\* TaskSpec.require_verifiable_outcome: at least one condition is required.
ASSUME VerificationAssumptions ==
  /\ TaskChoices \subseteq Seq(Conditions)
  /\ \A t \in TaskChoices : \E i \in DOMAIN t : t[i].required
  /\ None \notin Verdicts

-----------------------------------------------------------------------------

Required == {i \in DOMAIN postconditions : postconditions[i].required}

\* The verifier can read the file and make sense of it.
CanInspect(c) ==
  /\ c.path # None
  /\ disk[c.path] # None
  /\ disk[c.path].content \notin Large \cup c.opaque

\* A required condition without a path ends verification before it starts; so
\* does a workspace that cannot be opened.
Unprepared == {i \in Required : postconditions[i].path = None}

\* Faulty variant: uncovered conditions are not missed.
BugUncoveredPasses(covered, mismatches, errors) ==
  IF mismatches # {} THEN "failed" ELSE "passed"

\* The verdict over what was covered, mismatched and in error.
Verdict(covered, mismatches, errors) ==
  IF mismatches # {} THEN "failed"
  ELSE IF errors # {} \/ ~(Required \subseteq covered) THEN "inconclusive"
  ELSE "passed"

\* The report is returned once verification.completed is emitted.
ReportOrRaise(verdict) ==
  \/ check' = [check EXCEPT !.pc = "reported", !.verdict = verdict]
  \/ "emit" \in Faults /\ check' = [check EXCEPT !.pc = "raised"]

\* The pipeline verifies a successful execution.
StartVerification ==
  /\ check.pc = "wait"
  /\ At("returned") /\ exec.report.success
  /\ check' = [check EXCEPT !.pc = "prepare"]
  /\ UNCHANGED <<execVars, postconditions>>

\* Preparation fails: nothing is covered and no evidence is gathered.
NotPrepared ==
  /\ check.pc = "prepare"
  /\ Unprepared # {} \/ "open" \in Faults
  /\ ReportOrRaise("inconclusive")
  /\ UNCHANGED <<execVars, postconditions>>

Prepared ==
  /\ check.pc = "prepare"
  /\ Unprepared = {}
  /\ check' = [check EXCEPT !.pc = "inspect", !.at = 1]
  /\ UNCHANGED <<execVars, postconditions>>

Inspecting == check.pc = "inspect" /\ check.at \in DOMAIN postconditions

\* An error counts only against a required condition.
ErrorAt(i) == IF postconditions[i].required THEN {i} ELSE {}

\* No verifier, or one that cannot inspect the file.
InspectionFails ==
  /\ Inspecting
  /\ LET i == check.at  c == postconditions[check.at] IN
       /\ ~c.verifier \/ ~CanInspect(c) \/ "read" \in Faults
       /\ check' = [check EXCEPT !.at = i + 1, !.errors = @ \cup ErrorAt(i)]
  /\ UNCHANGED <<execVars, postconditions>>

\* Faulty variant: the mismatch is noted under the next index.
BugMismatchOfNext(i, c) ==
  IF disk[c.path].content \in c.accepts \/ ErrorAt(i) = {} THEN {} ELSE {i + 1}

\* A mismatch counts only against a required condition.
MismatchAt(i, c) ==
  IF disk[c.path].content \in c.accepts THEN {} ELSE ErrorAt(i)

\* The file is inspected: evidence is gathered and the condition is covered,
\* whether it matches or not.
Inspected ==
  /\ Inspecting
  /\ LET i == check.at  c == postconditions[check.at] IN
       /\ c.verifier /\ CanInspect(c)
       /\ check' = [check EXCEPT
            !.at = i + 1,
            !.covered = @ \cup {i},
            !.evidence = @ \cup {[index |-> i, content |-> disk[c.path].content]},
            !.mismatches = @ \cup MismatchAt(i, c)]
  /\ UNCHANGED <<execVars, postconditions>>

Conclude ==
  /\ check.pc = "inspect" /\ check.at > Len(postconditions)
  /\ ReportOrRaise(Verdict(check.covered, check.mismatches, check.errors))
  /\ UNCHANGED <<execVars, postconditions>>

VerifyNext ==
  \/ StartVerification
  \/ NotPrepared \/ Prepared
  \/ InspectionFails \/ Inspected
  \/ Conclude

RunInit ==
  /\ ExecInit
  /\ postconditions \in TaskChoices
  /\ check = [pc |-> "wait", at |-> 0, covered |-> {}, evidence |-> {},
              mismatches |-> {}, errors |-> {}, verdict |-> None]

RunNext ==
  \/ ExecNext /\ UNCHANGED verifyVars
  \/ VerifyNext

RunSpec == RunInit /\ [][RunNext]_runVars

-----------------------------------------------------------------------------
(* What verification promises.                                             *)

\* The findings are about the conditions of this task.
VerifyTypeOK ==
  /\ ExecTypeOK
  /\ postconditions \in TaskChoices
  /\ check \in Checks
  /\ check.covered \cup check.mismatches \cup check.errors \subseteq DOMAIN postconditions

Meets(c) ==
  /\ c.path # None
  /\ disk[c.path] # None
  /\ disk[c.path].content \in c.accepts

\* A passed verdict means that the workspace meets every required postcondition,
\* as evidence of what is there now shows, and that the execution report accounts
\* for every file that changed (docs/verification.md: what the verdict requires).
PassedMeansGoalReached ==
  check.verdict = "passed" =>
    /\ \A i \in Required :
         /\ Meets(postconditions[i])
         /\ \E e \in check.evidence :
              e.index = i /\ e.content = disk[postconditions[i].path].content
    /\ exec.report.changes = Difference(before, disk)

\* A failed verdict is backed by evidence: a file that does not meet a required
\* postcondition was read.
FailedMeansMissed ==
  check.verdict = "failed" =>
    \E i \in Required, e \in check.evidence :
      /\ e.index = i
      /\ ~Meets(postconditions[i])
      /\ e.content = disk[postconditions[i].path].content

\* A goal that is not known to be reached is never called reached or missed: an
\* inconclusive verdict leaves a required postcondition without evidence.
InconclusiveMeansUnknown ==
  check.verdict = "inconclusive" =>
    \E i \in Required : \A e \in check.evidence : e.index # i

\* A verdict never claims more than the files and the evidence show, whichever
\* conditions are covered, missed, optional or cannot be inspected (_verdict).
VerdictIsJustified ==
  PassedMeansGoalReached /\ FailedMeansMissed /\ InconclusiveMeansUnknown
=============================================================================
