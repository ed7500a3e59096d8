------------------------ MODULE MCVerificationService ------------------------
(***************************************************************************)
(* Runs of Executor.execute and VerificationService.verify on two paths.   *)
(* One run explores the union of two instances: every plan of at most      *)
(* three actions over seven, for one task, and three plans for every task  *)
(* of at most two postconditions over twelve.                              *)
(***************************************************************************)
EXTENDS VerificationService

CONSTANTS p1, p2, old, new, huge, bytes, private, shared

File(content) == [content |-> content, mode |-> shared]

\* p1 exists or not, with content that can be patched, is too long or is not
\* text; p2 exists or not, as text or not.
SomeDisks ==
  {[p \in {p1, p2} |-> IF p = p1 THEN f ELSE g] :
     f \in {File(old), File(huge), File(bytes), None},
     g \in {File(new), File(bytes), None}}

\* Patching turns the old content into the new one, and the new one into itself.
Patch == [c \in {old, new, huge, bytes} |-> IF c \in {old, new} THEN new ELSE None]

Act(capability, path, content) ==
  [capability |-> capability, path |-> path, content |-> content]

SomeActions ==
  {Act("write_text_atomic", p1, new), Act("write_text_atomic", p1, old),
   Act("write_text_atomic", p2, new), Act("write_text_atomic", p2, huge),
   Act("patch_toml", p1, old), Act("read_text", p1, old),
   Act("run_shell", p1, old)}

\* One action more than the budget allows.
LongPlans == UNION {[1 .. n -> SomeActions] : n \in 1 .. 3}
               \cup {[n \in 1 .. 4 |-> Act("read_text", p1, old)]}

\* Plans that reach the goal, leave it, and touch one file twice.
ShortPlans ==
  {<<Act("patch_toml", p1, old)>>,
   <<Act("write_text_atomic", p1, new), Act("write_text_atomic", p1, old)>>,
   <<Act("write_text_atomic", p1, new), Act("write_text_atomic", p2, new)>>}

Condition(path, content, required, verifier) ==
  [required |-> required, path |-> path, verifier |-> verifier,
   accepts |-> {content}, opaque |-> {bytes}]

SomeConditions ==
  {Condition(p, content, required, TRUE) :
     p \in {p1, p2}, content \in {old, new}, required \in BOOLEAN}
  \cup {Condition(None, new, TRUE, TRUE), Condition(None, new, FALSE, TRUE),
        Condition(p1, new, TRUE, FALSE), Condition(p1, new, FALSE, FALSE)}

SomeTasks ==
  {t \in UNION {[1 .. n -> SomeConditions] : n \in 1 .. 2} :
     \E i \in DOMAIN t : t[i].required}

OneTask == <<Condition(p1, new, TRUE, TRUE)>>

\* The instances: the second path starts as binary, and the first with text,
\* where a task is verified.
ChosenInit ==
  /\ RunInit
  /\ \/ postconditions = OneTask /\ disk[p2] # File(bytes)
     \/ plan \in ShortPlans /\ disk[p1] = File(old)

\* The pipeline runs in its caller's thread.
ChosenSpec ==
  ChosenInit /\ [][RunNext]_runVars /\ WF_execVars(ExecNext)
=============================================================================
