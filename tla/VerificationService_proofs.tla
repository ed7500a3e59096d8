---------------------- MODULE VerificationService_proofs ----------------------
(***************************************************************************)
(* Proofs about SandboxTransaction, PlanExecutor and VerificationService,  *)
(* for every workspace, plan, task and every set of faults.                *)
(***************************************************************************)
EXTENDS VerificationService, FiniteSetTheorems, TLAPS

LEMMA Appended ==
  ASSUME NEW S, NEW s \in Seq(S), NEW x \in S
  PROVE  /\ Append(s, x) \in Seq(S) /\ Len(Append(s, x)) = Len(s) + 1
         /\ \A i \in 1 .. Len(s) : Append(s, x)[i] = s[i]
         /\ Append(s, x)[Len(s) + 1] = x
  OBVIOUS

\* The results of the actions are booleans.
LEMMA Noted ==
  ASSUME NEW s \in Seq(BOOLEAN), NEW x \in BOOLEAN
  PROVE  /\ Append(s, x) \in Seq(BOOLEAN) /\ Len(Append(s, x)) = Len(s) + 1
         /\ \A i \in 1 .. Len(s) : Append(s, x)[i] = s[i]
         /\ Append(s, x)[Len(s) + 1] = x
  BY Appended, Zenon

-----------------------------------------------------------------------------
(* The invariant of an execution.                                          *)

\* The snapshot of a file as it was when execution started.
Original(p) ==
  IF before[p] = None THEN [path |-> p, content |-> None, mode |-> None]
  ELSE [path |-> p, content |-> before[p].content, mode |-> before[p].mode]

\* A snapshot tells what was there, its mode perhaps excepted.
Tells(s) ==
  \/ s = Original(s.path)
  \/ s = [Original(s.path) EXCEPT !.mode = "unknown"]

\* The snapshots are of different writable paths, taken before they changed.
Saves(sv) ==
  /\ sv \in Seq(Snapshots)
  /\ \A i \in 1 .. Len(sv) : sv[i].path \in Writable /\ Tells(sv[i])
  /\ \A i, j \in 1 .. Len(sv) : sv[i].path = sv[j].path => i = j

ModesKnown(sv) == \A i \in 1 .. Len(sv) : sv[i].mode # "unknown"

HasSaved(sv, p) == \E i \in 1 .. Len(sv) : sv[i].path = p

\* A file without a snapshot is as it was.
Unchanged(sv) == \A p \in Paths : ~HasSaved(sv, p) => disk[p] = before[p]

\* Where no action has failed yet.
Forward == {"authorize", "run", "committed"}

SavedInv ==
  /\ Saves(saved) /\ Unchanged(saved)
  /\ exec.pc \in Forward \/ "stat" \notin Faults => ModesKnown(saved)

\* What a rollback has put back so far.
TxInv ==
  /\ tx.left <= Len(saved)
  /\ exec.pc \in Forward => ~tx.errors
  /\ exec.pc \in Forward \cup {"rollback"} => ~tx.rolledBack
  /\ exec.pc = "rollback" /\ ~tx.errors =>
       \A i \in tx.left + 1 .. Len(saved) : disk[saved[i].path] = before[saved[i].path]
  /\ exec.pc = "failed" => tx.rolledBack = ~tx.errors
  /\ tx.rolledBack /\ "stat" \notin Faults => disk = before

\* The disk is what the first n actions of the plan make of it, one by one.
Effect(n) ==
  \E d \in [0 .. n -> Disks] :
    /\ d[0] = before /\ d[n] = disk
    /\ \A i \in 1 .. n : d[i] = After(plan[i], d[i - 1])

ResultsInv ==
  /\ exec.pc = "authorize" => disk = before /\ exec.results = <<>>
  /\ exec.pc \in Forward =>
       /\ Len(exec.results) <= Len(plan)
       /\ \A i \in 1 .. Len(exec.results) : exec.results[i] = TRUE
       /\ Effect(Len(exec.results))
  /\ exec.pc = "committed" => Len(exec.results) = Len(plan)
  /\ exec.report # None <=> exec.pc = "returned"

\* A raised execution whose rollback, if any, met no error has left the files as
\* they were or with the effect of the whole plan.
RaisedHasTheEffect ==
  At("raised") /\ disk # before /\ ~tx.errors => Effect(Len(plan))

\* What holds when an error of stat() cannot leave a snapshot without its mode.
UndoneInv == "stat" \notin Faults => FailureIsUndone /\ RaisedHasTheEffect

ExecInv ==
  /\ ExecTypeOK /\ SavedInv /\ TxInv /\ ResultsInv
  /\ FilesAreWhole /\ SuccessTellsTheDisk /\ UndoneInv

LEMMA ExecInvInit == ExecInit => ExecInv
  <1> SUFFICES ASSUME ExecInit PROVE ExecInv
    OBVIOUS
  <1>1. ExecTypeOK
    BY ExecutorAssumptions
       DEF ExecInit, ExecTypeOK, NewTransaction, Transactions, Executions, Steps
  <1>2. SavedInv /\ TxInv
    BY DEF ExecInit, SavedInv, Saves, Unchanged, ModesKnown, TxInv, NewTransaction
  <1>3. Effect(0)
    <2> DEFINE d == [i \in 0 .. 0 |-> before]
    <2>1. d \in [0 .. 0 -> Disks] /\ d[0] = before /\ \A i \in 1 .. 0 : FALSE
      BY <1>1 DEF ExecTypeOK
    <2>2. d[0] = disk
      BY <2>1 DEF ExecInit
    <2> HIDE DEF d
    <2>3. QED
      BY <2>1, <2>2 DEF Effect
  <1>4. plan \in Seq(Actions)
    BY ExecutorAssumptions DEF ExecInit
  <1>5. ResultsInv
    BY <1>3, <1>4 DEF ExecInit, ResultsInv, Forward
  <1>6. FilesAreWhole /\ SuccessTellsTheDisk /\ UndoneInv
    BY DEF ExecInit, FilesAreWhole, SuccessTellsTheDisk, UndoneInv, FailureIsUndone,
           RaisedHasTheEffect, At
  <1>7. QED
    BY <1>1, <1>2, <1>5, <1>6 DEF ExecInv

-----------------------------------------------------------------------------
(* Snapshots and files.                                                    *)

LEMMA OriginalIs ==
  ASSUME NEW p \in Paths, before \in Disks
  PROVE  /\ Original(p) \in Snapshots /\ Original(p).path = p
         /\ Original(p).mode # "unknown"
         /\ before[p] = None => Original(p).content = None /\ Original(p).mode = None
         /\ before[p] # None =>
              /\ before[p] \in Files
              /\ Original(p).content = before[p].content /\ Original(p).content # None
              /\ Original(p).mode = before[p].mode /\ Original(p).mode # None
  <1>1. None \notin Contents \cup Modes \cup {"unknown"} /\ "unknown" \notin Modes
    BY SandboxAssumptions
  <1>2. CASE before[p] = None
    BY <1>1, <1>2 DEF Original, Snapshots
  <1>3. CASE before[p] # None
    <2>1. before[p] \in Files
      BY <1>3 DEF Disks
    <2>2. before[p].content \in Contents /\ before[p].mode \in Modes
      BY <2>1 DEF Files
    <2>3. QED
      BY <1>1, <1>3, <2>1, <2>2 DEF Original, Snapshots
  <1>4. QED
    BY <1>2, <1>3

\* A snapshot whose mode is known is the one of the original file.
LEMMA TellsIs ==
  ASSUME NEW s \in Snapshots, Tells(s), before \in Disks, s.mode # "unknown"
  PROVE  s = Original(s.path)
  <1>1. s.path \in Paths
    BY DEF Snapshots
  <1>2. Original(s.path) \in Snapshots
    BY <1>1, OriginalIs
  <1>3. [Original(s.path) EXCEPT !.mode = "unknown"].mode = "unknown"
    BY <1>2 DEF Snapshots
  <1>4. QED
    BY <1>3 DEF Tells

\* One more snapshot, of a file that has none.
LEMMA SavesAppended ==
  ASSUME NEW sv, Saves(sv), NEW s \in Snapshots, s.path \in Writable, Tells(s),
         ~HasSaved(sv, s.path)
  PROVE  /\ Saves(Append(sv, s)) /\ Len(Append(sv, s)) = Len(sv) + 1
         /\ HasSaved(Append(sv, s), s.path)
         /\ \A p : HasSaved(sv, p) => HasSaved(Append(sv, s), p)
         /\ ModesKnown(sv) /\ s.mode # "unknown" => ModesKnown(Append(sv, s))
         /\ Append(sv, s)[Len(sv) + 1] = s
  <1> DEFINE w == Append(sv, s)
             n == Len(sv)
  <1>1. /\ sv \in Seq(Snapshots) /\ n \in Nat
        /\ w \in Seq(Snapshots) /\ Len(w) = n + 1
        /\ \A i \in 1 .. n : w[i] = sv[i]
        /\ w[n + 1] = s
    BY Appended DEF Saves
  <1>2. \A i \in 1 .. n + 1 : i \in 1 .. n \/ i = n + 1
    BY <1>1
  <1>3. n + 1 \in 1 .. n + 1 /\ \A i \in 1 .. n : i \in 1 .. n + 1
    BY <1>1
  <1> HIDE DEF w, n
  <1>4. \A i \in 1 .. n + 1 : w[i].path \in Writable /\ Tells(w[i])
    BY <1>1, <1>2 DEF Saves, n
  <1>5. \A i \in 1 .. n : w[i].path # w[n + 1].path
    BY <1>1 DEF HasSaved, n
  <1>6. \A i, j \in 1 .. n + 1 : w[i].path = w[j].path => i = j
    <2>1. \A i, j \in 1 .. n : w[i].path = w[j].path => i = j
      BY <1>1 DEF Saves, n
    <2>2. QED
      BY <2>1, <1>2, <1>5
  <1>7. Saves(w)
    BY <1>1, <1>4, <1>6 DEF Saves
  <1>8. HasSaved(w, s.path) /\ \A p : HasSaved(sv, p) => HasSaved(w, p)
    BY <1>1, <1>3 DEF HasSaved, n
  <1>9. ModesKnown(sv) /\ s.mode # "unknown" => ModesKnown(w)
    BY <1>1, <1>2 DEF ModesKnown, n
  <1>10. QED
    BY <1>1, <1>7, <1>8, <1>9 DEF w, n

LEMMA SavedIs ==
  ASSUME saved \in Seq(Snapshots), NEW p
  PROVE  IsSaved(p) <=> HasSaved(saved, p)
  BY DEF IsSaved, HasSaved

\* A file without a snapshot gets the one of what it was.
LEMMA SnapshotTells ==
  ASSUME before \in Disks, NEW p \in Paths, disk[p] = before[p]
  PROVE  /\ SnapshotOf(p) = Original(p) /\ SnapshotOf(p) \in Snapshots
         /\ SnapshotOf(p).path = p /\ Tells(SnapshotOf(p))
         /\ SnapshotOf(p).mode # "unknown"
  <1>1. SnapshotOf(p) = Original(p)
    BY DEF SnapshotOf, Original
  <1>2. QED
    BY <1>1, OriginalIs DEF Tells

\* The snapshots once path p is among them.
LEMMA SavedWithTells ==
  ASSUME before \in Disks, Saves(saved), Unchanged(saved), NEW p \in Writable
  PROVE  /\ Saves(SavedWith(p)) /\ Unchanged(SavedWith(p))
         /\ HasSaved(SavedWith(p), p)
         /\ Len(saved) <= Len(SavedWith(p))
         /\ ModesKnown(saved) =>
              /\ ModesKnown(SavedWith(p))
              /\ SavedMode(SavedWith(p), p) = Original(p).mode
  <1> DEFINE w == SavedWith(p)
  <1>1. p \in Paths /\ saved \in Seq(Snapshots)
    BY SandboxAssumptions DEF Saves
  <1>2. /\ Saves(w) /\ HasSaved(w, p) /\ Len(saved) <= Len(w)
        /\ \A q : HasSaved(saved, q) => HasSaved(w, q)
        /\ ModesKnown(saved) => ModesKnown(w)
    <2>1. CASE IsSaved(p)
      BY <2>1, <1>1, SavedIs DEF SavedWith
    <2>2. CASE ~IsSaved(p)
      <3>1. ~HasSaved(saved, p) /\ disk[p] = before[p]
        BY <2>2, <1>1, SavedIs DEF Unchanged
      <3>2. /\ SnapshotOf(p) \in Snapshots /\ SnapshotOf(p).path = p
            /\ Tells(SnapshotOf(p)) /\ SnapshotOf(p).mode # "unknown"
        BY <1>1, <3>1, SnapshotTells
      <3>3. w = Append(saved, SnapshotOf(p))
        BY <2>2 DEF SavedWith
      <3>4. /\ Saves(w) /\ Len(w) = Len(saved) + 1
            /\ HasSaved(w, p)
            /\ \A q : HasSaved(saved, q) => HasSaved(w, q)
            /\ ModesKnown(saved) => ModesKnown(w)
        BY <3>1, <3>2, <3>3, SavesAppended
      <3>5. QED
        BY <3>4, <1>1
    <2>3. QED
      BY <2>1, <2>2
  <1>3. Unchanged(w)
    BY <1>2 DEF Unchanged
  <1>4. ASSUME ModesKnown(saved) PROVE SavedMode(w, p) = Original(p).mode
    <2> HIDE DEF w
    <2> DEFINE all == {w[i] : i \in DOMAIN w}
    <2>1. PICK i \in 1 .. Len(w) : w[i].path = p
      BY <1>2 DEF HasSaved
    <2>2. DOMAIN w = 1 .. Len(w) /\ \A j \in 1 .. Len(w) : w[j] \in Snapshots
      BY <1>2 DEF Saves
    <2>3. \A s \in all : s.path = p => s = w[i]
      BY <2>1, <2>2, <1>2 DEF Saves
    <2>4. w[i] \in all
      BY <2>1, <2>2
    <2>5. w[i].mode # "unknown" /\ Tells(w[i]) /\ w[i] \in Snapshots
      BY <1>2, <1>4, <2>2 DEF ModesKnown, Saves
    <2>6. w[i] = Original(p)
      BY <2>1, <2>5, TellsIs
    <2> HIDE DEF all
    <2>7. (CHOOSE s \in all : s.path = p) = w[i]
      BY <2>1, <2>3, <2>4
    <2>8. QED
      BY <2>6, <2>7 DEF SavedMode, all
  <1>5. QED
    BY <1>2, <1>3, <1>4

-----------------------------------------------------------------------------
(* What an action does to the files.                                       *)

\* Files and snapshots, between any two steps.
Kept == disk \in Disks /\ Saves(saved) /\ Unchanged(saved) /\ FilesAreWhole

\* A file as the executor leaves it: new content, the mode it had.
Rewritten(p, content) ==
  [content |-> content, mode |-> IF before[p] = None THEN Private ELSE before[p].mode]

LEMMA SavesStay ==
  ASSUME NEW sv, Saves(sv), before' = before
  PROVE  Saves(sv)'
  BY DEF Saves, Tells, Original

LEMMA RewrittenIs ==
  ASSUME before \in Disks, NEW p \in Paths, NEW content \in Contents
  PROVE  /\ Rewritten(p, content) \in Files
         /\ Rewritten(p, content).content = content
         /\ before[p] # None => Rewritten(p, content).mode = before[p].mode
  <1>1. Private \in Modes
    BY SandboxAssumptions
  <1>2. CASE before[p] = None
    BY <1>1, <1>2 DEF Rewritten, Files
  <1>3. CASE before[p] # None
    <2>1. before[p] \in Files
      BY <1>3 DEF Disks
    <2>2. QED
      BY <1>3, <2>1 DEF Rewritten, Files
  <1>4. QED
    BY <1>2, <1>3

\* A file is replaced once its snapshot is among the ones taken.
LEMMA WrittenKeeps ==
  ASSUME before \in Disks, Kept, ModesKnown(saved), NEW p, NEW content \in Contents,
         Written(p, content), before' = before
  PROVE  /\ Kept' /\ ModesKnown(saved')
         /\ disk' = [disk EXCEPT ![p] = Rewritten(p, content)]
  <1>1. /\ p \in Writable /\ p \in Paths /\ content \notin Large
        /\ saved' = SavedWith(p)
    BY SandboxAssumptions DEF Written, CanWrite
  <1>2. /\ Saves(saved') /\ Unchanged(saved') /\ HasSaved(saved', p)
        /\ ModesKnown(saved')
        /\ SavedMode(saved', p) = Original(p).mode
    BY <1>1, SavedWithTells DEF Kept
  <1>3. disk' = [disk EXCEPT ![p] = Rewritten(p, content)]
    <2> DEFINE mode == SavedMode(saved', p)
    <2>1. disk' = [disk EXCEPT ![p] = [content |-> content,
                     mode |-> IF mode = None THEN Private ELSE mode]]
      BY <1>1 DEF Written, Replace
    <2>2. mode = None <=> before[p] = None
      BY <1>1, <1>2, OriginalIs
    <2>3. before[p] # None => mode = before[p].mode
      BY <1>1, <1>2, OriginalIs
    <2> HIDE DEF mode
    <2>4. QED
      BY <2>1, <2>2, <2>3 DEF Rewritten
  <1>4. /\ Rewritten(p, content) \in Files
        /\ Rewritten(p, content).content = content
        /\ before[p] # None => Rewritten(p, content).mode = before[p].mode
    BY <1>1, RewrittenIs
  <1>5. /\ disk' \in Disks /\ disk'[p] = Rewritten(p, content)
        /\ \A q \in Paths : q # p => disk'[q] = disk[q]
    <2>1. disk \in Disks
      BY DEF Kept
    <2>2. QED
      BY <1>1, <1>3, <1>4, <2>1 DEF Disks
  <1>6. Saves(saved)'
    BY <1>2, SavesStay DEF Saves, Tells, Original
  <1>7. Unchanged(saved)'
    BY <1>2, <1>5 DEF Unchanged, HasSaved
  <1>8. FilesAreWhole'
    <2>1. disk'[p] # None
      BY <1>4, <1>5, SandboxAssumptions
    <2>2. QED
      BY <1>1, <1>4, <1>5, <2>1 DEF Kept, FilesAreWhole
  <1>9. QED
    BY <1>2, <1>3, <1>5, <1>6, <1>7, <1>8 DEF Kept

\* A write that raises may have taken a snapshot, or even replaced the file.
LEMMA RaisedKeeps ==
  ASSUME before \in Disks, Kept, ModesKnown(saved), NEW p \in Paths,
         NEW content \in Contents, WriteRaises(p, content), before' = before
  PROVE  Kept' /\ ("stat" \notin Faults => ModesKnown(saved'))
  <1>1. CASE WriteRefused(p, content)
    BY <1>1 DEF WriteRefused, Kept, Saves, Tells, Original, Unchanged, HasSaved,
                FilesAreWhole, ModesKnown
  <1>2. CASE StatFails(p, content)
    <2> DEFINE s == [SnapshotOf(p) EXCEPT !.mode = "unknown"]
    <2>1. /\ "stat" \in Faults /\ p \in Writable
          /\ ~IsSaved(p) /\ disk' = disk /\ saved' = Append(saved, s)
      BY <1>2 DEF StatFails, CanWrite
    <2>2. saved \in Seq(Snapshots) /\ ~HasSaved(saved, p) /\ disk[p] = before[p]
      BY <2>1, SavedIs DEF Kept, Saves, Unchanged
    <2>3. /\ SnapshotOf(p) = Original(p) /\ SnapshotOf(p) \in Snapshots
          /\ SnapshotOf(p).path = p
      BY <2>2, SnapshotTells
    <2>4. s \in Snapshots /\ s.path = p /\ s = [Original(s.path) EXCEPT !.mode = "unknown"]
      BY <2>3 DEF Snapshots
    <2>5. Tells(s)
      BY <2>4 DEF Tells
    <2> HIDE DEF s
    <2>6. /\ Saves(saved')
          /\ \A q : HasSaved(saved, q) => HasSaved(saved', q)
      BY <2>1, <2>2, <2>4, <2>5, SavesAppended DEF Kept
    <2>7. Saves(saved)'
      BY <2>6, SavesStay DEF Saves, Tells, Original
    <2>8. Unchanged(saved)'
      BY <2>1, <2>6 DEF Kept, Unchanged, HasSaved
    <2>9. disk' \in Disks /\ FilesAreWhole'
      BY <2>1 DEF Kept, FilesAreWhole
    <2>10. QED
      BY <2>1, <2>7, <2>8, <2>9 DEF Kept
  <1>3. CASE ReplaceFails(p, content)
    <2>1. saved' = SavedWith(p) /\ disk' = disk /\ p \in Writable
      BY <1>3 DEF ReplaceFails, CanWrite
    <2>2. /\ Saves(saved') /\ Unchanged(saved') /\ ModesKnown(saved')
      BY <2>1, SavedWithTells DEF Kept
    <2>3. Saves(saved)'
      BY <2>2, SavesStay DEF Saves, Tells, Original
    <2>4. Unchanged(saved)'
      BY <2>1, <2>2 DEF Unchanged, HasSaved
    <2>5. disk' \in Disks /\ FilesAreWhole'
      BY <2>1 DEF Kept, FilesAreWhole
    <2>6. QED
      BY <2>2, <2>3, <2>4, <2>5 DEF Kept
  <1>4. CASE SyncFails(p, content)
    BY <1>4, WrittenKeeps DEF SyncFails
  <1>5. QED
    BY <1>1, <1>2, <1>3, <1>4 DEF WriteRaises

LEMMA CurrentIs ==
  ASSUME ExecTypeOK, Running
  PROVE  /\ Current \in Actions /\ Len(exec.results) + 1 \in 1 .. Len(plan)
         /\ plan \in Seq(Actions) /\ exec.results \in Seq(BOOLEAN)
         /\ Current = plan[Len(exec.results) + 1]
  <1>1. plan \in Seq(Actions) /\ exec.results \in Seq(BOOLEAN)
    BY ExecutorAssumptions DEF ExecTypeOK, Executions
  <1>2. Len(exec.results) + 1 \in 1 .. Len(plan)
    BY <1>1 DEF Running
  <1>3. QED
    BY <1>1, <1>2 DEF Current

\* What a capability writes is a content.
LEMMA OutputIs ==
  ASSUME disk \in Disks, NEW a \in Actions, Output(a) # None,
         a.capability = "patch_toml" => CanRead(a.path)
  PROVE  Output(a) \in Contents
  <1>1. CASE a.capability = "patch_toml"
    <2>1. disk[a.path] \in Files
      BY <1>1 DEF CanRead, Disks, Actions
    <2>2. Patched[disk[a.path].content] \in Contents \cup {None}
      BY <2>1, ExecutorAssumptions DEF Files
    <2>3. QED
      BY <1>1, <2>2 DEF Output
  <1>2. CASE a.capability # "patch_toml"
    BY <1>2 DEF Output, Actions
  <1>3. QED
    BY <1>1, <1>2

\* An action that succeeds has the effect it promises.
LEMMA SucceedsKeeps ==
  ASSUME before \in Disks, Kept, ModesKnown(saved), NEW a \in Actions,
         Succeeds(a), before' = before
  PROVE  Kept' /\ ModesKnown(saved') /\ disk' = After(a, disk)
  <1>1. CASE a.capability = "read_text"
    <2>1. UNCHANGED <<disk, saved>>
      BY <1>1 DEF Succeeds
    <2>2. Kept' /\ ModesKnown(saved')
      BY <2>1 DEF Kept, Saves, Tells, Original, Unchanged, HasSaved, FilesAreWhole,
                  ModesKnown
    <2>3. QED
      BY <1>1, <2>1, <2>2 DEF After
  <1>2. CASE a.capability # "read_text"
    <2>1. /\ Output(a) # None /\ Written(a.path, Output(a))
          /\ a.capability = "patch_toml" => CanRead(a.path)
      BY <1>2 DEF Succeeds
    <2>2. Output(a) \in Contents
      BY <2>1, OutputIs DEF Kept
    <2>3. /\ Kept' /\ ModesKnown(saved')
          /\ disk' = [disk EXCEPT ![a.path] = Rewritten(a.path, Output(a))]
      BY <2>1, <2>2, WrittenKeeps
    <2>4. QED
      BY <1>2, <2>3, Zenon DEF After, Rewritten, Output
  <1>3. QED
    BY <1>1, <1>2

LEMMA FailsKeeps ==
  ASSUME before \in Disks, Kept, ModesKnown(saved), NEW a \in Actions,
         FailsToRead(a) \/ FailsToWrite(a), before' = before
  PROVE  Kept' /\ ("stat" \notin Faults => ModesKnown(saved'))
  <1>1. CASE FailsToRead(a)
    BY <1>1 DEF FailsToRead, Kept, Saves, Tells, Original, Unchanged, HasSaved,
                FilesAreWhole, ModesKnown
  <1>2. CASE FailsToWrite(a)
    <2>1. /\ Output(a) # None /\ WriteRaises(a.path, Output(a))
          /\ a.capability = "patch_toml" => CanRead(a.path)
      BY <1>2 DEF FailsToWrite
    <2>2. Output(a) \in Contents /\ a.path \in Paths
      BY <2>1, OutputIs DEF Kept, Actions
    <2>3. QED
      BY <2>1, <2>2, RaisedKeeps
  <1>3. QED
    BY <1>1, <1>2

\* One more action has had its effect.
LEMMA EffectGrows ==
  ASSUME ExecTypeOK, NEW n \in Nat, Effect(n), disk' \in Disks,
         disk' = After(plan[n + 1], disk), UNCHANGED <<plan, before>>
  PROVE  Effect(n + 1)'
  <1>1. PICK d \in [0 .. n -> Disks] :
               /\ d[0] = before /\ d[n] = disk
               /\ \A i \in 1 .. n : d[i] = After(plan[i], d[i - 1])
    BY DEF Effect
  <1> DEFINE e == [i \in 0 .. n + 1 |-> IF i = n + 1 THEN disk' ELSE d[i]]
  <1>2. /\ e \in [0 .. n + 1 -> Disks]
        /\ \A i \in 0 .. n : e[i] = d[i]
        /\ e[n + 1] = disk'
    BY <1>1
  <1> HIDE DEF e
  <1>3. \A i \in 1 .. n + 1 : e[i] = After(plan[i], e[i - 1])
    <2>1. \A i \in 1 .. n + 1 : i \in 1 .. n \/ i = n + 1
      OBVIOUS
    <2>2. \A i \in 1 .. n : e[i] = After(plan[i], e[i - 1])
      <3>1. \A i \in 1 .. n : i \in 0 .. n /\ i - 1 \in 0 .. n
        OBVIOUS
      <3>2. QED
        BY <1>1, <1>2, <3>1
    <2>3. e[n + 1] = After(plan[n + 1], e[n])
      BY <1>1, <1>2
    <2>4. (n + 1) - 1 = n
      OBVIOUS
    <2>5. QED
      BY <2>1, <2>2, <2>3, <2>4
  <1>4. \A a, f : After(a, f)' = After(a, f)
    BY DEF After
  <1>5. e[0] = before' /\ e[n + 1] = disk'
    BY <1>1, <1>2
  <1>6. QED
    BY <1>2, <1>3, <1>4, <1>5 DEF Effect

-----------------------------------------------------------------------------
(* The steps before a failure.                                             *)

LEMMA EffectStays ==
  ASSUME NEW n, Effect(n), disk' = disk, plan' = plan, before' = before
  PROVE  Effect(n)'
  <1>1. \A a, f : After(a, f)' = After(a, f)
    BY DEF After
  <1>2. QED
    BY <1>1 DEF Effect

\* Nothing but where execution is, and what it returns, changes.
LEMMA KeptStays ==
  ASSUME UNCHANGED <<disk, saved, before>>, SavedInv, FilesAreWhole
  PROVE  /\ FilesAreWhole' /\ Saves(saved)' /\ Unchanged(saved)'
         /\ ModesKnown(saved) => ModesKnown(saved)'
  BY DEF SavedInv, Saves, Tells, Original, Unchanged, HasSaved, FilesAreWhole, ModesKnown

\* The execution returns a failure or raises, and nothing else changes.
LEMMA FailureKeeps ==
  ASSUME ExecInv, exec.pc \in {"authorize", "failed"},
         NEW r \in Seq(BOOLEAN), NEW b \in BOOLEAN,
         ReturnOrRaise(FailureReport(r, b)),
         disk # before => "stat" \in Faults \/ (tx.errors /\ ~b),
         UNCHANGED <<disk, saved, tx, before, plan>>
  PROVE  ExecInv'
  <1> DEFINE report == FailureReport(r, b)
  <1>1. report \in Reports /\ ~report.success /\ report.rolledBack = b
    BY DEF FailureReport, Reports
  <1>2. exec \in Executions /\ exec.report = None
    BY DEF ExecInv, ExecTypeOK, ResultsInv
  <1>3. \/ exec' = [exec EXCEPT !.pc = "returned", !.report = report]
        \/ exec' = [exec EXCEPT !.pc = "raised"]
    BY DEF ReturnOrRaise
  <1> HIDE DEF report
  <1>4. /\ exec' \in Executions
        /\ \/ exec'.pc = "returned" /\ exec'.report = report
           \/ exec'.pc = "raised" /\ exec'.report = None
    BY <1>1, <1>2, <1>3 DEF Executions, Steps
  <1>5. ExecTypeOK'
    BY <1>4 DEF ExecInv, ExecTypeOK
  <1>6. SavedInv' /\ FilesAreWhole'
    BY <1>4, KeptStays DEF ExecInv, SavedInv, Forward
  <1>7. TxInv'
    BY <1>4 DEF ExecInv, TxInv, Forward
  <1>8. ResultsInv'
    BY <1>1, <1>4, ExecutorAssumptions DEF ResultsInv, Forward
  <1>9. SuccessTellsTheDisk'
    BY <1>1, <1>4 DEF SuccessTellsTheDisk
  <1>10. UndoneInv'
    BY <1>1, <1>4 DEF UndoneInv, FailureIsUndone, RaisedHasTheEffect, At
  <1>11. QED
    BY <1>5, <1>6, <1>7, <1>8, <1>9, <1>10 DEF ExecInv

\* Another step is reached, without a report.
LEMMA ForwardKeeps ==
  ASSUME ExecInv, exec.pc \in Forward, exec' \in Executions, exec'.report = None,
         exec'.pc \in {"run", "committed"},
         exec'.pc = "committed" => Len(exec'.results) = Len(plan),
         Len(exec'.results) <= Len(plan),
         \A i \in 1 .. Len(exec'.results) : exec'.results[i] = TRUE,
         Effect(Len(exec.results))',
         Kept', ModesKnown(saved'), Len(saved) <= Len(saved'),
         tx' \in Transactions, tx'.left = tx.left,
         tx'.errors = tx.errors, tx'.rolledBack = tx.rolledBack,
         UNCHANGED <<before, plan>>
  PROVE  ExecInv'
  <1>1. saved' \in Seq(Snapshots) /\ saved \in Seq(Snapshots) /\ tx.left \in Nat
    BY DEF Kept, Saves, ExecInv, SavedInv, ExecTypeOK, Transactions
  <1>2. TxInv'
    BY <1>1 DEF ExecInv, TxInv, Forward
  <1>3. ExecTypeOK'
    BY <1>1, <1>2 DEF ExecInv, ExecTypeOK, Kept, TxInv
  <1>4. SavedInv' /\ FilesAreWhole'
    BY DEF SavedInv, Kept, ModesKnown
  <1>5. ResultsInv'
    BY DEF ResultsInv, Forward
  <1>6. SuccessTellsTheDisk' /\ UndoneInv'
    BY DEF SuccessTellsTheDisk, UndoneInv, FailureIsUndone, RaisedHasTheEffect, At
  <1>7. QED
    BY <1>2, <1>3, <1>4, <1>5, <1>6 DEF ExecInv

LEMMA PreflightKeeps ==
  ASSUME ExecInv, PreflightRejected \/ PreflightAuthorized
  PROVE  ExecInv'
  <1>0. /\ exec.pc = "authorize" /\ exec.pc \in Forward
        /\ UNCHANGED <<disk, saved, tx, before, plan>>
        /\ exec \in Executions /\ exec.report = None
        /\ disk = before /\ <<>> \in Seq(BOOLEAN)
        /\ Len(exec.results) <= Len(plan)
        /\ \A i \in 1 .. Len(exec.results) : exec.results[i] = TRUE
        /\ Effect(Len(exec.results))
    <2>1. exec.pc = "authorize" /\ UNCHANGED <<disk, saved, tx, before, plan>>
      BY DEF PreflightRejected, PreflightAuthorized, At
    <2>2. exec.pc \in Forward /\ exec \in Executions /\ <<>> \in Seq(BOOLEAN)
      BY <2>1 DEF ExecInv, ExecTypeOK, Forward
    <2>3. disk = before /\ exec.report = None
      BY <2>1 DEF ExecInv, ResultsInv
    <2>4. /\ Len(exec.results) <= Len(plan)
          /\ \A i \in 1 .. Len(exec.results) : exec.results[i] = TRUE
          /\ Effect(Len(exec.results))
      BY <2>2 DEF ExecInv, ResultsInv
    <2>5. QED
      BY <2>1, <2>2, <2>3, <2>4
  <1>1. CASE PreflightRejected
    BY <1>0, <1>1, FailureKeeps DEF PreflightRejected
  <1>2. CASE exec' = [exec EXCEPT !.pc = "run"]
    <2>1. /\ exec' \in Executions /\ exec'.pc = "run" /\ exec'.report = None
          /\ exec'.results = exec.results
      BY <1>0, <1>2 DEF Executions, Steps
    <2>2. Effect(Len(exec.results))'
      <3>1. PICK n : n = Len(exec.results)
        OBVIOUS
      <3>2. Effect(n)'
        BY <1>0, <3>1, EffectStays
      <3>3. n = Len(exec'.results)
        BY <2>1, <3>1
      <3>4. QED
        BY <3>2, <3>3 DEF Effect
    <2>3. Kept' /\ ModesKnown(saved') /\ Len(saved) <= Len(saved')
          /\ tx' \in Transactions
      <3>1. disk' \in Disks /\ tx' \in Transactions /\ saved \in Seq(Snapshots)
            /\ ModesKnown(saved)
        BY <1>0 DEF ExecInv, ExecTypeOK, SavedInv
      <3>2. QED
        BY <1>0, <3>1, KeptStays DEF ExecInv, Kept, ModesKnown
    <2>4. QED
      BY <1>0, <2>1, <2>2, <2>3, ForwardKeeps
  <1>3. CASE exec' = [exec EXCEPT !.pc = "raised"]
    <2>1. exec' \in Executions /\ exec'.pc = "raised" /\ exec'.report = None
      BY <1>0, <1>3 DEF Executions, Steps
    <2>2. ExecTypeOK'
      BY <1>0, <2>1 DEF ExecInv, ExecTypeOK
    <2>3. SavedInv' /\ FilesAreWhole'
      BY <1>0, <2>1, KeptStays DEF ExecInv, SavedInv, Forward
    <2>4. TxInv'
      BY <1>0, <2>1 DEF ExecInv, TxInv, Forward
    <2>5. ResultsInv' /\ SuccessTellsTheDisk'
      BY <2>1 DEF ResultsInv, Forward, SuccessTellsTheDisk
    <2>6. UndoneInv'
      BY <1>0, <2>1 DEF UndoneInv, FailureIsUndone, RaisedHasTheEffect, At
    <2>7. QED
      BY <2>2, <2>3, <2>4, <2>5, <2>6 DEF ExecInv
  <1>4. QED
    BY <1>1, <1>2, <1>3 DEF PreflightAuthorized

LEMMA RunIs ==
  ASSUME ExecInv, exec.pc = "run"
  PROVE  /\ exec.pc \in Forward /\ exec \in Executions /\ exec.report = None
         /\ exec.results \in Seq(BOOLEAN) /\ plan \in Seq(Actions)
         /\ Len(exec.results) \in Nat /\ Len(exec.results) <= Len(plan)
         /\ \A i \in 1 .. Len(exec.results) : exec.results[i] = TRUE
         /\ Effect(Len(exec.results))
         /\ before \in Disks /\ Kept /\ ModesKnown(saved)
         /\ tx \in Transactions /\ ~tx.errors /\ ~tx.rolledBack
  <1>1. exec.pc \in Forward /\ exec \in Executions
    BY DEF Forward, ExecInv, ExecTypeOK
  <1>2. exec.report = None
    BY DEF ExecInv, ResultsInv
  <1>3. plan \in Seq(Actions) /\ exec.results \in Seq(BOOLEAN)
    BY <1>1, ExecutorAssumptions DEF ExecInv, ExecTypeOK, Executions
  <1>4. /\ Len(exec.results) <= Len(plan)
        /\ \A i \in 1 .. Len(exec.results) : exec.results[i] = TRUE
        /\ Effect(Len(exec.results))
    BY <1>1 DEF ExecInv, ResultsInv
  <1>5. before \in Disks /\ Kept /\ ModesKnown(saved) /\ tx \in Transactions
        /\ ~tx.errors /\ ~tx.rolledBack
    BY <1>1 DEF ExecInv, ExecTypeOK, SavedInv, Kept, TxInv
  <1>6. QED
    BY <1>1, <1>2, <1>3, <1>4, <1>5

LEMMA ActionSucceedsKeeps ==
  ASSUME ExecInv, ActionSucceeds
  PROVE  ExecInv'
  <1> DEFINE r == Append(exec.results, TRUE)
  <1>a. PICK n : n = Len(exec.results)
    OBVIOUS
  <1>0. /\ Running /\ exec.pc = "run" /\ Succeeds(Current)
        /\ exec' = [exec EXCEPT !.results = r]
        /\ UNCHANGED <<tx, before, plan>>
    BY DEF ActionSucceeds, Running, At
  <1>1. /\ Current \in Actions /\ n + 1 \in 1 .. Len(plan) /\ Current = plan[n + 1]
    BY <1>0, <1>a, CurrentIs DEF ExecInv
  <1>2. /\ exec.pc \in Forward /\ exec \in Executions /\ exec.report = None
        /\ exec.results \in Seq(BOOLEAN) /\ n \in Nat
        /\ \A i \in 1 .. n : exec.results[i] = TRUE
        /\ Effect(n) /\ before \in Disks /\ Kept /\ ModesKnown(saved)
        /\ tx \in Transactions
    BY <1>0, <1>a, RunIs
  <1>3. Kept' /\ ModesKnown(saved') /\ disk' = After(Current, disk)
    BY <1>0, <1>1, <1>2, SucceedsKeeps
  <1>4. /\ r \in Seq(BOOLEAN) /\ Len(r) = n + 1
        /\ \A i \in 1 .. n : r[i] = exec.results[i]
        /\ r[n + 1] = TRUE
    <2>1. TRUE \in BOOLEAN
      OBVIOUS
    <2>2. QED
      BY <1>2, <1>a, <2>1, Noted, Zenon
  <1> HIDE DEF r
  <1>5. \A i \in 1 .. n + 1 : r[i] = TRUE
    <2>1. \A i \in 1 .. n + 1 : i \in 1 .. n \/ i = n + 1
      BY <1>2
    <2>2. QED
      BY <1>2, <1>4, <2>1
  <1>6. /\ exec' \in Executions /\ exec'.pc = "run" /\ exec'.report = None
        /\ exec'.results = r
    BY <1>0, <1>2, <1>4 DEF Executions, Steps
  <1>7. Effect(n + 1)'
    BY <1>0, <1>1, <1>2, <1>3, EffectGrows DEF Kept, ExecInv
  <1>8. Effect(Len(exec.results))'
    <2>1. n + 1 = Len(exec'.results)
      BY <1>4, <1>6
    <2>2. QED
      BY <1>7, <2>1 DEF Effect
  <1>9. Len(saved) <= Len(saved')
    <2>1. saved' = saved \/ saved' = SavedWith(Current.path)
      BY <1>0 DEF Succeeds, Written
    <2>2. ASSUME saved' = SavedWith(Current.path) PROVE Len(saved) <= Len(saved')
      <3>1. CASE Current.capability = "read_text"
        BY <1>0, <3>1, <1>2 DEF Succeeds, Kept, Saves
      <3>2. CASE Current.capability # "read_text"
        <4>1. Current.path \in Writable
          BY <1>0, <3>2 DEF Succeeds, Written, CanWrite
        <4>2. QED
          BY <1>2, <2>2, <4>1, SavedWithTells DEF Kept
      <3>3. QED
        BY <3>1, <3>2
    <2>3. Len(saved) \in Nat
      BY <1>2 DEF Kept, Saves
    <2>4. QED
      BY <2>1, <2>2, <2>3
  <1>10. n + 1 <= Len(plan)
    BY <1>1
  <1>11. QED
    BY <1>0, <1>2, <1>3, <1>4, <1>5, <1>6, <1>8, <1>9, <1>10, ForwardKeeps

-----------------------------------------------------------------------------
(* A failure, and the rollback.                                            *)

LEMMA RollbackBegins ==
  ASSUME ExecInv, exec.pc = "run", Kept', "stat" \notin Faults => ModesKnown(saved'),
         NEW r \in Seq(BOOLEAN), RollBackWith(r), UNCHANGED <<before, plan>>
  PROVE  ExecInv'
  <1>1. /\ exec \in Executions /\ exec.report = None
        /\ tx \in Transactions /\ ~tx.errors /\ ~tx.rolledBack
        /\ before \in Disks
    BY RunIs
  <1>2. saved' \in Seq(Snapshots) /\ Len(saved') \in Nat
    BY DEF Kept, Saves
  <1>3. /\ exec' \in Executions /\ exec'.pc = "rollback" /\ exec'.report = None
    BY <1>1 DEF RollBackWith, Executions, Steps
  <1>4. /\ tx' \in Transactions /\ tx'.left = Len(saved')
        /\ ~tx'.errors /\ ~tx'.rolledBack
    BY <1>1, <1>2 DEF RollBackWith, StartRollback, Transactions
  <1>5. ExecTypeOK'
    BY <1>1, <1>2, <1>3, <1>4 DEF ExecInv, ExecTypeOK, Kept
  <1>6. SavedInv' /\ FilesAreWhole'
    BY <1>3 DEF SavedInv, Kept, ModesKnown, Forward
  <1>7. TxInv'
    <2>1. \A i \in Len(saved') + 1 .. Len(saved') : FALSE
      BY <1>2
    <2>2. QED
      BY <1>2, <1>3, <1>4, <2>1 DEF TxInv, Forward
  <1>8. ResultsInv' /\ SuccessTellsTheDisk' /\ UndoneInv'
    BY <1>3 DEF ResultsInv, SuccessTellsTheDisk, UndoneInv, FailureIsUndone,
                RaisedHasTheEffect, At, Forward
  <1>9. QED
    BY <1>5, <1>6, <1>7, <1>8 DEF ExecInv

\* Nothing but the step changes: what is kept stays kept.
LEMMA IdleKeeps ==
  ASSUME ExecInv, exec.pc = "run", UNCHANGED <<disk, saved, before>>
  PROVE  Kept' /\ ModesKnown(saved')
  <1>1. Kept /\ ModesKnown(saved)
    BY RunIs
  <1>2. QED
    BY <1>1 DEF Kept, Saves, Tells, Original, Unchanged, HasSaved, FilesAreWhole,
                ModesKnown

LEMMA ActionFailsKeeps ==
  ASSUME ExecInv, ActionFails \/ ActionUntold
  PROVE  ExecInv'
  <1>0. /\ Running /\ exec.pc = "run" /\ UNCHANGED <<before, plan>>
    BY DEF ActionFails, ActionUntold, Running, At
  <1>1. /\ exec.results \in Seq(BOOLEAN)
        /\ before \in Disks /\ Kept /\ ModesKnown(saved)
    BY <1>0, RunIs
  <1>2. Current \in Actions
    BY <1>0, CurrentIs DEF ExecInv
  <1>3. /\ Append(exec.results, TRUE) \in Seq(BOOLEAN)
        /\ Append(exec.results, FALSE) \in Seq(BOOLEAN)
    <2>1. TRUE \in BOOLEAN /\ FALSE \in BOOLEAN
      OBVIOUS
    <2>2. QED
      BY <1>1, <2>1, Noted, Zenon
  <1>4. CASE ActionFails
    <2>1. Kept' /\ ("stat" \notin Faults => ModesKnown(saved'))
      BY <1>0, <1>1, <1>2, <1>4, FailsKeeps DEF ActionFails
    <2>2. RollBackWith(Append(exec.results, FALSE))
      BY <1>4 DEF ActionFails
    <2>3. QED
      BY <1>0, <1>3, <2>1, <2>2, RollbackBegins
  <1>5. CASE ActionUntold
    <2>1. CASE UNCHANGED <<disk, saved>> /\ RollBackWith(exec.results)
      BY <1>0, <1>1, <2>1, IdleKeeps, RollbackBegins
    <2>2. CASE Succeeds(Current) /\ RollBackWith(Append(exec.results, TRUE))
      <3>1. Kept' /\ ModesKnown(saved')
        BY <1>0, <1>1, <1>2, <2>2, SucceedsKeeps
      <3>2. QED
        BY <1>0, <1>3, <2>2, <3>1, RollbackBegins
    <2>3. QED
      BY <1>5, <2>1, <2>2 DEF ActionUntold
  <1>6. QED
    BY <1>4, <1>5

LEMMA CommitKeeps ==
  ASSUME ExecInv, CommitPlan \/ CommitRaises
  PROVE  ExecInv'
  <1>0. /\ exec.pc = "run" /\ Len(exec.results) = Len(plan)
        /\ UNCHANGED <<disk, saved, before, plan>>
    BY DEF CommitPlan, CommitRaises, AllDone, At, Commit, CommitFails
  <1>1. /\ exec.pc \in Forward /\ exec \in Executions /\ exec.report = None
        /\ exec.results \in Seq(BOOLEAN)
        /\ Len(exec.results) \in Nat /\ Len(exec.results) <= Len(plan)
        /\ \A i \in 1 .. Len(exec.results) : exec.results[i] = TRUE
        /\ Effect(Len(exec.results))
        /\ Kept /\ tx \in Transactions
    BY <1>0, RunIs
  <1>2. Kept' /\ ModesKnown(saved')
    BY <1>0, IdleKeeps
  <1>3. CASE CommitPlan
    <2>1. /\ exec' \in Executions /\ exec'.pc = "committed" /\ exec'.report = None
          /\ exec'.results = exec.results
      BY <1>1, <1>3 DEF CommitPlan, Executions, Steps
    <2>2. /\ tx' \in Transactions /\ tx'.left = tx.left
          /\ tx'.errors = tx.errors /\ tx'.rolledBack = tx.rolledBack
      BY <1>1, <1>3 DEF CommitPlan, Commit, Transactions
    <2>3. Effect(Len(exec.results))'
      <3>1. PICK n : n = Len(exec.results)
        OBVIOUS
      <3>2. Effect(n)'
        BY <1>0, <1>1, <3>1, EffectStays
      <3>3. n = Len(exec'.results)
        BY <2>1, <3>1
      <3>4. QED
        BY <3>2, <3>3 DEF Effect
    <2>4. Len(saved) <= Len(saved')
      BY <1>0, <1>1 DEF Kept, Saves
    <2>5. QED
      BY <1>0, <1>1, <1>2, <2>1, <2>2, <2>3, <2>4, ForwardKeeps
  <1>4. CASE CommitRaises
    BY <1>0, <1>1, <1>2, <1>4, RollbackBegins DEF CommitRaises
  <1>5. QED
    BY <1>3, <1>4

\* A file is put back as it was.
LEMMA PutBackRestores ==
  ASSUME before \in Disks, Kept, NEW s \in Snapshots, s.path \in Writable, Tells(s),
         s.mode # "unknown", PutBack(s), UNCHANGED <<saved, before>>,
         HasSaved(saved, s.path)
  PROVE  /\ Kept' /\ disk'[s.path] = before[s.path]
         /\ \A q \in Paths : q # s.path => disk'[q] = disk[q]
  <1> DEFINE p == s.path
  <1>1. p \in Paths /\ disk \in Disks /\ before[p] \in Files \cup {None}
    BY SandboxAssumptions DEF Kept, Disks, Snapshots
  <1>2. s = Original(p)
    BY TellsIs
  <1>3. disk' = [disk EXCEPT ![p] = before[p]]
    <2>1. CASE before[p] = None
      <3>1. s.content = None
        BY <1>1, <1>2, <2>1, OriginalIs
      <3>2. QED
        BY <2>1, <3>1 DEF PutBack
    <2>2. CASE before[p] # None
      <3>1. /\ before[p] \in Files
            /\ s.content = before[p].content /\ s.content # None
            /\ s.mode = before[p].mode /\ s.mode # None
        BY <1>1, <1>2, <2>2, OriginalIs
      <3>2. disk' = [disk EXCEPT ![p] = [content |-> s.content, mode |-> s.mode]]
        BY <3>1 DEF PutBack, Replace
      <3>3. [content |-> s.content, mode |-> s.mode] = before[p]
        BY <3>1 DEF Files
      <3>4. QED
        BY <3>2, <3>3
    <2>3. QED
      BY <2>1, <2>2
  <1>4. /\ disk' \in Disks /\ disk'[p] = before[p]
        /\ \A q \in Paths : q # p => disk'[q] = disk[q]
    BY <1>1, <1>3 DEF Disks
  <1>5. Saves(saved)'
    BY DEF Kept, Saves, Tells, Original
  <1>6. Unchanged(saved)' /\ FilesAreWhole'
    BY <1>1, <1>4 DEF Kept, Unchanged, HasSaved, FilesAreWhole
  <1>7. QED
    BY <1>4, <1>5, <1>6 DEF Kept

LEMMA RollbackIs ==
  ASSUME ExecInv, exec.pc \in {"rollback", "failed"}
  PROVE  /\ exec \in Executions /\ exec.report = None
         /\ before \in Disks /\ Kept /\ ("stat" \notin Faults => ModesKnown(saved))
         /\ tx \in Transactions /\ tx.left <= Len(saved)
         /\ saved \in Seq(Snapshots) /\ Len(saved) \in Nat /\ tx.left \in Nat
  <1>1. exec \in Executions /\ before \in Disks /\ tx \in Transactions
    BY DEF ExecInv, ExecTypeOK
  <1>2. exec.report = None
    BY DEF ExecInv, ResultsInv
  <1>3. Kept /\ ("stat" \notin Faults => ModesKnown(saved))
    BY DEF ExecInv, ExecTypeOK, SavedInv, Kept
  <1>4. tx.left <= Len(saved)
    BY DEF ExecInv, TxInv
  <1>5. QED
    BY <1>1, <1>2, <1>3, <1>4 DEF Transactions, Kept, Saves

\* A rollback goes on, or ends.
LEMMA RollbackMoves ==
  ASSUME ExecInv, exec.pc = "rollback", Kept', TxInv',
         tx' \in Transactions, exec' \in Executions, exec'.report = None,
         exec'.pc \in {"rollback", "failed"},
         UNCHANGED <<saved, before, plan>>
  PROVE  ExecInv'
  <1>1. ExecTypeOK'
    BY DEF ExecInv, ExecTypeOK, Kept, TxInv
  <1>2. SavedInv' /\ FilesAreWhole'
    BY RollbackIs DEF SavedInv, Kept, ModesKnown, Forward
  <1>3. ResultsInv' /\ SuccessTellsTheDisk' /\ UndoneInv'
    BY DEF ResultsInv, SuccessTellsTheDisk, UndoneInv, FailureIsUndone,
           RaisedHasTheEffect, At, Forward
  <1>4. QED
    BY <1>1, <1>2, <1>3 DEF ExecInv

LEMMA RollbackStepKeeps ==
  ASSUME ExecInv, RollbackStep
  PROVE  ExecInv'
  <1> DEFINE n == tx.left
             s == saved[n]
  <1>0. /\ exec.pc = "rollback" /\ UNCHANGED <<before, plan, exec, saved>>
        /\ n > 0 /\ s.mode # "unknown"
        /\ RestoreNext \/ RestoreFails
    BY DEF RollbackStep, At, RestoreNext, RestoreFails
  <1>1. /\ exec \in Executions /\ exec.report = None /\ before \in Disks /\ Kept
        /\ tx \in Transactions /\ n <= Len(saved)
        /\ saved \in Seq(Snapshots) /\ Len(saved) \in Nat /\ n \in Nat
    BY <1>0, RollbackIs
  <1>2. n \in 1 .. Len(saved)
    BY <1>0, <1>1
  <1>3. /\ s \in Snapshots /\ s.path \in Writable /\ Tells(s)
        /\ HasSaved(saved, s.path)
    BY <1>1, <1>2 DEF Kept, Saves, HasSaved
  <1>4. /\ tx' \in Transactions /\ tx'.left = n - 1
        /\ tx'.rolledBack = tx.rolledBack
        /\ ~tx'.errors => ~tx.errors
    <2>1. CASE RestoreNext
      <3>1. tx' = [tx EXCEPT !.left = n - 1] /\ n - 1 \in Nat
        BY <1>0, <1>1, <2>1 DEF RestoreNext
      <3>2. QED
        BY <1>1, <2>1, <3>1 DEF Transactions
    <2>2. CASE RestoreFails
      <3>1. tx' = [tx EXCEPT !.left = n - 1, !.errors = TRUE] /\ n - 1 \in Nat
        BY <1>0, <1>1, <2>2 DEF RestoreFails
      <3>2. QED
        BY <1>1, <2>2, <3>1 DEF Transactions
    <2>3. QED
      BY <1>0, <2>1, <2>2
  <1>5. /\ tx.rolledBack = FALSE
        /\ ~tx.errors =>
             \A i \in n + 1 .. Len(saved) : disk[saved[i].path] = before[saved[i].path]
    BY <1>0 DEF ExecInv, TxInv
  <1>6. CASE PutBack(s)
    <2>1. /\ Kept' /\ disk'[s.path] = before[s.path]
          /\ \A q \in Paths : q # s.path => disk'[q] = disk[q]
      BY <1>0, <1>1, <1>3, <1>6, PutBackRestores
    <2>2. ASSUME ~tx.errors, NEW i \in n .. Len(saved)
          PROVE  disk'[saved[i].path] = before[saved[i].path]
      <3>1. CASE i = n
        BY <2>1, <3>1
      <3>2. CASE i # n
        <4>1. i \in n + 1 .. Len(saved) /\ i \in 1 .. Len(saved)
          BY <1>1, <1>2, <3>2
        <4>2. saved[i].path # s.path /\ saved[i].path \in Paths
          <5>1. saved[i] \in Snapshots
            BY <1>1, <4>1
          <5>2. saved[i].path = saved[n].path => i = n
            BY <1>1, <1>2, <4>1 DEF Kept, Saves
          <5>3. QED
            BY <3>2, <5>1, <5>2 DEF Snapshots
        <4>3. QED
          BY <1>5, <2>1, <2>2, <4>1, <4>2
      <3>3. QED
        BY <3>1, <3>2
    <2>3. (n - 1) + 1 = n
      BY <1>1
    <2>4. TxInv'
      <3>1. tx'.left <= Len(saved')
        BY <1>0, <1>1, <1>4
      <3>2. QED
        BY <1>0, <1>4, <1>5, <2>2, <2>3, <3>1 DEF TxInv, Forward
    <2>5. QED
      BY <1>0, <1>1, <1>4, <2>1, <2>4, RollbackMoves
  <1>7. CASE RestoreFails /\ UNCHANGED disk
    <2>1. Kept'
      BY <1>0, <1>1, <1>7 DEF Kept, Saves, Tells, Original, Unchanged, HasSaved,
                              FilesAreWhole
    <2>2. tx'.left <= Len(saved') /\ tx'.errors
      BY <1>0, <1>1, <1>4, <1>7 DEF RestoreFails, Transactions
    <2>3. TxInv'
      BY <1>0, <1>4, <1>5, <1>7, <2>2 DEF TxInv, Forward
    <2>4. QED
      BY <1>0, <1>1, <1>4, <2>1, <2>3, RollbackMoves
  <1>8. QED
    BY <1>0, <1>6, <1>7 DEF RestoreNext, RestoreFails

LEMMA RolledBackKeeps ==
  ASSUME ExecInv, RolledBack
  PROVE  ExecInv'
  <1>0. /\ exec.pc = "rollback" /\ UNCHANGED <<disk, saved, before, plan>>
        /\ tx.left # 0 => saved[tx.left].mode = "unknown"
        /\ tx' = [tx EXCEPT !.closed = TRUE, !.rolledBack = ~tx.errors]
        /\ exec' = [exec EXCEPT !.pc = "failed"]
    BY DEF RolledBack, At, RollbackEnds
  <1>1. /\ exec \in Executions /\ exec.report = None /\ before \in Disks /\ Kept
        /\ "stat" \notin Faults => ModesKnown(saved)
        /\ tx \in Transactions /\ tx.left <= Len(saved)
        /\ saved \in Seq(Snapshots) /\ Len(saved) \in Nat /\ tx.left \in Nat
    BY <1>0, RollbackIs
  <1>2. /\ tx' \in Transactions /\ tx'.left = tx.left
        /\ tx'.errors = tx.errors /\ tx'.rolledBack = ~tx.errors
    BY <1>0, <1>1 DEF Transactions
  <1>3. exec' \in Executions /\ exec'.pc = "failed" /\ exec'.report = None
    BY <1>0, <1>1 DEF Executions, Steps
  <1>4. Kept'
    BY <1>0, <1>1 DEF Kept, Saves, Tells, Original, Unchanged, HasSaved, FilesAreWhole
  <1>5. ASSUME ~tx.errors, "stat" \notin Faults
        PROVE  disk = before
    <2>1. tx.left = 0
      <3>1. tx.left # 0 => tx.left \in 1 .. Len(saved)
        BY <1>1
      <3>2. QED
        BY <1>0, <1>1, <1>5, <3>1 DEF ModesKnown
    <2>2. 0 + 1 = 1
      OBVIOUS
    <2>3. \A i \in 1 .. Len(saved) : disk[saved[i].path] = before[saved[i].path]
      BY <1>0, <1>5, <2>1, <2>2 DEF ExecInv, TxInv
    <2>4. \A p \in Paths : disk[p] = before[p]
      BY <1>1, <2>3 DEF Kept, Unchanged, HasSaved
    <2>5. QED
      BY <1>1, <2>4 DEF Kept, Disks
  <1>6. TxInv'
    <2>1. tx'.left <= Len(saved') /\ exec'.pc \notin Forward \cup {"rollback"}
      BY <1>0, <1>1, <1>2, <1>3 DEF Forward
    <2>2. tx'.rolledBack = ~tx'.errors
      BY <1>2, Zenon
    <2>3. tx'.rolledBack /\ "stat" \notin Faults => disk' = before'
      BY <1>0, <1>2, <1>5
    <2>4. QED
      BY <1>3, <2>1, <2>2, <2>3 DEF TxInv
  <1>7. QED
    BY <1>0, <1>2, <1>3, <1>4, <1>6, RollbackMoves

LEMMA ReportFailureKeeps ==
  ASSUME ExecInv, ReportFailure
  PROVE  ExecInv'
  <1>1. /\ exec.pc = "failed"
        /\ ReturnOrRaise(FailureReport(exec.results, tx.rolledBack))
        /\ UNCHANGED <<disk, saved, tx, before, plan>>
    BY DEF ReportFailure, At
  <1>2. exec.results \in Seq(BOOLEAN) /\ tx.rolledBack \in BOOLEAN
    BY <1>1, RollbackIs DEF Executions, Transactions
  <1>3. disk # before => "stat" \in Faults \/ (tx.errors /\ ~tx.rolledBack)
    BY <1>1 DEF ExecInv, TxInv
  <1>4. QED
    BY <1>1, <1>2, <1>3, FailureKeeps

-----------------------------------------------------------------------------
(* A successful end.                                                       *)

\* The change record of a snapshot.
RecordOf(s) ==
  [path |-> s.path, kind |-> IF s.content = None THEN "created" ELSE "modified",
   before |-> s.content, after |-> disk[s.path].content]

\* The change records are the difference between the disk before and after.
LEMMA ChangesAreTheDifference ==
  ASSUME before \in Disks, Kept, ModesKnown(saved)
  PROVE  Changes = Difference(before, disk)
  <1>1. /\ saved \in Seq(Snapshots) /\ DOMAIN saved = 1 .. Len(saved)
        /\ disk \in Disks
    BY DEF Kept, Saves
  <1>2. ASSUME NEW i \in 1 .. Len(saved)
        PROVE  LET s == saved[i]
               IN  /\ s.path \in Paths /\ s = Original(s.path)
                   /\ s.content \in Contents \cup {None}
    <2>1. saved[i] \in Snapshots /\ Tells(saved[i]) /\ saved[i].mode # "unknown"
      BY <1>1, <1>2 DEF Kept, Saves, ModesKnown
    <2>2. saved[i] = Original(saved[i].path)
      BY <2>1, TellsIs
    <2>3. QED
      BY <2>1, <2>2 DEF Snapshots
  <1>3. ASSUME NEW i \in 1 .. Len(saved),
               disk[saved[i].path] # None,
               disk[saved[i].path].content # saved[i].content
        PROVE  RecordOf(saved[i]) \in Difference(before, disk)
    <2> DEFINE s == saved[i]
               p == saved[i].path
               r == RecordOf(s)
    <2>1. p \in Paths /\ s = Original(p) /\ s.content \in Contents \cup {None}
      BY <1>2
    <2>2. disk[p] \in Files
      BY <1>1, <1>3, <2>1 DEF Disks
    <2>3. disk[p].content \in Contents
      BY <2>2 DEF Files
    <2>4. /\ before[p] = None => s.content = None
          /\ before[p] # None => s.content = before[p].content /\ s.content # None
      BY <2>1, OriginalIs
    <2>5. /\ r.path = p /\ r.before = s.content /\ r.after = disk[p].content
          /\ r.kind = IF s.content = None THEN "created" ELSE "modified"
          /\ r \in ChangeRecords
      BY <2>1, <2>3 DEF RecordOf, ChangeRecords
    <2> HIDE DEF s, p, r
    <2>6. r \in Difference(before, disk)
      BY <1>3, <2>4, <2>5 DEF Difference, s, p
    <2>7. QED
      BY <2>6 DEF r, s
  <1>4. ASSUME NEW r \in Difference(before, disk)
        PROVE  \E i \in 1 .. Len(saved) :
                 /\ disk[saved[i].path] # None
                 /\ disk[saved[i].path].content # saved[i].content
                 /\ r = RecordOf(saved[i])
    <2> DEFINE p == r.path
    <2>1. /\ r \in ChangeRecords /\ disk[p] # None /\ r.after = disk[p].content
          /\ IF before[p] = None THEN r.kind = "created" /\ r.before = None
             ELSE r.kind = "modified" /\ r.before = before[p].content
          /\ r.after # r.before
      BY DEF Difference
    <2>2. p \in Paths
      BY <2>1 DEF ChangeRecords
    <2>3. disk[p] # before[p]
      BY <2>1
    <2>4. PICK i \in 1 .. Len(saved) : saved[i].path = p
      BY <2>2, <2>3 DEF Kept, Unchanged, HasSaved
    <2>5. /\ saved[i] = Original(p)
          /\ before[p] = None => saved[i].content = None
          /\ before[p] # None =>
               saved[i].content = before[p].content /\ saved[i].content # None
      BY <1>2, <2>2, <2>4, OriginalIs
    <2>6. saved[i].content = r.before
      BY <2>1, <2>5
    <2>7. r = RecordOf(saved[i])
      <3>1. RecordOf(saved[i]) = [path |-> p, kind |-> r.kind, before |-> r.before,
                                  after |-> r.after]
        BY <2>1, <2>4, <2>5 DEF RecordOf
      <3>2. QED
        BY <2>1, <3>1 DEF ChangeRecords
    <2>8. QED
      BY <2>1, <2>4, <2>6, <2>7
  <1>5. \A r : r \in Changes <=>
          \E i \in 1 .. Len(saved) :
            /\ disk[saved[i].path] # None
            /\ disk[saved[i].path].content # saved[i].content
            /\ r = RecordOf(saved[i])
    BY <1>1 DEF Changes, RecordOf
  <1>6. QED
    BY <1>3, <1>4, <1>5

LEMMA CompletedKeeps ==
  ASSUME ExecInv, Completed
  PROVE  ExecInv'
  <1>0. /\ exec.pc = "committed" /\ exec.pc \in Forward
        /\ ReturnOrRaise(SuccessReport)
        /\ UNCHANGED <<disk, saved, tx, before, plan>>
    BY DEF Completed, At, Forward
  <1>1. /\ exec \in Executions /\ exec.report = None /\ before \in Disks
        /\ Kept /\ ModesKnown(saved)
    BY <1>0 DEF ExecInv, ExecTypeOK, SavedInv, ResultsInv, Kept
  <1>2. exec.results \in Seq(BOOLEAN) /\ plan \in Seq(Actions)
    BY <1>1, ExecutorAssumptions DEF ExecInv, ExecTypeOK, Executions
  <1>3. /\ Len(exec.results) = Len(plan) /\ Effect(Len(plan))
        /\ \A i \in 1 .. Len(plan) : exec.results[i] = TRUE
    BY <1>0 DEF ExecInv, ResultsInv
  <1>4. exec.results = [i \in DOMAIN plan |-> TRUE]
    <2>1. DOMAIN exec.results = DOMAIN plan /\ DOMAIN plan = 1 .. Len(plan)
      BY <1>2, <1>3
    <2>2. exec.results = [i \in DOMAIN exec.results |-> exec.results[i]]
      BY <1>2
    <2>3. QED
      BY <1>3, <2>1, <2>2
  <1>5. Changes = Difference(before, disk) /\ Changes \subseteq ChangeRecords
    BY <1>1, ChangesAreTheDifference DEF Difference
  <1>6. /\ SuccessReport \in Reports /\ SuccessReport.success
        /\ SuccessReport.changes = Changes /\ SuccessReport.results = exec.results
    BY <1>2, <1>5 DEF SuccessReport, Reports
  <1>7. /\ exec' \in Executions
        /\ exec'.results = exec.results
        /\ \/ exec'.pc = "returned" /\ exec'.report = SuccessReport
           \/ exec'.pc = "raised" /\ exec'.report = None
    BY <1>0, <1>1, <1>6 DEF ReturnOrRaise, Executions, Steps
  <1>8. ExecTypeOK'
    BY <1>0, <1>7 DEF ExecInv, ExecTypeOK
  <1>9. SavedInv' /\ FilesAreWhole'
    BY <1>0, <1>7, KeptStays DEF ExecInv, SavedInv, Forward
  <1>10. TxInv'
    BY <1>0, <1>7 DEF ExecInv, TxInv, Forward
  <1>11. ResultsInv'
    BY <1>6, <1>7, ExecutorAssumptions DEF ResultsInv, Forward
  <1>12. SuccessTellsTheDisk'
    <2>1. Difference(before, disk)' = Difference(before, disk)
      BY <1>0 DEF Difference
    <2>2. \A p \in Paths : before[p] # None => disk[p] # None
      BY DEF ExecInv, FilesAreWhole
    <2>3. QED
      BY <1>0, <1>4, <1>5, <1>6, <1>7, <2>1, <2>2 DEF SuccessTellsTheDisk
  <1>13. UndoneInv'
    <2>1. Effect(Len(plan))'
      <3>1. PICK n : n = Len(plan)
        OBVIOUS
      <3>2. Effect(n)'
        BY <1>0, <1>3, <3>1, EffectStays
      <3>3. n = Len(plan')
        BY <1>0, <3>1
      <3>4. QED
        BY <3>2, <3>3 DEF Effect
    <2>2. RaisedHasTheEffect'
      BY <2>1 DEF RaisedHasTheEffect
    <2>3. FailureIsUndone'
      BY <1>6, <1>7 DEF FailureIsUndone
    <2>4. QED
      BY <2>2, <2>3 DEF UndoneInv
  <1>14. QED
    BY <1>8, <1>9, <1>10, <1>11, <1>12, <1>13 DEF ExecInv

LEMMA ExecStutters ==
  ASSUME ExecInv, UNCHANGED execVars
  PROVE  ExecInv'
  <1>0. UNCHANGED <<disk, saved, tx, before, plan, exec>>
    BY DEF execVars
  <1>1. ExecTypeOK' /\ TxInv'
    BY <1>0 DEF ExecInv, ExecTypeOK, TxInv
  <1>2. SavedInv' /\ FilesAreWhole'
    BY <1>0, KeptStays DEF ExecInv, SavedInv, ModesKnown
  <1>3. /\ Effect(Len(exec.results))' <=> Effect(Len(exec.results))
        /\ Effect(Len(plan))' <=> Effect(Len(plan))
    <2>1. \A a, f : After(a, f)' = After(a, f)
      BY <1>0 DEF After
    <2>2. QED
      BY <1>0, <2>1 DEF Effect
  <1>4. ResultsInv'
    BY <1>0, <1>3 DEF ExecInv, ResultsInv
  <1>5. SuccessTellsTheDisk'
    <2>1. Difference(before, disk)' = Difference(before, disk)
      BY <1>0 DEF Difference
    <2>2. QED
      BY <1>0, <2>1 DEF ExecInv, SuccessTellsTheDisk
  <1>6. UndoneInv'
    BY <1>0, <1>3 DEF ExecInv, UndoneInv, FailureIsUndone, RaisedHasTheEffect, At
  <1>7. QED
    BY <1>1, <1>2, <1>4, <1>5, <1>6 DEF ExecInv

LEMMA ExecStep ==
  ASSUME ExecInv, ExecNext \/ UNCHANGED execVars
  PROVE  ExecInv'
  BY PreflightKeeps, ActionSucceedsKeeps, ActionFailsKeeps, CommitKeeps, CompletedKeeps,
     RollbackStepKeeps, RolledBackKeeps, ReportFailureKeeps, ExecStutters
     DEF ExecNext

-----------------------------------------------------------------------------
(* The invariant of a verification.                                        *)

\* Condition i was read as it is now.
SeenAsIs(i) ==
  LET c == postconditions[i]
  IN  /\ c.path \in Paths /\ disk[c.path] # None
      /\ \E e \in check.evidence : e.index = i /\ e.content = disk[c.path].content

\* The findings are about what is on the disk, and each condition has one.
FindingsInv ==
  /\ \A i \in check.covered : SeenAsIs(i)
  /\ \A e \in check.evidence : e.index \in check.covered
  /\ check.errors \subseteq Required \ check.covered
  /\ check.mismatches \subseteq Required \cap check.covered
  /\ \A i \in Required \cap check.covered :
       i \in check.mismatches <=>
         disk[postconditions[i].path].content \notin postconditions[i].accepts

VerifyInv ==
  /\ postconditions \in TaskChoices /\ check \in Checks
  /\ check.pc # "wait" => exec.pc = "returned" /\ exec.report.success
  /\ check.pc \in {"wait", "prepare"} =>
       check.covered = {} /\ check.evidence = {} /\ check.mismatches = {} /\ check.errors = {}
  /\ check.pc = "inspect" => check.at > 0
  /\ check.covered \cup check.errors \subseteq DOMAIN postconditions
  /\ check.pc = "inspect" => \A i \in check.covered \cup check.errors : i < check.at
  /\ check.verdict # None => check.pc = "reported"
  /\ FindingsInv /\ VerdictIsJustified

LEMMA TasksAre ==
  ASSUME postconditions \in TaskChoices
  PROVE  /\ postconditions \in Seq(Conditions)
         /\ DOMAIN postconditions = 1 .. Len(postconditions) /\ Len(postconditions) \in Nat
         /\ \A i \in DOMAIN postconditions : postconditions[i] \in Conditions
         /\ Required \subseteq DOMAIN postconditions /\ Required # {}
  <1>1. postconditions \in Seq(Conditions)
    BY VerificationAssumptions
  <1>2. \E i \in DOMAIN postconditions : postconditions[i].required
    BY VerificationAssumptions
  <1>3. QED
    BY <1>1, <1>2 DEF Required

LEMMA VerifyInvInit == RunInit => VerifyInv
  <1> SUFFICES ASSUME RunInit PROVE VerifyInv
    OBVIOUS
  <1>1. /\ check.pc = "wait" /\ check.at = 0 /\ check.covered = {} /\ check.evidence = {}
        /\ check.mismatches = {} /\ check.errors = {} /\ check.verdict = None
        /\ postconditions \in TaskChoices
    BY DEF RunInit
  <1>2. check \in Checks
    BY DEF RunInit, Checks
  <1>3. FindingsInv
    BY <1>1 DEF FindingsInv
  <1>4. VerdictIsJustified
    BY <1>1, VerificationAssumptions DEF VerdictIsJustified, PassedMeansGoalReached,
          FailedMeansMissed, InconclusiveMeansUnknown, Verdicts
  <1>5. QED
    BY <1>1, <1>2, <1>3, <1>4 DEF VerifyInv

\* Execution is over when verification has begun.
LEMMA ExecNextKeeps ==
  ASSUME ExecInv, VerifyInv, ExecNext, UNCHANGED verifyVars
  PROVE  VerifyInv'
  <1>1. exec.pc # "returned"
    BY DEF ExecNext, PreflightRejected, PreflightAuthorized, ActionSucceeds, ActionFails,
           ActionUntold, CommitPlan, CommitRaises, Completed, RollbackStep, RolledBack,
           ReportFailure, At, Running, AllDone
  <1>2. /\ check.pc = "wait" /\ check' = check /\ postconditions' = postconditions
        /\ check.covered = {} /\ check.evidence = {} /\ check.mismatches = {}
        /\ check.errors = {} /\ check.verdict = None
    BY <1>1 DEF VerifyInv, verifyVars
  <1>3. FindingsInv'
    BY <1>2 DEF FindingsInv
  <1>4. VerdictIsJustified'
    BY <1>2, VerificationAssumptions DEF VerdictIsJustified, PassedMeansGoalReached,
          FailedMeansMissed, InconclusiveMeansUnknown, Verdicts
  <1>5. QED
    BY <1>2, <1>3, <1>4 DEF VerifyInv

\* Verification goes on without a verdict.
LEMMA NoVerdictKeeps ==
  ASSUME VerifyInv, check' \in Checks, check'.verdict = None,
         check'.pc # "wait" => exec.pc = "returned" /\ exec.report.success,
         check'.pc \in {"wait", "prepare"} =>
           /\ check'.covered = {} /\ check'.evidence = {}
           /\ check'.mismatches = {} /\ check'.errors = {},
         check'.pc = "inspect" => check'.at > 0,
         check'.covered \cup check'.errors \subseteq DOMAIN postconditions,
         check'.pc = "inspect" =>
           \A i \in check'.covered \cup check'.errors : i < check'.at,
         FindingsInv', UNCHANGED <<execVars, postconditions>>
  PROVE  VerifyInv'
  <1>1. VerdictIsJustified'
    BY VerificationAssumptions DEF VerdictIsJustified, PassedMeansGoalReached,
          FailedMeansMissed, InconclusiveMeansUnknown, Verdicts
  <1>2. QED
    BY <1>1 DEF VerifyInv, execVars

\* What a step makes of the findings.
LEMMA FindingsMove ==
  ASSUME check \in Checks, NEW n \in Nat, NEW c \in SUBSET Nat,
         NEW e \in SUBSET Evidence, NEW m \in SUBSET Nat,
         check' = [check EXCEPT !.at = n, !.covered = c, !.evidence = e,
                                !.mismatches = m]
  PROVE  /\ check' \in Checks /\ check'.at = n /\ check'.covered = c
         /\ check'.evidence = e /\ check'.mismatches = m
         /\ check'.errors = check.errors
         /\ check'.pc = check.pc /\ check'.verdict = check.verdict
  BY DEF Checks

LEMMA ErrorsMove ==
  ASSUME check \in Checks, NEW n \in Nat, NEW r \in SUBSET Nat,
         check' = [check EXCEPT !.at = n, !.errors = r]
  PROVE  /\ check' \in Checks /\ check'.at = n /\ check'.errors = r
         /\ check'.covered = check.covered /\ check'.evidence = check.evidence
         /\ check'.mismatches = check.mismatches
         /\ check'.pc = check.pc /\ check'.verdict = check.verdict
  BY DEF Checks

LEMMA StartsKeep ==
  ASSUME VerifyInv, StartVerification \/ Prepared
  PROVE  VerifyInv'
  <1>1. /\ UNCHANGED <<execVars, postconditions>>
        /\ check.pc \in {"wait", "prepare"} /\ exec.pc = "returned" /\ exec.report.success
        /\ \/ check' = [check EXCEPT !.pc = "prepare"]
           \/ check' = [check EXCEPT !.pc = "inspect", !.at = 1]
    BY DEF StartVerification, Prepared, At, VerifyInv
  <1>2. /\ check \in Checks /\ check.verdict = None
        /\ check.covered = {} /\ check.evidence = {} /\ check.mismatches = {}
        /\ check.errors = {}
    BY <1>1 DEF VerifyInv
  <1>3. /\ check' \in Checks /\ check'.pc \in {"prepare", "inspect"}
        /\ check'.pc = "inspect" => check'.at = 1
        /\ check'.verdict = None /\ check'.covered = {} /\ check'.evidence = {}
        /\ check'.mismatches = {} /\ check'.errors = {}
    <2>1. CASE check' = [check EXCEPT !.pc = "prepare"]
      BY <1>2, <2>1 DEF Checks
    <2>2. CASE check' = [check EXCEPT !.pc = "inspect", !.at = 1]
      BY <1>2, <2>2 DEF Checks
    <2>3. QED
      BY <1>1, <2>1, <2>2
  <1>4. FindingsInv'
    BY <1>3 DEF FindingsInv
  <1>5. QED
    BY <1>1, <1>3, <1>4, NoVerdictKeeps

LEMMA InspectionFailsKeeps ==
  ASSUME VerifyInv, InspectionFails
  PROVE  VerifyInv'
  <1> DEFINE i == check.at
             errors == check.errors \cup ErrorAt(i)
  <1>1. /\ UNCHANGED <<execVars, postconditions>> /\ disk' = disk
        /\ check.pc = "inspect" /\ i \in DOMAIN postconditions
        /\ check' = [check EXCEPT !.at = i + 1, !.errors = errors]
    BY DEF InspectionFails, Inspecting, execVars
  <1>2. /\ check \in Checks /\ check.verdict = None /\ postconditions \in TaskChoices
        /\ check.covered \cup check.errors \subseteq DOMAIN postconditions
        /\ \A k \in check.covered \cup check.errors : k < i
        /\ FindingsInv /\ exec.pc = "returned" /\ exec.report.success
    BY <1>1 DEF VerifyInv
  <1>3. /\ ErrorAt(i) \subseteq Required /\ ErrorAt(i) \subseteq {i}
        /\ i \in Nat /\ DOMAIN postconditions \subseteq Nat
    BY <1>1, <1>2, TasksAre DEF ErrorAt, Required
  <1>4. i \notin check.covered
    BY <1>2, <1>3
  <1>5. /\ check' \in Checks /\ check'.pc = "inspect" /\ check'.verdict = None
        /\ check'.at = i + 1 /\ check'.errors = errors
        /\ check'.covered = check.covered /\ check'.evidence = check.evidence
        /\ check'.mismatches = check.mismatches
    <2>1. errors \in SUBSET Nat /\ i + 1 \in Nat
      BY <1>2, <1>3 DEF Checks
    <2> HIDE DEF i, errors
    <2>2. check' = [check EXCEPT !.at = i + 1, !.errors = errors]
      BY <1>1
    <2>3. QED
      BY <1>1, <1>2, <2>1, <2>2, ErrorsMove
  <1>6. FindingsInv'
    <2>1. errors \subseteq Required \ check.covered
      BY <1>2, <1>3, <1>4 DEF FindingsInv
    <2>2. Required' = Required
      BY <1>1 DEF Required
    <2> HIDE DEF errors, i
    <2>3. QED
      BY <1>1, <1>2, <1>5, <2>1, <2>2 DEF FindingsInv, SeenAsIs
  <1>7. \A k \in check.covered \cup errors : k < i + 1
    <2>1. \A k \in check.covered \cup check.errors : k \in Nat
      BY <1>2, <1>3
    <2>2. \A k \in check.covered \cup errors :
            k \in check.covered \cup check.errors \/ k = i
      BY <1>3
    <2>3. QED
      BY <1>2, <1>3, <2>1, <2>2
  <1>8. check'.covered \cup check'.errors \subseteq DOMAIN postconditions
    BY <1>1, <1>2, <1>3, <1>5
  <1>9. i + 1 > 0
    BY <1>3
  <1> HIDE DEF i, errors
  <1>10. QED
    BY <1>1, <1>2, <1>5, <1>6, <1>7, <1>8, <1>9, NoVerdictKeeps

LEMMA InspectedKeeps ==
  ASSUME ExecInv, VerifyInv, Inspected
  PROVE  VerifyInv'
  <1> DEFINE i == check.at
             c == postconditions[i]
             e == [index |-> i, content |-> disk[c.path].content]
             covered == check.covered \cup {i}
             evidence == check.evidence \cup {e}
             mismatches == check.mismatches \cup MismatchAt(i, c)
  <1>1. /\ UNCHANGED <<execVars, postconditions>> /\ disk' = disk
        /\ check.pc = "inspect" /\ i \in DOMAIN postconditions /\ CanInspect(c)
        /\ check' = [check EXCEPT !.at = i + 1, !.covered = covered,
                                  !.evidence = evidence, !.mismatches = mismatches]
    BY DEF Inspected, Inspecting, execVars
  <1>2. /\ check \in Checks /\ check.verdict = None /\ postconditions \in TaskChoices
        /\ check.covered \cup check.errors \subseteq DOMAIN postconditions
        /\ \A k \in check.covered \cup check.errors : k < i
        /\ FindingsInv /\ exec.pc = "returned" /\ exec.report.success
    BY <1>1 DEF VerifyInv
  <1>3. /\ i \in Nat /\ DOMAIN postconditions \subseteq Nat /\ c \in Conditions
        /\ i \in Required <=> c.required
    BY <1>1, <1>2, TasksAre DEF Required
  <1>4. /\ c.path \in Paths /\ disk[c.path] # None /\ disk[c.path] \in Files
    BY <1>1, <1>3 DEF CanInspect, Conditions, ExecInv, ExecTypeOK, Disks
  <1>5. e \in Evidence /\ e.index = i /\ e.content = disk[c.path].content
    BY <1>3, <1>4 DEF Evidence, Files
  <1>6. /\ MismatchAt(i, c) \subseteq {i} \cap Required
        /\ i \in Required =>
             (i \in MismatchAt(i, c) <=> disk[c.path].content \notin c.accepts)
    BY <1>3 DEF MismatchAt, ErrorAt
  <1>7. i \notin check.covered \cup check.errors
    BY <1>2, <1>3
  <1>8. mismatches \in SUBSET Nat /\ covered \in SUBSET Nat /\ evidence \in SUBSET Evidence
    BY <1>2, <1>3, <1>5, <1>6 DEF Checks
  <1> HIDE DEF covered, evidence, mismatches
  <1>9. /\ check' \in Checks /\ check'.pc = "inspect" /\ check'.verdict = None
        /\ check'.at = i + 1 /\ check'.errors = check.errors
        /\ check'.covered = covered /\ check'.evidence = evidence
        /\ check'.mismatches = mismatches
    <2>1. i + 1 \in Nat
      BY <1>3
    <2>2. check' = [check EXCEPT !.at = i + 1, !.covered = covered,
                                 !.evidence = evidence, !.mismatches = mismatches]
      BY <1>1
    <2>3. check \in Checks /\ check.pc = "inspect" /\ check.verdict = None
      BY <1>1, <1>2
    <2> HIDE DEF i
    <2>4. QED
      BY <1>8, <2>1, <2>2, <2>3, FindingsMove
  <1> HIDE DEF e, c, i
  <1>10. FindingsInv'
    <2>1. Required' = Required
      BY <1>1 DEF Required
    <2>2. ASSUME NEW k \in covered PROVE SeenAsIs(k)'
      <3>1. CASE k = i
        BY <1>1, <1>4, <1>5, <1>9, <3>1 DEF SeenAsIs, evidence, c
      <3>2. CASE k \in check.covered
        <4>1. SeenAsIs(k)
          BY <1>2, <3>2 DEF FindingsInv
        <4>2. QED
          BY <1>1, <1>9, <4>1 DEF SeenAsIs, evidence
      <3>3. QED
        BY <2>2, <3>1, <3>2 DEF covered
    <2>3. \A f \in evidence : f.index \in covered
      BY <1>2, <1>5 DEF FindingsInv, evidence, covered
    <2>4. check.errors \subseteq Required \ covered
      BY <1>2, <1>7 DEF FindingsInv, covered
    <2>5. mismatches \subseteq Required \cap covered
      BY <1>2, <1>6 DEF FindingsInv, mismatches, covered
    <2>6. \A k \in Required \cap covered :
            k \in mismatches <=>
              disk[postconditions[k].path].content \notin postconditions[k].accepts
      <3>1. i \notin check.mismatches
        BY <1>2, <1>7 DEF FindingsInv
      <3>2. ASSUME NEW k \in Required \cap covered, k = i
            PROVE  k \in mismatches <=>
                     disk[postconditions[k].path].content \notin postconditions[k].accepts
        BY <1>6, <3>1, <3>2 DEF mismatches, c
      <3>3. ASSUME NEW k \in Required \cap covered, k # i
            PROVE  k \in mismatches <=>
                     disk[postconditions[k].path].content \notin postconditions[k].accepts
        <4>1. k \in check.covered /\ (k \in mismatches <=> k \in check.mismatches)
          BY <1>6, <3>3 DEF mismatches, covered
        <4>2. QED
          BY <1>2, <4>1 DEF FindingsInv
      <3>4. QED
        BY <3>2, <3>3
    <2>7. QED
      BY <1>1, <1>9, <2>1, <2>2, <2>3, <2>4, <2>5, <2>6 DEF FindingsInv
  <1>11. \A k \in covered \cup check.errors : k < i + 1
    <2>1. \A k \in check.covered \cup check.errors : k \in Nat
      BY <1>2, <1>3
    <2>2. QED
      BY <1>2, <1>3, <2>1 DEF covered
  <1>12. covered \cup check.errors \subseteq DOMAIN postconditions /\ i + 1 > 0
    BY <1>1, <1>2, <1>3 DEF covered
  <1>13. QED
    BY <1>1, <1>2, <1>9, <1>10, <1>11, <1>12, NoVerdictKeeps

\* A verdict that the findings support is justified by the disk.
LEMMA VerdictKeeps ==
  ASSUME ExecInv, VerifyInv, check.pc \in {"prepare", "inspect"},
         NEW v \in Verdicts, ReportOrRaise(v), UNCHANGED <<execVars, postconditions>>,
         v = "passed" => check.mismatches = {} /\ Required \subseteq check.covered,
         v = "failed" => check.mismatches # {},
         v = "inconclusive" => \E i \in Required : i \notin check.covered
  PROVE  VerifyInv'
  <1>1. /\ check \in Checks /\ check.verdict = None /\ postconditions \in TaskChoices
        /\ check.covered \cup check.errors \subseteq DOMAIN postconditions
        /\ exec.pc = "returned" /\ exec.report.success /\ FindingsInv
        /\ UNCHANGED <<disk, before, exec, postconditions>>
    BY DEF VerifyInv, execVars
  <1>2. /\ check' \in Checks
        /\ check'.covered = check.covered /\ check'.errors = check.errors
        /\ check'.mismatches = check.mismatches /\ check'.evidence = check.evidence
        /\ \/ check'.pc = "reported" /\ check'.verdict = v
           \/ check'.pc = "raised" /\ check'.verdict = None
    <2>1. CASE check' = [check EXCEPT !.pc = "reported", !.verdict = v]
      BY <1>1, <2>1 DEF Checks
    <2>2. CASE check' = [check EXCEPT !.pc = "raised"]
      BY <1>1, <2>2 DEF Checks
    <2>3. QED
      BY <2>1, <2>2 DEF ReportOrRaise
  <1>3. Required' = Required
    BY <1>1 DEF Required
  <1>4. FindingsInv'
    BY <1>1, <1>2, <1>3 DEF FindingsInv, SeenAsIs
  <1>5. None \notin Verdicts
    BY VerificationAssumptions
  <1>6. PassedMeansGoalReached'
    <2>1. exec.report.changes = Difference(before, disk)
      BY <1>1 DEF ExecInv, ResultsInv, SuccessTellsTheDisk
    <2>2. Difference(before, disk)' = Difference(before, disk)
      BY <1>1 DEF Difference
    <2>3. ASSUME v = "passed", NEW i \in Required
          PROVE  /\ Meets(postconditions[i])
                 /\ \E e \in check.evidence :
                      e.index = i /\ e.content = disk[postconditions[i].path].content
      <3>1. SeenAsIs(i)
        BY <1>1, <2>3 DEF FindingsInv
      <3>2. disk[postconditions[i].path].content \in postconditions[i].accepts
        BY <1>1, <2>3 DEF FindingsInv
      <3>3. postconditions[i].path # None
        BY <3>1, SandboxAssumptions DEF SeenAsIs
      <3>4. QED
        BY <3>1, <3>2, <3>3 DEF SeenAsIs, Meets
    <2>4. ASSUME check'.verdict = "passed" PROVE v = "passed"
      BY <1>2, <1>5, <2>4 DEF Verdicts
    <2>5. \A i \in Required : Meets(postconditions[i])' <=> Meets(postconditions[i])
      BY <1>1 DEF Meets
    <2>6. QED
      BY <1>1, <1>2, <1>3, <2>1, <2>2, <2>3, <2>4, <2>5 DEF PassedMeansGoalReached
  <1>7. FailedMeansMissed'
    <2>1. ASSUME v = "failed"
          PROVE  \E i \in Required, e \in check.evidence :
                   /\ e.index = i /\ ~Meets(postconditions[i])
                   /\ e.content = disk[postconditions[i].path].content
      <3>1. PICK i \in check.mismatches : TRUE
        BY <2>1
      <3>2. i \in Required \cap check.covered /\ SeenAsIs(i)
        BY <1>1 DEF FindingsInv
      <3>3. ~Meets(postconditions[i])
        BY <1>1, <3>2 DEF FindingsInv, Meets
      <3>4. QED
        BY <3>2, <3>3 DEF SeenAsIs
    <2>2. ASSUME check'.verdict = "failed" PROVE v = "failed"
      BY <1>2, <1>5, <2>2 DEF Verdicts
    <2>3. \A i \in Required : Meets(postconditions[i])' <=> Meets(postconditions[i])
      BY <1>1 DEF Meets
    <2>4. QED
      BY <1>1, <1>2, <1>3, <2>1, <2>2, <2>3 DEF FailedMeansMissed
  <1>8. InconclusiveMeansUnknown'
    <2>1. check'.verdict = "inconclusive" => v = "inconclusive"
      BY <1>2, <1>5 DEF Verdicts
    <2>2. v = "inconclusive" =>
            \E i \in Required : \A e \in check.evidence : e.index # i
      BY <1>1 DEF FindingsInv
    <2>3. QED
      BY <1>2, <1>3, <2>1, <2>2 DEF InconclusiveMeansUnknown
  <1>9. VerdictIsJustified'
    BY <1>6, <1>7, <1>8 DEF VerdictIsJustified
  <1>10. QED
    BY <1>1, <1>2, <1>4, <1>9 DEF VerifyInv

LEMMA EndsKeep ==
  ASSUME ExecInv, VerifyInv, NotPrepared \/ Conclude
  PROVE  VerifyInv'
  <1>1. /\ UNCHANGED <<execVars, postconditions>> /\ check.pc \in {"prepare", "inspect"}
        /\ FindingsInv /\ postconditions \in TaskChoices
    BY DEF NotPrepared, Conclude, VerifyInv
  <1>2. CASE NotPrepared
    <2>1. check.covered = {} /\ Required # {}
      BY <1>1, <1>2, TasksAre DEF NotPrepared, VerifyInv
    <2>2. ReportOrRaise("inconclusive") /\ "inconclusive" \in Verdicts
      BY <1>2 DEF NotPrepared, Verdicts
    <2>3. QED
      BY <1>1, <2>1, <2>2, VerdictKeeps
  <1>3. CASE Conclude
    <2> DEFINE v == Verdict(check.covered, check.mismatches, check.errors)
    <2>1. ReportOrRaise(v)
      BY <1>3 DEF Conclude
    <2>2. /\ v \in Verdicts
          /\ v = "passed" => check.mismatches = {} /\ Required \subseteq check.covered
          /\ v = "failed" => check.mismatches # {}
          /\ v = "inconclusive" =>
               check.errors # {} \/ ~(Required \subseteq check.covered)
      BY DEF Verdict, Verdicts
    <2> HIDE DEF v
    <2>3. v = "inconclusive" => \E i \in Required : i \notin check.covered
      BY <1>1, <2>2 DEF FindingsInv
    <2>4. QED
      BY <1>1, <2>1, <2>2, <2>3, VerdictKeeps
  <1>4. QED
    BY <1>2, <1>3

LEMMA VerifyStutters ==
  ASSUME VerifyInv, UNCHANGED runVars
  PROVE  VerifyInv'
  <1>1. UNCHANGED <<disk, before, exec, postconditions, check>>
    BY DEF runVars, execVars, verifyVars
  <1>2. Required' = Required
    BY <1>1 DEF Required
  <1>3. FindingsInv'
    BY <1>1, <1>2 DEF VerifyInv, FindingsInv, SeenAsIs
  <1>4. \A c : Meets(c)' <=> Meets(c)
    BY <1>1 DEF Meets
  <1>5. Difference(before, disk)' = Difference(before, disk)
    BY <1>1 DEF Difference
  <1>6. VerdictIsJustified'
    <2>1. \A i \in Required : Meets(postconditions[i])' <=> Meets(postconditions[i])
      BY <1>1 DEF Meets
    <2>2. PassedMeansGoalReached'
      BY <1>1, <1>2, <1>5, <2>1
         DEF VerifyInv, VerdictIsJustified, PassedMeansGoalReached
    <2>3. FailedMeansMissed'
      BY <1>1, <1>2, <2>1 DEF VerifyInv, VerdictIsJustified, FailedMeansMissed
    <2>4. InconclusiveMeansUnknown'
      BY <1>1, <1>2 DEF VerifyInv, VerdictIsJustified, InconclusiveMeansUnknown
    <2>5. QED
      BY <2>2, <2>3, <2>4 DEF VerdictIsJustified
  <1>7. QED
    BY <1>1, <1>3, <1>6 DEF VerifyInv

-----------------------------------------------------------------------------
(* The disk after a plan, as a fold.                                       *)

\* g holds the disk after the actions of every set of indices, in their order.
DisksAfter(U, g) ==
  g = [S \in SUBSET U |-> IF S = {} THEN before ELSE After(plan[Max(S)], g[S \ {Max(S)}])]

LEMMA FoldIsAfter ==
  FoldLeft(LAMBDA d, a : After(a, d), before, plan) =
    (CHOOSE g : DisksAfter(DOMAIN plan, g))[DOMAIN plan]
  BY DEF FoldLeft, MapThenFoldSet, DisksAfter

\* Of the subsets of a finite set that have a property one has no part that has it.
LEMMA SmallestSet ==
  ASSUME NEW U, IsFiniteSet(U), NEW Q, Q \subseteq SUBSET U, Q # {}
  PROVE  \E S \in Q : \A T \in Q : T \subseteq S => T = S
  <1>1. IsWellFoundedOn(StrictSubsetOrdering(U), SUBSET U)
    BY FS_StrictSubsetOrderingWellFounded, FS_FiniteSubsetsOfFinite
  <1>2. \E S \in Q : \A T \in Q : ~ (<<T, S>> \in StrictSubsetOrdering(U))
    BY <1>1, WFMin
  <1>3. QED
    BY <1>2 DEF StrictSubsetOrdering

\* The last of finitely many indices is one of them.
AreNumbers(U) == U \subseteq Nat

HasLast(U) == \A S \in SUBSET U : S # {} => Max(S) \in S

LEMMA LastIsIn ==
  ASSUME NEW U, IsFiniteSet(U), AreNumbers(U)
  PROVE  HasLast(U)
  <1> DEFINE Bad == {S \in SUBSET U : S # {} /\ ~ \E m \in S : \A x \in S : m >= x}
  <1>1. Bad = {}
    <2> SUFFICES ASSUME Bad # {} PROVE FALSE
      OBVIOUS
    <2>1. PICK S \in Bad : \A T \in Bad : T \subseteq S => T = S
      <3>1. Bad \subseteq SUBSET U
        OBVIOUS
      <3> HIDE DEF Bad
      <3>2. QED
        BY <3>1, SmallestSet
    <2>2. PICK x \in S : x \in Nat
      BY <2>1 DEF AreNumbers
    <2>3. S \ {x} \notin Bad
      <3> HIDE DEF Bad
      <3> QED BY <2>1, <2>2
    <2>4. CASE S \ {x} = {}
      BY <2>1, <2>2, <2>4
    <2>5. CASE S \ {x} # {}
      <3>1. PICK m \in S \ {x} : \A y \in S \ {x} : m >= y
        BY <2>1, <2>3, <2>5
      <3>2. m \in Nat /\ S \subseteq Nat
        BY <2>1, <3>1 DEF AreNumbers
      <3>3. \E l \in {m, x} : \A y \in S : l >= y
        BY <2>2, <3>1, <3>2
      <3>4. QED
        BY <2>1, <2>2, <3>1, <3>3
    <2>6. QED
      BY <2>4, <2>5
  <1>2. ASSUME NEW S \in SUBSET U, S # {}
        PROVE  Max(S) \in S
    <2>1. \E m \in S : \A x \in S : m >= x
      BY <1>1, <1>2
    <2>2. QED
      BY <2>1 DEF Max
  <1>3. QED
    BY <1>2 DEF HasLast

\* Two such functions agree on what both have.
LEMMA DisksAgree ==
  ASSUME NEW U, NEW V \in SUBSET U, IsFiniteSet(V), HasLast(V),
         NEW g, DisksAfter(U, g), NEW h, DisksAfter(V, h)
  PROVE  \A S \in SUBSET V : g[S] = h[S]
  <1> DEFINE Bad == {S \in SUBSET V : g[S] # h[S]}
  <1> SUFFICES ASSUME Bad # {} PROVE FALSE
    OBVIOUS
  <1>1. PICK S \in Bad : \A T \in Bad : T \subseteq S => T = S
    <2>1. Bad \subseteq SUBSET V
      OBVIOUS
    <2> HIDE DEF Bad
    <2>2. QED
      BY <2>1, SmallestSet
  <1>2. \A T \in SUBSET V : T \subseteq S /\ T # S => g[T] = h[T]
    BY <1>1
  <1>3. g[S] = IF S = {} THEN before ELSE After(plan[Max(S)], g[S \ {Max(S)}])
    BY <1>1, S \in SUBSET U DEF DisksAfter
  <1>4. h[S] = IF S = {} THEN before ELSE After(plan[Max(S)], h[S \ {Max(S)}])
    BY <1>1 DEF DisksAfter
  <1>5. S # {} => g[S \ {Max(S)}] = h[S \ {Max(S)}]
    <2>1. S # {} => Max(S) \in S
      BY <1>1 DEF HasLast
    <2>2. QED
      BY <1>1, <1>2, <2>1
  <1>6. QED
    BY <1>1, <1>3, <1>4, <1>5

LEMMA DisksExist ==
  ASSUME NEW U, IsFiniteSet(U), HasLast(U)
  PROVE  \E g : DisksAfter(U, g)
  <1> DEFINE Bad == {V \in SUBSET U : ~ \E g : DisksAfter(V, g)}
  <1> SUFFICES ASSUME Bad # {} PROVE FALSE
    OBVIOUS
  <1>1. PICK V \in Bad : \A T \in Bad : T \subseteq V => T = V
    <2>1. Bad \subseteq SUBSET U
      OBVIOUS
    <2> HIDE DEF Bad
    <2>2. QED
      BY <2>1, SmallestSet
  <1> DEFINE Rest(S) == S \ {Max(S)}
             Part == [S \in SUBSET V |-> CHOOSE g : DisksAfter(S, g)]
             h == [S \in SUBSET V |->
                     IF S = {} THEN before
                     ELSE After(plan[Max(S)], Part[Rest(S)][Rest(S)])]
  <1>2. ASSUME NEW S \in SUBSET V, S # {}
        PROVE  Rest(S) \in SUBSET V /\ Rest(S) # V /\ Rest(S) \subseteq S
    <2>1. S \in SUBSET U
      BY <1>1
    <2>2. Max(S) \in S
      BY <1>2, <2>1 DEF HasLast
    <2>3. QED
      BY <2>2
  <1>3. ASSUME NEW T \in SUBSET V, T # V
        PROVE  DisksAfter(T, Part[T])
    <2>1. \E g : DisksAfter(T, g)
      BY <1>1, <1>3
    <2>2. DisksAfter(T, CHOOSE g : DisksAfter(T, g))
      BY <2>1, Zenon
    <2>3. Part[T] = CHOOSE g : DisksAfter(T, g)
      OBVIOUS
    <2>4. QED
      BY <2>2, <2>3, Zenon
  <1>4. ASSUME NEW T \in SUBSET V, T # V
        PROVE  h[T] = Part[T][T]
    <2>1. Part[T][T] = IF T = {} THEN before ELSE After(plan[Max(T)], Part[T][Rest(T)])
      <3> HIDE DEF Part, h
      <3> QED BY <1>3, <1>4 DEF DisksAfter
    <2>2. CASE T = {}
      <3>1. h[T] = before
        BY <2>2
      <3> HIDE DEF Part, h
      <3>2. QED
        BY <2>1, <2>2, <3>1
    <2>3. CASE T # {}
      <3>1. h[T] = After(plan[Max(T)], Part[Rest(T)][Rest(T)])
        <4> HIDE DEF Part, Rest
        <4> QED BY <2>3
      <3>2. /\ Rest(T) \in SUBSET V /\ Rest(T) # V /\ Rest(T) \subseteq T
        BY <1>2, <2>3
      <3>3. DisksAfter(T, Part[T]) /\ DisksAfter(Rest(T), Part[Rest(T)])
        BY <1>3, <1>4, <3>2
      <3>4. IsFiniteSet(Rest(T)) /\ HasLast(Rest(T))
        BY <1>1, <3>2, FS_Subset DEF HasLast
      <3>5. Part[T][Rest(T)] = Part[Rest(T)][Rest(T)]
        <4> HIDE DEF Part, Rest, h
        <4>1. ASSUME NEW R, R = Rest(T), NEW p, p = Part[T], NEW r, r = Part[R]
              PROVE  p[R] = r[R]
          <5>1. /\ DisksAfter(T, p) /\ DisksAfter(R, r) /\ R \in SUBSET T
                /\ IsFiniteSet(R) /\ HasLast(R)
            BY <3>2, <3>3, <3>4, <4>1
          <5>2. \A S \in SUBSET R : p[S] = r[S]
            BY <5>1, DisksAgree
          <5>3. QED
            BY <5>2
        <4>2. QED
          BY <4>1
      <3> HIDE DEF Part, Rest, h
      <3>6. QED
        BY <2>1, <2>3, <3>1, <3>5
    <2>4. QED
      BY <2>2, <2>3
  <1>5. ASSUME NEW S \in SUBSET V
        PROVE  h[S] = IF S = {} THEN before ELSE After(plan[Max(S)], h[Rest(S)])
    <2>1. CASE S = {}
      BY <2>1
    <2>2. CASE S # {}
      <3>1. h[S] = After(plan[Max(S)], Part[Rest(S)][Rest(S)])
        <4> HIDE DEF Part, Rest
        <4> QED BY <2>2
      <3>2. h[Rest(S)] = Part[Rest(S)][Rest(S)]
        <4>1. Rest(S) \in SUBSET V /\ Rest(S) # V
          BY <1>2, <2>2
        <4> HIDE DEF Part, Rest, h
        <4>2. QED
          BY <4>1, <1>4
      <3> HIDE DEF Part, Rest, h
      <3>3. QED
        BY <2>2, <3>1, <3>2
    <2>3. QED
      BY <2>1, <2>2
  <1>6. h = [S \in SUBSET V |-> h[S]]
    OBVIOUS
  <1>7. h = [S \in SUBSET V |->
               IF S = {} THEN before ELSE After(plan[Max(S)], h[S \ {Max(S)}])]
    <2> HIDE DEF h
    <2> QED BY <1>5, <1>6
  <1>8. DisksAfter(V, h)
    <2> HIDE DEF h
    <2> QED BY <1>7 DEF DisksAfter
  <1>9. QED
    BY <1>1, <1>8

\* The end of a chain of disks, one per action, is the fold over the plan.
LEMMA EffectIsFold ==
  ASSUME plan \in Seq(Actions), Effect(Len(plan))
  PROVE  disk = FoldLeft(LAMBDA d, a : After(a, d), before, plan)
  <1>1. PICK n \in Nat : n = Len(plan) /\ DOMAIN plan = 1 .. n
    OBVIOUS
  <1>2. PICK U : U = 1 .. n
    OBVIOUS
  <1>3. IsFiniteSet(U) /\ HasLast(U)
    <2>1. IsFiniteSet(1 .. n)
      BY FS_Interval
    <2>2. IsFiniteSet(U) /\ AreNumbers(U)
      BY <1>2, <2>1 DEF AreNumbers
    <2>3. QED
      BY <2>2, LastIsIn, Zenon
  <1>4. PICK g : g = CHOOSE disks : DisksAfter(U, disks)
    OBVIOUS
  <1>5. DisksAfter(U, g)
    BY <1>3, <1>4, DisksExist, Zenon
  <1>6. FoldLeft(LAMBDA d, a : After(a, d), before, plan) = g[U]
    BY <1>1, <1>2, <1>4, FoldIsAfter
  <1>7. PICK d \in [0 .. n -> Disks] :
          /\ d[0] = before /\ d[n] = disk
          /\ \A i \in 1 .. n : d[i] = After(plan[i], d[i - 1])
    BY <1>1 DEF Effect
  <1> DEFINE Bad == {S \in SUBSET U : \E m \in 0 .. n : S = 1 .. m /\ g[S] # d[m]}
  <1>8. Bad = {}
    <2> SUFFICES ASSUME Bad # {} PROVE FALSE
      OBVIOUS
    <2>1. PICK S \in Bad : \A T \in Bad : T \subseteq S => T = S
      <3>1. Bad \subseteq SUBSET U
        OBVIOUS
      <3> HIDE DEF Bad
      <3>2. QED
        BY <1>3, <3>1, SmallestSet
    <2>2. PICK m \in 0 .. n : S = 1 .. m /\ g[S] # d[m]
      BY <2>1
    <2>3. g[S] = IF S = {} THEN before ELSE After(plan[Max(S)], g[S \ {Max(S)}])
      BY <1>5, <2>1 DEF DisksAfter
    <2>4. CASE m = 0
      BY <1>7, <2>2, <2>3, <2>4
    <2>5. CASE m # 0
      <3>1. m \in 1 .. n /\ m - 1 \in 0 .. n /\ m \in S /\ S # {}
        BY <2>2, <2>5
      <3>2. Max(S) = m
        <4>1. Max(S) \in S /\ \A y \in S : Max(S) >= y
          <5>1. m \in S /\ \A y \in S : m >= y
            BY <2>2, <3>1
          <5>2. QED
            BY <5>1 DEF Max
        <4>2. QED
          BY <2>2, <3>1, <4>1
      <3>3. S \ {m} = 1 .. (m - 1)
        BY <2>2, <3>1
      <3>4. g[1 .. (m - 1)] = d[m - 1]
        <4>1. 1 .. (m - 1) \in SUBSET U
          BY <1>2, <3>1
        <4>2. 1 .. (m - 1) \subseteq S /\ 1 .. (m - 1) # S
          BY <3>1, <3>3
        <4>3. 1 .. (m - 1) \notin Bad
          <5>1. PICK T : T = 1 .. (m - 1)
            OBVIOUS
          <5>2. T \subseteq S /\ T # S
            BY <4>2, <5>1
          <5> HIDE DEF Bad
          <5>3. T \notin Bad
            BY <2>1, <5>2
          <5>4. QED
            BY <5>1, <5>3
        <4>4. QED
          BY <3>1, <4>1, <4>3
      <3>5. d[m] = After(plan[m], d[m - 1])
        BY <1>7, <3>1
      <3>6. QED
        BY <2>2, <2>3, <3>1, <3>2, <3>3, <3>4, <3>5
    <2>6. QED
      BY <2>4, <2>5
  <1>9. g[1 .. n] = d[n]
    BY <1>2, <1>8
  <1>10. QED
    BY <1>2, <1>6, <1>7, <1>9

-----------------------------------------------------------------------------
(* The theorems.                                                           *)

RunInv == ExecInv /\ VerifyInv

LEMMA RunStep ==
  ASSUME RunInv, [RunNext]_runVars
  PROVE  RunInv'
  <1>1. ExecInv /\ VerifyInv
    BY DEF RunInv
  <1>2. CASE ExecNext /\ UNCHANGED verifyVars
    BY <1>1, <1>2, ExecStep, ExecNextKeeps DEF RunInv
  <1>3. CASE VerifyNext
    <2>1. UNCHANGED execVars
      BY <1>3 DEF VerifyNext, StartVerification, NotPrepared, Prepared, InspectionFails,
                  Inspected, Conclude
    <2>2. VerifyInv'
      BY <1>1, <1>3, StartsKeep, InspectionFailsKeeps, InspectedKeeps, EndsKeep
         DEF VerifyNext
    <2>3. QED
      BY <1>1, <2>1, <2>2, ExecStep DEF RunInv
  <1>4. CASE UNCHANGED runVars
    BY <1>1, <1>4, ExecStep, VerifyStutters DEF RunInv, runVars
  <1>5. QED
    BY <1>2, <1>3, <1>4 DEF RunNext

LEMMA RunInvHolds == RunSpec => []RunInv
  <1>1. RunInit => RunInv
    BY ExecInvInit, VerifyInvInit DEF RunInit, RunInv
  <1>2. RunInv /\ [RunNext]_runVars => RunInv'
    BY RunStep
  <1>3. QED
    BY <1>1, <1>2, PTL DEF RunSpec

\* Whatever fails, and wherever the process stops: only files the sandbox may write
\* differ from what they were, a file that was there is there with its permissions,
\* and nothing written is too large (SandboxTransaction, Executor.execute).
THEOREM FilesStayWhole == RunSpec => []FilesAreWhole
  <1>1. RunInv => FilesAreWhole
    BY DEF RunInv, ExecInv
  <1>2. QED
    BY <1>1, RunInvHolds, PTL

\* A successful report names exactly the files whose bytes differ from what they
\* were, and says that every action of the plan succeeded (commit, Executor.execute).
THEOREM SuccessIsTrue == RunSpec => []SuccessTellsTheDisk
  <1>1. RunInv => SuccessTellsTheDisk
    BY DEF RunInv, ExecInv
  <1>2. QED
    BY <1>1, RunInvHolds, PTL

\* When stat() does not fail between the bytes of a file and its mode, a rollback
\* that is reported as completed has restored every file (SandboxTransaction).
THEOREM RollbackRestores ==
  ASSUME "stat" \notin Faults
  PROVE  RunSpec => []RolledBackIsRestored
  <1>1. RunInv => RolledBackIsRestored
    BY DEF RunInv, ExecInv, TxInv, RolledBackIsRestored
  <1>2. QED
    BY <1>1, RunInvHolds, PTL

\* Under the same condition an execution that ends without success is all or
\* nothing: undone when it reports a failure without errors while restoring, and
\* when it raises, undone or with the complete effect of its plan
\* (SandboxTransaction.__exit__, Executor.execute).
THEOREM FailuresAreAllOrNothing ==
  ASSUME "stat" \notin Faults
  PROVE  RunSpec => []FailureIsAllOrNothing
  <1>1. RunInv => FailureIsAllOrNothing
    <2> SUFFICES ASSUME RunInv PROVE FailureIsAllOrNothing
      OBVIOUS
    <2>1. FailureIsUndone /\ RaisedHasTheEffect
      BY DEF RunInv, ExecInv, UndoneInv
    <2>2. plan \in Seq(Actions)
      BY ExecutorAssumptions DEF RunInv, ExecInv, ExecTypeOK
    <2>3. RaisedIsAllOrNothing
      BY <2>1, <2>2, EffectIsFold DEF RaisedHasTheEffect, RaisedIsAllOrNothing
    <2>4. QED
      BY <2>1, <2>3 DEF FailureIsAllOrNothing
  <1>2. QED
    BY <1>1, RunInvHolds, PTL

\* Files, snapshots, reports and findings keep their shape (VerificationService).
THEOREM VerifyTypeCorrect == RunSpec => []VerifyTypeOK
  <1>1. RunInv => VerifyTypeOK
    <2> SUFFICES ASSUME RunInv PROVE VerifyTypeOK
      OBVIOUS
    <2>1. /\ ExecTypeOK /\ postconditions \in TaskChoices /\ check \in Checks
          /\ check.covered \cup check.errors \subseteq DOMAIN postconditions
      BY DEF RunInv, ExecInv, VerifyInv
    <2>2. check.mismatches \subseteq DOMAIN postconditions
      BY DEF RunInv, VerifyInv, FindingsInv, Required
    <2>3. QED
      BY <2>1, <2>2 DEF VerifyTypeOK
  <1>2. QED
    BY <1>1, RunInvHolds, PTL

\* A verdict says no more than the files and the evidence show: passed means that
\* every required postcondition is met by what is on the disk, failed that one was
\* read and is not, inconclusive that one was not read (VerificationService.verify).
THEOREM VerdictsAreJustified == RunSpec => []VerdictIsJustified
  <1>1. RunInv => VerdictIsJustified
    BY DEF RunInv, VerifyInv
  <1>2. QED
    BY <1>1, RunInvHolds, PTL
=============================================================================
