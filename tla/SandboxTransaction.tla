-------------------------- MODULE SandboxTransaction --------------------------
(***************************************************************************)
(* SandboxTransaction (src/llmin/execution/sandbox.py): the files of one   *)
(* task workspace and the transaction that snapshots, replaces, commits    *)
(* and restores them.  One process uses the workspace (docs/sandbox.md),   *)
(* so the only concurrency is with failure: every operating-system call    *)
(* may fail in the ways Faults lists, and the process may stop in any      *)
(* state.  A file is replaced by os.replace, so a write changes the disk   *)
(* at one point and is one action.                                         *)
(***************************************************************************)
EXTENDS Naturals, Sequences, FiniteSets

CONSTANTS
  Paths,       \* the normalized paths of the workspace
  Contents,    \* what a file may contain
  Modes,       \* permissions a file may have
  Private,     \* the permissions mkstemp gives a new file
  None,        \* Python's None; as a file, one that does not exist
  Readable,    \* the read allowlist (without paths that lead through symlinks)
  Writable,    \* the write allowlist (likewise)
  Large,       \* contents longer than max_file_bytes
  Binary,      \* contents that are not UTF-8
  Faults       \* what may fail: "open", "read", "snapshot", "stat", "write",
               \* "sync", "inspect", "emit"

VARIABLES
  disk,        \* path -> the file there, or None
  saved,       \* the snapshots in the order they were taken (_originals)
  tx           \* the transaction: its state, and the progress of a rollback

Files == [content : Contents, mode : Modes]

Disks == [Paths -> Files \cup {None}]

\* A snapshot holds the original bytes (None: no file) and the original mode,
\* which is "unknown" when stat() failed after the bytes were read.
Snapshots == [path : Paths, content : Contents \cup {None},
              mode : Modes \cup {None, "unknown"}]

\* left: the snapshots a rollback has not restored yet; errors: one failed.
Transactions == [closed : BOOLEAN, rolledBack : BOOLEAN, left : Nat, errors : BOOLEAN]

NewTransaction == [closed |-> FALSE, rolledBack |-> FALSE, left |-> 0, errors |-> FALSE]

ASSUME SandboxAssumptions ==
  /\ Private \in Modes
  /\ Readable \subseteq Paths /\ Writable \subseteq Paths
  /\ Large \subseteq Contents /\ Binary \subseteq Contents
  /\ None \notin Contents \cup Modes \cup Paths \cup Files \cup {"unknown"}
  /\ "unknown" \notin Modes

-----------------------------------------------------------------------------
(* Reading and writing inside the transaction.                             *)

\* read_text succeeds on an allowlisted, existing, small, UTF-8 file.
CanRead(p) ==
  /\ p \in Readable /\ disk[p] # None
  /\ disk[p].content \notin Large \cup Binary

CanWrite(p, content) == p \in Writable /\ content \notin Large

IsSaved(p) == \E i \in DOMAIN saved : saved[i].path = p

SnapshotOf(p) ==
  IF disk[p] = None THEN [path |-> p, content |-> None, mode |-> None]
  ELSE [path |-> p, content |-> disk[p].content, mode |-> disk[p].mode]

\* Faulty variant: every write takes a snapshot of its own.
BugSnapshotAgain(p) ==
  Append(SelectSeq(saved, LAMBDA s : s.path # p), SnapshotOf(p))

\* The snapshots once p is among them: the first write of a path takes one.
SavedWith(p) == IF IsSaved(p) THEN saved ELSE Append(saved, SnapshotOf(p))

SavedMode(snapshots, p) ==
  (CHOOSE s \in {snapshots[i] : i \in DOMAIN snapshots} : s.path = p).mode

\* Faulty variant: the permissions of the old file are not carried over.
BugReplaceForgetsMode(p, content, mode) ==
  disk' = [disk EXCEPT ![p] = [content |-> content, mode |-> Private]]

\* _atomic_replace, when it reaches os.replace.
Replace(p, content, mode) ==
  disk' = [disk EXCEPT ![p] = [content |-> content,
                               mode |-> IF mode = None THEN Private ELSE mode]]

\* write_text_atomic succeeds.
Written(p, content) ==
  /\ CanWrite(p, content)
  /\ saved' = SavedWith(p)
  /\ Replace(p, content, SavedMode(SavedWith(p), p))

\* write_text_atomic raises: the path or the size is refused or the snapshot
\* cannot be read; or stat() fails when the bytes are saved already; or the
\* temporary file fails; or only the directory fsync after the replacement.
WriteRefused(p, content) ==
  /\ ~CanWrite(p, content) \/ ("snapshot" \in Faults /\ ~IsSaved(p))
  /\ UNCHANGED <<disk, saved>>

StatFails(p, content) ==
  /\ "stat" \in Faults
  /\ CanWrite(p, content) /\ ~IsSaved(p) /\ disk[p] # None
  /\ saved' = Append(saved, [SnapshotOf(p) EXCEPT !.mode = "unknown"])
  /\ UNCHANGED disk

ReplaceFails(p, content) ==
  /\ "write" \in Faults
  /\ CanWrite(p, content)
  /\ saved' = SavedWith(p)
  /\ UNCHANGED disk

SyncFails(p, content) ==
  /\ "sync" \in Faults
  /\ Written(p, content)

WriteRaises(p, content) ==
  \/ WriteRefused(p, content)
  \/ StatFails(p, content)
  \/ ReplaceFails(p, content)
  \/ SyncFails(p, content)

-----------------------------------------------------------------------------
(* Commit.                                                                 *)

\* Faulty variant: every file that was written is reported.
BugUnchangedReported ==
  {[path |-> s.path, kind |-> IF s.content = None THEN "created" ELSE "modified",
    before |-> s.content, after |-> disk[s.path].content] :
     s \in {saved[i] : i \in {j \in DOMAIN saved : disk[saved[j].path] # None}}}

\* The change records: the files whose bytes differ from their snapshot.
Changes ==
  {[path |-> s.path, kind |-> IF s.content = None THEN "created" ELSE "modified",
    before |-> s.content, after |-> disk[s.path].content] :
     s \in {saved[i] : i \in {j \in DOMAIN saved :
              disk[saved[j].path] # None
              /\ disk[saved[j].path].content # saved[j].content}}}

\* commit() reads every saved file again and then closes the transaction.
Commit ==
  /\ tx' = [tx EXCEPT !.closed = TRUE]
  /\ UNCHANGED <<disk, saved>>

CommitFails ==
  /\ "inspect" \in Faults /\ saved # <<>>
  /\ UNCHANGED <<disk, saved>>

-----------------------------------------------------------------------------
(* Rollback, one snapshot at a time, the last one first.                   *)

StartRollback == tx' = [tx EXCEPT !.left = Len(saved')]

\* The file is put back: a created one is unlinked, another is replaced by its
\* original bytes and mode.
PutBack(s) ==
  IF s.content = None THEN disk' = [disk EXCEPT ![s.path] = None]
  ELSE Replace(s.path, s.content, s.mode)

RestoreNext ==
  /\ tx.left > 0
  /\ saved[tx.left].mode # "unknown"
  /\ PutBack(saved[tx.left])
  /\ tx' = [tx EXCEPT !.left = @ - 1]
  /\ UNCHANGED saved

\* Restoring one file fails, with or without effect; the others are tried.
RestoreFails ==
  /\ tx.left > 0
  /\ saved[tx.left].mode # "unknown"
  /\ saved[tx.left].content # None \/ disk[saved[tx.left].path] # None
  /\ \/ "write" \in Faults /\ UNCHANGED disk
     \/ "sync" \in Faults /\ PutBack(saved[tx.left])
  /\ tx' = [tx EXCEPT !.left = @ - 1, !.errors = TRUE]
  /\ UNCHANGED saved

\* Faulty variant: a rollback with errors does not close the transaction.
BugErrorsLeaveOpen ==
  /\ tx.left # 0 => saved[tx.left].mode = "unknown"
  /\ tx' = [tx EXCEPT !.closed = ~tx.errors, !.rolledBack = ~tx.errors]
  /\ UNCHANGED <<disk, saved>>

\* The rollback is over, after the last file or because the mode of the next
\* one was never saved: the KeyError is not caught and ends the loop, and the
\* finally block takes it for a success if no other error was noted.
RollbackEnds ==
  /\ tx.left # 0 => saved[tx.left].mode = "unknown"
  /\ tx' = [tx EXCEPT !.closed = TRUE, !.rolledBack = ~tx.errors]
  /\ UNCHANGED <<disk, saved>>
=============================================================================
