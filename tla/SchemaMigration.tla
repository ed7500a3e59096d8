--------------------------- MODULE SchemaMigration ---------------------------
(***************************************************************************)
(* Processes that open one database, new or old, at the same time, and use *)
(* it once they have it (SQLiteMemoryStore.__init__, _migrate and          *)
(* _migrate_documents_to_v4 in src/llmin/memory/sqlite.py).                *)
(*                                                                         *)
(* The sqlite3 module opens a transaction at the first INSERT or UPDATE.   *)
(* Up to there a migration reads table after table without a lock; from    *)
(* the first UPDATE to the commit it holds the write lock, so the rest is  *)
(* one action, in which all but the first table with rows are read anew.   *)
(* A process may die anywhere; what it had not committed is rolled back.   *)
(*                                                                         *)
(* A document is its revision and whether it is written canonically:       *)
(* revision 0 of an attempt is open, 1 final, an episode counts its        *)
(* transitions, and the documents of the other tables never change.        *)
(***************************************************************************)
EXTENDS Naturals, Sequences, FiniteSets

CONSTANTS
  Processes,
  Attempts,        \* attempts; their events, environment and episode have
                   \* the same key here
  Databases,       \* what the processes may find
  MaxRevision,     \* bound on the transitions of an episode
  None

VARIABLES
  version,         \* the row of schema_metadata, or None
  rows,            \* table -> key -> document, or None
  status,          \* attempt -> its column status, or None
  receipts,        \* attempt -> its row in recording_receipts, or None
  opening          \* process -> where its opening or its use is

vars == <<version, rows, status, receipts, opening>>
database == <<version, rows, status, receipts>>

\* Faulty variant: the mutable table is first.
BugAttemptsFirst == <<"attempts", "trace_events", "episodes", "environments">>

\* The tables in the order of document_models.  "trace_events" stands for
\* evidence and cost_entries too, "environments" for episode_transitions,
\* artifact_relations and contradictions: their documents never change.
Tables == <<"trace_events", "episodes", "environments", "attempts">>

Current == 4
Migratable == {2, 3}

Documents == [revision : 0 .. MaxRevision, canonical : BOOLEAN, valid : BOOLEAN]

Fresh(n) == [revision |-> n, canonical |-> TRUE, valid |-> TRUE]

Receipts == [revision : {1}, by : {"finalization", "migration"}]

Rows(t) == {k \in Attempts : rows[t][k] # None}

\* Every document can be read by its model.
Readable == \A i \in DOMAIN Tables : \A k \in Rows(Tables[i]) : rows[Tables[i]][k].valid

IsDatabase(d) ==
  /\ d.version \in {None, Current, 5} \cup Migratable
  /\ d.rows \in [{Tables[i] : i \in DOMAIN Tables} ->
                   [Attempts -> Documents \cup {None}]]
  /\ d.status \in [Attempts -> {"open", "finalized", None}]
  /\ d.receipts \in [Attempts -> Receipts \cup {None}]

\* As every version of the code leaves it: no row is written before the version,
\* version 4 writes canonically, and a status is written with its document.
IsConsistent(d) ==
  /\ \A t \in DOMAIN d.rows : \A k \in Attempts :
       d.rows[t][k] # None =>
         d.version # None /\ (d.version = Current => d.rows[t][k].canonical)
  /\ \A a \in Attempts :
       d.status[a] = "finalized" =>
         d.rows["attempts"][a] # None /\ d.rows["attempts"][a].revision = 1

ASSUME MigrationAssumptions ==
  /\ MaxRevision \in Nat \ {0}
  /\ None \notin Nat \cup Documents \cup Receipts \cup [Attempts -> Documents \cup {None}]
  /\ \A d \in Databases : IsDatabase(d) /\ IsConsistent(d)

-----------------------------------------------------------------------------
(* Opening.                                                                *)

Closed == [pc |-> "closed", table |-> 1, seen |-> None]

GoTo(p, pc) == opening' = [opening EXCEPT ![p].pc = pc]

\* The tables are there or are created; this commits at once.
Open(p) ==
  /\ opening[p].pc = "closed"
  /\ opening' = [opening EXCEPT ![p] = [Closed EXCEPT !.pc = "version"]]
  /\ UNCHANGED database

\* What _migrate does with the version it reads.
AfterVersion(v) ==
  CASE v = None -> "claiming"
    [] v \in Migratable -> "reading"
    [] v = Current -> "ready"
    [] OTHER -> "unsupported"

ReadVersion(p) ==
  /\ opening[p].pc = "version"
  /\ GoTo(p, AfterVersion(version))
  /\ UNCHANGED database

\* A new database gets its version; when another process has created it by
\* now, the INSERT fails with an IntegrityError.
Claim(p) ==
  /\ opening[p].pc = "claiming"
  /\ version' = IF version = None THEN Current ELSE version
  /\ GoTo(p, IF version = None THEN "ready" ELSE "overtaken")
  /\ UNCHANGED <<rows, status, receipts>>

\* SELECT rowid, document: a table without rows needs no UPDATE.
ReadTable(p) ==
  /\ opening[p].pc = "reading"
  /\ LET t == Tables[opening[p].table] IN
       IF Rows(t) # {}
       THEN opening' = [opening EXCEPT ![p].pc = "writing", ![p].seen = rows[t]]
       ELSE IF opening[p].table = Len(Tables) THEN GoTo(p, "writing")
       ELSE opening' = [opening EXCEPT ![p].table = @ + 1]
  /\ UNCHANGED database

\* Faulty variant: only the first table with rows is rewritten.
BugOneTable(p) ==
  LET i == opening[p].table IN
  [t \in DOMAIN rows |-> [k \in Attempts |->
     IF t = Tables[i] /\ opening[p].seen # None /\ opening[p].seen[k] # None
     THEN [opening[p].seen[k] EXCEPT !.canonical = TRUE]
     ELSE rows[t][k]]]

\* The documents after the UPDATEs: what was seen of the first table with rows,
\* and what is there now of the tables after it, rewritten canonically.
Rewritten(p) ==
  LET i == opening[p].table
      Later == {Tables[j] : j \in i + 1 .. Len(Tables)} IN
  [t \in DOMAIN rows |-> [k \in Attempts |->
     IF t = Tables[i] /\ opening[p].seen # None /\ opening[p].seen[k] # None
     THEN [opening[p].seen[k] EXCEPT !.canonical = TRUE]
     ELSE IF t \in Later /\ rows[t][k] # None
     THEN [rows[t][k] EXCEPT !.canonical = TRUE]
     ELSE rows[t][k]]]

Receipt(a, documents, by) == [revision |-> documents["attempts"][a].revision, by |-> by]

\* Faulty variant: INSERT OR REPLACE.
BugReceiptsReplaced(documents) ==
  [a \in Attempts |-> IF status[a] = "finalized"
                      THEN Receipt(a, documents, "migration") ELSE receipts[a]]

\* INSERT OR IGNORE of a receipt for every attempt in status finalized.
ReceiptsFor(documents) ==
  [a \in Attempts |-> IF status[a] = "finalized" /\ receipts[a] = None
                      THEN Receipt(a, documents, "migration") ELSE receipts[a]]

\* Faulty variant: the version is written first and stays when a document is
\* rejected.
BugVersionFirst(p) ==
  /\ opening[p].pc = "writing"
  /\ version' = Current
  /\ IF Readable
     THEN /\ rows' = Rewritten(p)
          /\ receipts' = ReceiptsFor(Rewritten(p))
          /\ GoTo(p, "ready")
          /\ UNCHANGED status
     ELSE GoTo(p, "unreadable") /\ UNCHANGED <<rows, status, receipts>>

\* From the first UPDATE to the commit; a document its model rejects raises
\* and rolls everything back.
Migrate(p) ==
  /\ opening[p].pc = "writing"
  /\ IF Readable
     THEN /\ rows' = Rewritten(p)
          /\ receipts' = ReceiptsFor(Rewritten(p))
          /\ version' = Current
          /\ GoTo(p, "ready")
          /\ UNCHANGED status
     ELSE GoTo(p, "unreadable") /\ UNCHANGED database

\* A process that is done, or dies.
Close(p) ==
  /\ opening[p].pc # "closed"
  /\ opening' = [opening EXCEPT ![p] = Closed]
  /\ UNCHANGED database

-----------------------------------------------------------------------------
(* The use of an open store, as far as it changes documents.               *)

\* begin_attempt writes the row, and the environment when it is not there yet.
BeginAttempt(a) ==
  /\ rows["attempts"][a] = None
  /\ rows' = [rows EXCEPT !["attempts"][a] = Fresh(0),
                          !["environments"][a] = IF @ = None THEN Fresh(0) ELSE @]
  /\ status' = [status EXCEPT ![a] = "open"]
  /\ UNCHANGED <<version, receipts>>

\* append_trace, and create_episode, which needs an event.
AppendTrace(a) ==
  /\ rows["trace_events"][a] = None
  /\ rows' = [rows EXCEPT !["trace_events"][a] = Fresh(0)]
  /\ UNCHANGED <<version, status, receipts>>

CreateEpisode(a) ==
  /\ rows["episodes"][a] = None /\ rows["trace_events"][a] # None
  /\ rows' = [rows EXCEPT !["episodes"][a] = Fresh(0)]
  /\ UNCHANGED <<version, status, receipts>>

TransitionEpisode(a) ==
  /\ rows["episodes"][a] # None
  /\ rows["episodes"][a].revision < MaxRevision
  /\ rows' = [rows EXCEPT !["episodes"][a] = Fresh(@.revision + 1)]
  /\ UNCHANGED <<version, status, receipts>>

\* finalize_attempt_with_receipt needs a journal.
FinalizeAttempt(a) ==
  /\ rows["attempts"][a] # None /\ rows["attempts"][a].revision = 0
  /\ rows["trace_events"][a] # None
  /\ rows' = [rows EXCEPT !["attempts"][a] = Fresh(1)]
  /\ status' = [status EXCEPT ![a] = "finalized"]
  /\ receipts' = [receipts EXCEPT ![a] = Receipt(a, rows', "finalization")]
  /\ UNCHANGED version

Use(p) ==
  /\ opening[p].pc = "ready"
  /\ \E a \in Attempts :
       BeginAttempt(a) \/ AppendTrace(a) \/ CreateEpisode(a)
         \/ TransitionEpisode(a) \/ FinalizeAttempt(a)
  /\ UNCHANGED opening

MigrationInit ==
  \E d \in Databases :
    /\ version = d.version /\ rows = d.rows
    /\ status = d.status /\ receipts = d.receipts
    /\ opening = [p \in Processes |-> Closed]

OpenStep(p) == ReadVersion(p) \/ Claim(p) \/ ReadTable(p) \/ Migrate(p)

MigrationNext == \E p \in Processes : Open(p) \/ OpenStep(p) \/ Use(p) \/ Close(p)

MigrationSpec == MigrationInit /\ [][MigrationNext]_vars

-----------------------------------------------------------------------------
(* What opening promises.                                                  *)

\* The database is one of this code, and every process is somewhere in it.
MigrationTypeOK ==
  /\ IsDatabase([version |-> version, rows |-> rows, status |-> status,
                 receipts |-> receipts])
  /\ \A p \in Processes :
       /\ opening[p].pc \in {"closed", "version", "claiming", "reading", "writing",
                             "ready", "unsupported", "unreadable", "overtaken"}
       /\ opening[p].table \in DOMAIN Tables
       /\ opening[p].pc = "ready" => version = Current

\* A receipt proves the document of its attempt (RecordingReceipt): the
\* attempt is final in its document and in its status, and a finalized attempt
\* of a database of version 4 has a receipt.
ReceiptsMatch ==
  \A a \in Attempts :
    /\ receipts[a] # None =>
         /\ rows["attempts"][a].revision = receipts[a].revision
         /\ status[a] = "finalized"
    /\ version = Current /\ status[a] = "finalized" => receipts[a] # None

\* Version 4 says that every document is written canonically, however many
\* processes migrate, use the store or die meanwhile.
VersionTellsEncoding ==
  version = Current =>
    \A i \in DOMAIN Tables : \A k \in Rows(Tables[i]) : rows[Tables[i]][k].canonical

\* No process loses what another has done: a document is never set back by a
\* migration that read it earlier, a receipt never replaced, a version never
\* lowered.
NothingIsUndone ==
  [][/\ \A t \in DOMAIN rows : \A k \in Rows(t) :
          rows'[t][k] # None /\ rows'[t][k].revision >= rows[t][k].revision
     /\ \A a \in Attempts : receipts[a] # None => receipts'[a] = receipts[a]
     /\ version # None => version' >= version
    ]_vars

\* The version is true of the database: every row is a document, a process that
\* has the store has one of version 4, and its documents are all canonical
\* (_migrate).
VersionIsTrue == MigrationTypeOK /\ VersionTellsEncoding

\* A process that raises tells why, and it stays so while others go on: it read
\* a version this code does not know; or a document its model rejects, and then
\* the database is still the old one, not half migrated; or, with an
\* IntegrityError, another process has created the database meanwhile.  The last
\* is an exception to what one would expect: that database could be used
\* (UsableIsOpened).
RefusalIsJustified ==
  \A p \in Processes :
    /\ opening[p].pc = "unsupported" => version \notin {None, Current} \cup Migratable
    /\ opening[p].pc = "unreadable" => version \in Migratable /\ ~Readable
    /\ opening[p].pc = "overtaken" => version = Current

-----------------------------------------------------------------------------
(* What one would expect and the code does not keep (README.md).           *)

\* No process fails to open a database of a version it knows whose documents
\* it can read: the loser of a race to create one does (_migrate).
UsableIsOpened ==
  \A p \in Processes :
    opening[p].pc \in {"unsupported", "unreadable", "overtaken"} =>
      version \notin {None, Current} \cup Migratable \/ ~Readable
=============================================================================
