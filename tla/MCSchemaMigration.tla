--------------------------- MODULE MCSchemaMigration ---------------------------
(***************************************************************************)
(* Two processes and databases of every version, with and without rows.    *)
(***************************************************************************)
EXTENDS SchemaMigration

CONSTANTS
  p1, p2, a1, a2,
  Quiet     \* databases that are opened and not used

Nobody == [a \in Attempts |-> None]
OldDocument(n) == [revision |-> n, canonical |-> FALSE, valid |-> TRUE]

\* A database with an event and an attempt under a1, as an old version left it.
Old(v, event, attempt) ==
  [version |-> v,
   rows |-> [t \in {"trace_events", "episodes", "environments", "attempts"} |->
               [a \in Attempts |->
                  IF a # a1 THEN None
                  ELSE CASE t = "trace_events" -> event
                         [] t = "episodes" -> None
                         [] OTHER -> attempt]],
   status |-> [a \in Attempts |->
                 IF a # a1 \/ attempt = None THEN None
                 ELSE IF attempt.revision = 1 THEN "finalized" ELSE "open"],
   receipts |-> Nobody]

EmptyV3 == {Old(3, None, None)}

\* Old databases without events: what comes of using one while it is migrated is
\* a question of its own (StaleMigration.cfg).
WithoutEvents == EmptyV3 \cup {Old(2, None, OldDocument(0))}

\* Of every version; with and without rows; one with a document that cannot be
\* read.
SomeDatabases ==
  WithoutEvents \cup
  {Old(None, None, None),
   Old(3, OldDocument(0), OldDocument(0)),
   Old(2, OldDocument(0), OldDocument(1)),
   Old(2, OldDocument(0), None),
   Old(3, OldDocument(0), [OldDocument(1) EXCEPT !.valid = FALSE]),
   Old(5, None, None)}

-----------------------------------------------------------------------------
VARIABLE found     \* the database the processes found

FoundInit ==
  /\ MigrationInit
  /\ found = [version |-> version, rows |-> rows, status |-> status, receipts |-> receipts]

FoundSpec ==
  /\ FoundInit
  /\ [][/\ MigrationNext /\ UNCHANGED found
        /\ found \in Quiet => opening' # opening]_<<vars, found>>
=============================================================================
