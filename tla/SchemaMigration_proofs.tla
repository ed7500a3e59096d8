----------------------- MODULE SchemaMigration_proofs -----------------------
(***************************************************************************)
(* Proofs about SchemaMigration, for any number of processes that open and *)
(* use any database an earlier version may have left.                      *)
(***************************************************************************)
EXTENDS SchemaMigration, TLAPS

Names == {"trace_events", "episodes", "environments", "attempts"}

Column == [Attempts -> Documents \cup {None}]

Openings ==
  [pc : {"closed", "version", "claiming", "reading", "writing", "ready",
         "unsupported", "unreadable", "overtaken"},
   table : 1 .. 4, seen : Column \cup {None}]

LEMMA TablesAre ==
  /\ DOMAIN Tables = 1 .. 4 /\ Len(Tables) = 4
  /\ {Tables[i] : i \in DOMAIN Tables} = Names
  /\ \A i \in 1 .. 4 : Tables[i] \in Names
  /\ \A i, j \in 1 .. 4 : Tables[i] = Tables[j] => i = j
  /\ \A t \in Names : \E i \in 1 .. 4 : t = Tables[i]
  /\ Tables[4] = "attempts"
  BY DEF Tables, Names

-----------------------------------------------------------------------------
(* The invariant.                                                          *)

TypeInv ==
  /\ version \in {None, Current, 5} \cup Migratable
  /\ rows \in [Names -> Column]
  /\ status \in [Attempts -> {"open", "finalized", None}]
  /\ receipts \in [Attempts -> Receipts \cup {None}]
  /\ opening \in [Processes -> Openings]

\* What the version tells of the rows.
EncodingInv ==
  \A t \in Names : \A k \in Attempts :
    rows[t][k] # None =>
      version # None /\ (version = Current => rows[t][k].canonical)

\* What the version tells of the processes.
OpeningInv ==
  \A p \in Processes :
    /\ opening[p].pc = "ready" => version = Current
    /\ opening[p].pc = "claiming" => version \in {None, Current}
    /\ opening[p].pc \in {"reading", "writing"} => version \in Migratable \cup {Current}
    /\ opening[p].pc = "version" => opening[p].table = 1
    /\ opening[p].pc \in {"version", "reading"} => opening[p].seen = None

\* Until somebody has migrated, a process has seen what there is: the tables
\* before its own have no rows, and of its own it has seen every row.
SeenInv ==
  version # Current =>
    \A p \in Processes :
      /\ opening[p].pc \in {"reading", "writing"} =>
           \A j \in 1 .. opening[p].table - 1 : Rows(Tables[j]) = {}
      /\ opening[p].pc = "writing" =>
           IF opening[p].seen # None
           THEN opening[p].seen = rows[Tables[opening[p].table]]
           ELSE Rows(Tables[opening[p].table]) = {}

\* An attempt that waits for its receipt is final in its row, and in what any
\* process has seen of it.
ReceiptInv ==
  \A a \in Attempts :
    status[a] = "finalized" /\ receipts[a] = None =>
      /\ rows["attempts"][a] # None /\ rows["attempts"][a].revision = 1
      /\ \A p \in Processes :
           /\ opening[p].pc = "writing" /\ opening[p].seen # None
           /\ opening[p].table = 4
           => opening[p].seen[a] # None /\ opening[p].seen[a].revision = 1

MigrationInv == TypeInv /\ EncodingInv /\ OpeningInv /\ SeenInv /\ ReceiptInv

LEMMA MigrationInvInit == MigrationInit => MigrationInv
  <1> SUFFICES ASSUME MigrationInit PROVE MigrationInv
    OBVIOUS
  <1>1. PICK d \in Databases :
               /\ version = d.version /\ rows = d.rows
               /\ status = d.status /\ receipts = d.receipts
               /\ opening = [p \in Processes |-> Closed]
    BY DEF MigrationInit
  <1>2. IsDatabase(d) /\ IsConsistent(d)
    BY MigrationAssumptions
  <1>3. Closed \in Openings /\ Closed.pc = "closed"
    BY DEF Closed, Openings
  <1>4. TypeInv
    BY <1>1, <1>2, <1>3, TablesAre DEF TypeInv, IsDatabase, Column
  <1>5. \A p \in Processes : opening[p].pc = "closed"
    BY <1>1, <1>3
  <1>6. EncodingInv
    BY <1>1, <1>2, <1>4 DEF EncodingInv, IsConsistent, TypeInv
  <1>7. OpeningInv /\ SeenInv
    BY <1>5 DEF OpeningInv, SeenInv
  <1>8. ReceiptInv
    BY <1>1, <1>2, <1>5 DEF ReceiptInv, IsConsistent
  <1>9. QED
    BY <1>4, <1>6, <1>7, <1>8 DEF MigrationInv

-----------------------------------------------------------------------------
(* The steps of an opening.                                                *)

\* A process goes to another step.
LEMMA Moves ==
  ASSUME opening \in [Processes -> Openings], NEW p \in Processes, NEW o \in Openings,
         opening' = [opening EXCEPT ![p] = o]
  PROVE  /\ opening' \in [Processes -> Openings]
         /\ opening'[p] = o
         /\ \A q \in Processes : q # p => opening'[q] = opening[q]
  OBVIOUS

LEMMA Goes ==
  ASSUME opening \in [Processes -> Openings], NEW p \in Processes,
         NEW pc \in {"closed", "version", "claiming", "reading", "writing", "ready",
                     "unsupported", "unreadable", "overtaken"},
         GoTo(p, pc)
  PROVE  /\ opening' \in [Processes -> Openings]
         /\ opening'[p].pc = pc /\ opening'[p].table = opening[p].table
         /\ opening'[p].seen = opening[p].seen
         /\ \A q \in Processes : q # p => opening'[q] = opening[q]
  <1>1. \A o \in Openings : [o EXCEPT !.pc = pc] \in Openings
    BY DEF Openings
  <1>2. opening' = [opening EXCEPT ![p] = [opening[p] EXCEPT !.pc = pc]]
    BY DEF GoTo, Openings
  <1>3. /\ opening' \in [Processes -> Openings]
        /\ opening'[p] = [opening[p] EXCEPT !.pc = pc]
        /\ \A q \in Processes : q # p => opening'[q] = opening[q]
    BY <1>1, <1>2, Moves
  <1>4. QED
    BY <1>3 DEF Openings

\* A process that is told apart from the database by nothing but its step.
LEMMA IdleStep ==
  ASSUME MigrationInv, NEW p \in Processes, UNCHANGED database,
         opening' \in [Processes -> Openings],
         \A q \in Processes : q # p => opening'[q] = opening[q],
         opening'[p].pc = "closed" \/ opening'[p] = [Closed EXCEPT !.pc = "version"]
  PROVE  MigrationInv'
  <1>0. /\ opening'[p].pc \in {"closed", "version"}
        /\ opening'[p].pc = "version" => opening'[p].table = 1 /\ opening'[p].seen = None
    BY DEF Closed
  <1>1. TypeInv' /\ EncodingInv'
    BY DEF MigrationInv, TypeInv, EncodingInv, database
  <1>2. OpeningInv'
    BY <1>0 DEF MigrationInv, OpeningInv, database
  <1>3. SeenInv'
    BY <1>0 DEF MigrationInv, SeenInv, database, Rows
  <1>4. ReceiptInv'
    BY <1>0 DEF MigrationInv, ReceiptInv, database
  <1>5. QED
    BY <1>1, <1>2, <1>3, <1>4 DEF MigrationInv

LEMMA OpenStepsKeep ==
  ASSUME MigrationInv, NEW p \in Processes, Open(p) \/ Close(p)
  PROVE  MigrationInv'
  <1>1. Closed \in Openings /\ [Closed EXCEPT !.pc = "version"] \in Openings
        /\ Closed.pc = "closed"
    BY DEF Closed, Openings
  <1>2. PICK o \in Openings : /\ opening' = [opening EXCEPT ![p] = o]
                              /\ o.pc = "closed" \/ o = [Closed EXCEPT !.pc = "version"]
    BY <1>1 DEF Open, Close
  <1>3. /\ opening' \in [Processes -> Openings] /\ opening'[p] = o
        /\ \A q \in Processes : q # p => opening'[q] = opening[q]
    BY <1>2, Moves DEF MigrationInv, TypeInv
  <1>4. UNCHANGED database
    BY DEF Open, Close
  <1>5. QED
    BY <1>2, <1>3, <1>4, IdleStep

LEMMA ReadVersionKeeps ==
  ASSUME MigrationInv, NEW p \in Processes, ReadVersion(p)
  PROVE  MigrationInv'
  <1> DEFINE pc == AfterVersion(version)
  <1>1. /\ pc \in {"claiming", "reading", "ready", "unsupported"}
        /\ pc = "claiming" => version = None
        /\ pc = "reading" => version \in Migratable
        /\ pc = "ready" => version = Current
    <2>1. /\ None \notin Migratable /\ None # Current /\ Current \notin Migratable
      BY MigrationAssumptions DEF Migratable, Current
    <2>2. CASE version = None
      BY <2>1, <2>2 DEF AfterVersion
    <2>3. CASE version \in Migratable
      BY <2>1, <2>3 DEF AfterVersion
    <2>4. CASE version = Current
      BY <2>1, <2>4 DEF AfterVersion
    <2>5. CASE version \notin {None, Current} \cup Migratable
      BY <2>5 DEF AfterVersion
    <2>6. QED
      BY <2>2, <2>3, <2>4, <2>5
  <1> HIDE DEF pc
  <1>2. /\ opening' \in [Processes -> Openings]
        /\ opening'[p].pc = pc
        /\ \A q \in Processes : q # p => opening'[q] = opening[q]
        /\ UNCHANGED database
    BY <1>1, Goes DEF ReadVersion, MigrationInv, TypeInv, pc
  <1>3. opening[p].pc = "version" /\ opening[p].table = 1 /\ opening[p].seen = None
    BY DEF ReadVersion, MigrationInv, OpeningInv
  <1>4. opening'[p].table = 1 /\ opening'[p].seen = None
    BY <1>3, Goes, <1>1 DEF ReadVersion, MigrationInv, TypeInv, pc
  <1>5. TypeInv' /\ EncodingInv'
    BY <1>2 DEF MigrationInv, TypeInv, EncodingInv, database
  <1>6. OpeningInv'
    BY <1>1, <1>2, <1>4 DEF MigrationInv, OpeningInv, database
  <1>7. SeenInv'
    BY <1>1, <1>2, <1>4 DEF MigrationInv, SeenInv, database, Rows
  <1>8. ReceiptInv'
    BY <1>1, <1>2 DEF MigrationInv, ReceiptInv, database
  <1>9. QED
    BY <1>5, <1>6, <1>7, <1>8 DEF MigrationInv

LEMMA ClaimKeeps ==
  ASSUME MigrationInv, NEW p \in Processes, Claim(p)
  PROVE  MigrationInv'
  <1>0. None \notin Migratable /\ None # Current /\ Current \notin Migratable
    BY MigrationAssumptions DEF Migratable, Current
  <1>1. version' = Current /\ version \in {None, Current}
    BY DEF Claim, MigrationInv, OpeningInv
  <1>2. /\ opening' \in [Processes -> Openings]
        /\ opening'[p].pc \in {"ready", "overtaken"}
        /\ \A q \in Processes : q # p => opening'[q] = opening[q]
    BY Goes DEF Claim, MigrationInv, TypeInv
  <1>3. UNCHANGED <<rows, status, receipts>>
    BY DEF Claim
  <1>4. TypeInv' /\ EncodingInv'
    BY <1>1, <1>2, <1>3 DEF MigrationInv, TypeInv, EncodingInv
  <1>5. OpeningInv' /\ SeenInv'
    BY <1>0, <1>1, <1>2 DEF MigrationInv, OpeningInv, SeenInv
  <1>6. ReceiptInv'
    BY <1>2, <1>3 DEF MigrationInv, ReceiptInv
  <1>7. QED
    BY <1>4, <1>5, <1>6 DEF MigrationInv

LEMMA ReadTableKeeps ==
  ASSUME MigrationInv, NEW p \in Processes, ReadTable(p)
  PROVE  MigrationInv'
  <1> DEFINE n == opening[p].table
             t == Tables[n]
  <1>0. /\ n \in 1 .. 4 /\ t \in Names /\ opening[p] \in Openings
        /\ opening[p].pc = "reading" /\ opening[p].seen = None
        /\ rows[t] \in Column /\ rows[t] # None
        /\ UNCHANGED database
    <2>1. opening[p] \in Openings /\ rows \in [Names -> Column]
      BY DEF MigrationInv, TypeInv
    <2>2. n \in 1 .. 4
      BY <2>1 DEF Openings
    <2>3. t \in Names
      BY <2>2, TablesAre
    <2>4. rows[t] \in Column /\ rows[t] # None
      BY <2>1, <2>3, MigrationAssumptions DEF Column
    <2>5. QED
      BY <2>1, <2>2, <2>3, <2>4 DEF ReadTable, MigrationInv, OpeningInv
  <1>1. /\ opening' \in [Processes -> Openings]
        /\ \A q \in Processes : q # p => opening'[q] = opening[q]
        /\ \/ /\ opening'[p].pc = "writing" /\ opening'[p].table = n
              /\ opening'[p].seen = rows[t]
           \/ /\ opening'[p].pc = "writing" /\ opening'[p].table = n
              /\ opening'[p].seen = None /\ Rows(t) = {}
           \/ /\ opening'[p].pc = "reading" /\ opening'[p].table = n + 1
              /\ opening'[p].seen = None /\ Rows(t) = {}
    <2>1. CASE Rows(t) # {}
      <3> DEFINE o == [opening[p] EXCEPT !.pc = "writing", !.seen = rows[t]]
      <3>1. o \in Openings /\ o.pc = "writing" /\ o.table = n /\ o.seen = rows[t]
        BY <1>0 DEF Openings
      <3>2. opening' = [opening EXCEPT ![p] = o]
        BY <2>1, <1>0 DEF ReadTable, Openings
      <3> HIDE DEF o
      <3>3. QED
        BY <3>1, <3>2, Moves DEF MigrationInv, TypeInv
    <2>2. CASE Rows(t) = {} /\ n = Len(Tables)
      <3>1. GoTo(p, "writing")
        BY <2>2 DEF ReadTable
      <3>2. QED
        BY <1>0, <2>2, <3>1, Goes DEF MigrationInv, TypeInv
    <2>3. CASE Rows(t) = {} /\ n # Len(Tables)
      <3> DEFINE o == [opening[p] EXCEPT !.table = n + 1]
      <3>0. n + 1 \in 1 .. 4
        BY <1>0, <2>3, TablesAre
      <3>1. /\ o \in Openings /\ o.pc = "reading" /\ o.table = n + 1 /\ o.seen = None
        BY <1>0, <3>0 DEF Openings
      <3>2. opening' = [opening EXCEPT ![p] = o]
        BY <2>3, <1>0 DEF ReadTable, Openings
      <3> HIDE DEF o
      <3>3. QED
        BY <2>3, <3>1, <3>2, Moves DEF MigrationInv, TypeInv
    <2>4. QED
      BY <2>1, <2>2, <2>3
  <1>2. TypeInv' /\ EncodingInv'
    BY <1>0, <1>1 DEF MigrationInv, TypeInv, EncodingInv, database
  <1>3. OpeningInv'
    BY <1>0, <1>1 DEF MigrationInv, OpeningInv, database
  <1>4. ASSUME version # Current
        PROVE  /\ \A j \in 1 .. opening'[p].table - 1 : Rows(Tables[j]) = {}
               /\ opening'[p].pc = "writing" =>
                    IF opening'[p].seen # None
                    THEN opening'[p].seen = rows[Tables[opening'[p].table]]
                    ELSE Rows(Tables[opening'[p].table]) = {}
    <2>1. \A j \in 1 .. n - 1 : Rows(Tables[j]) = {}
      BY <1>0, <1>4 DEF MigrationInv, SeenInv
    <2>2. \A j \in 1 .. n : j \in 1 .. n - 1 \/ j = n
      BY <1>0
    <2>3. Rows(t) = {} => \A j \in 1 .. n : Rows(Tables[j]) = {}
      BY <2>1, <2>2
    <2>4. n + 1 - 1 = n
      BY <1>0
    <2>5. QED
      BY <1>0, <1>1, <2>1, <2>3, <2>4
  <1>5. SeenInv'
    BY <1>0, <1>1, <1>4 DEF MigrationInv, SeenInv, database, Rows
  <1>6. ReceiptInv'
    BY <1>0, <1>1, TablesAre DEF MigrationInv, ReceiptInv, database
  <1>7. QED
    BY <1>2, <1>3, <1>5, <1>6 DEF MigrationInv

-----------------------------------------------------------------------------
(* The migration.                                                          *)

\* A document written canonically is a document of the same revision.
LEMMA Canonical ==
  ASSUME NEW d \in Documents \cup {None}, d # None
  PROVE  LET e == [d EXCEPT !.canonical = TRUE]
         IN  /\ e \in Documents /\ e # None
             /\ e.canonical /\ e.revision = d.revision
  <1>1. [d EXCEPT !.canonical = TRUE] \in Documents
    BY DEF Documents
  <1>2. None \notin Documents
    BY MigrationAssumptions
  <1>3. QED
    BY <1>1, <1>2 DEF Documents

\* What a migration writes of a row.
LEMMA Rewrites ==
  ASSUME MigrationInv, NEW p \in Processes, opening[p].pc = "writing",
         NEW t \in Names, NEW k \in Attempts
  PROVE  LET r == Rewritten(p)[t][k]
         IN  /\ r \in Documents \cup {None}
             /\ r # None => r.canonical
             /\ rows[t][k] # None => r # None
             /\ \/ r = rows[t][k]
                \/ rows[t][k] # None /\ r.revision = rows[t][k].revision
                \/ /\ t = Tables[opening[p].table] /\ opening[p].seen # None
                   /\ opening[p].seen[k] # None
                   /\ r.revision = opening[p].seen[k].revision
  <1> DEFINE i == opening[p].table
             seen == opening[p].seen
             Later == {Tables[j] : j \in i + 1 .. Len(Tables)}
             r == Rewritten(p)[t][k]
  <1>1. /\ rows \in [Names -> Column] /\ rows[t][k] \in Documents \cup {None}
        /\ i \in 1 .. 4 /\ seen \in Column \cup {None}
    <2>1. rows \in [Names -> Column] /\ opening[p] \in Openings
      BY DEF MigrationInv, TypeInv
    <2>2. rows[t][k] \in Documents \cup {None}
      BY <2>1 DEF Column
    <2>3. QED
      BY <2>1, <2>2 DEF Openings
  <1>2. r = IF t = Tables[i] /\ seen # None /\ seen[k] # None
            THEN [seen[k] EXCEPT !.canonical = TRUE]
            ELSE IF t \in Later /\ rows[t][k] # None
            THEN [rows[t][k] EXCEPT !.canonical = TRUE]
            ELSE rows[t][k]
    BY <1>1 DEF Rewritten
  <1> HIDE DEF r
  <1>3. CASE t = Tables[i] /\ seen # None /\ seen[k] # None
    <2>1. seen[k] \in Documents \cup {None}
      BY <1>1, <1>3 DEF Column
    <2>2. r = [seen[k] EXCEPT !.canonical = TRUE]
      BY <1>2, <1>3
    <2>3. r \in Documents /\ r # None /\ r.canonical /\ r.revision = seen[k].revision
      BY <2>1, <2>2, <1>3, Canonical
    <2>4. QED
      BY <2>3, <1>3 DEF r
  <1>4. CASE ~(t = Tables[i] /\ seen # None /\ seen[k] # None)
             /\ t \in Later /\ rows[t][k] # None
    <2>1. r = [rows[t][k] EXCEPT !.canonical = TRUE]
      BY <1>2, <1>4
    <2>2. r \in Documents /\ r # None /\ r.canonical /\ r.revision = rows[t][k].revision
      BY <2>1, <1>1, <1>4, Canonical
    <2>3. QED
      BY <2>2, <1>4 DEF r
  <1>5. CASE ~(t = Tables[i] /\ seen # None /\ seen[k] # None)
             /\ ~(t \in Later /\ rows[t][k] # None)
    <2>1. r = rows[t][k]
      BY <1>2, <1>5
    <2>2. ASSUME rows[t][k] # None PROVE rows[t][k].canonical
      <3>1. CASE version = Current
        BY <2>2, <3>1 DEF MigrationInv, EncodingInv
      <3>2. CASE version # Current
        <4>1. PICK j \in 1 .. 4 : t = Tables[j]
          BY TablesAre
        <4>2. k \in Rows(t)
          BY <2>2 DEF Rows
        <4>3. /\ \A m \in 1 .. i - 1 : Rows(Tables[m]) = {}
              /\ IF seen # None THEN seen = rows[Tables[i]] ELSE Rows(Tables[i]) = {}
          BY <3>2 DEF MigrationInv, SeenInv
        <4>4. j \notin 1 .. i - 1
          BY <4>1, <4>2, <4>3
        <4>5. j \notin i + 1 .. Len(Tables)
          BY <4>1, <1>5, <2>2
        <4>6. j = i
          BY <4>4, <4>5, <1>1, TablesAre
        <4>7. seen # None /\ seen[k] # None
          BY <4>1, <4>2, <4>3, <4>6, <2>2
        <4>8. QED
          BY <4>1, <4>6, <4>7, <1>5
      <3>3. QED
        BY <3>1, <3>2
    <2>3. QED
      BY <2>1, <2>2, <1>1 DEF r
  <1>6. QED
    BY <1>3, <1>4, <1>5

\* An attempt that waits for its receipt gets one for its final document.
LEMMA ReceiptsAreFinal ==
  ASSUME MigrationInv, NEW p \in Processes, opening[p].pc = "writing",
         NEW a \in Attempts
  PROVE  LET r == ReceiptsFor(Rewritten(p))[a]
         IN  r \in Receipts \cup {None} /\ (status[a] = "finalized" => r # None)
  <1> DEFINE rec == Receipt(a, Rewritten(p), "migration")
             r == ReceiptsFor(Rewritten(p))[a]
  <1>1. r = IF status[a] = "finalized" /\ receipts[a] = None THEN rec ELSE receipts[a]
    BY DEF ReceiptsFor
  <1>2. receipts[a] \in Receipts \cup {None}
    BY DEF MigrationInv, TypeInv
  <1>3. ASSUME status[a] = "finalized", receipts[a] = None
        PROVE  rec \in Receipts /\ rec # None
    <2>1. /\ rows["attempts"][a] # None /\ rows["attempts"][a].revision = 1
          /\ opening[p].seen # None /\ opening[p].table = 4
             => opening[p].seen[a] # None /\ opening[p].seen[a].revision = 1
      BY <1>3 DEF MigrationInv, ReceiptInv
    <2>2. opening[p].table \in 1 .. 4
      BY DEF MigrationInv, TypeInv, Openings
    <2>3. "attempts" = Tables[opening[p].table] => opening[p].table = 4
      BY <2>2, TablesAre
    <2>4. "attempts" \in Names
      BY DEF Names
    <2>5. Rewritten(p)["attempts"][a].revision = 1
      BY <2>1, <2>3, <2>4, Rewrites
    <2>6. rec = [revision |-> 1, by |-> "migration"]
      BY <2>5 DEF Receipt
    <2>7. None \notin Receipts
      BY MigrationAssumptions
    <2>8. QED
      BY <2>6, <2>7 DEF Receipts
  <1> HIDE DEF rec, r
  <1>4. QED
    BY <1>1, <1>2, <1>3 DEF r

LEMMA MigrateKeeps ==
  ASSUME MigrationInv, NEW p \in Processes, Migrate(p)
  PROVE  MigrationInv'
  <1>0. /\ opening[p].pc = "writing"
        /\ None # Current /\ Current \notin Migratable
    BY MigrationAssumptions DEF Migrate, Current, Migratable
  <1>1. CASE Readable
    <2> DEFINE R == Rewritten(p)
               C == ReceiptsFor(Rewritten(p))
    <2>1. /\ rows' = R /\ receipts' = C
          /\ version' = Current /\ status' = status
          /\ GoTo(p, "ready")
      BY <1>1 DEF Migrate
    <2>2. /\ opening' \in [Processes -> Openings]
          /\ opening'[p].pc = "ready"
          /\ \A q \in Processes : q # p => opening'[q] = opening[q]
      BY <2>1, Goes DEF MigrationInv, TypeInv
    <2>3. R \in [Names -> Column]
      <3>1. DOMAIN rows = Names
        BY DEF MigrationInv, TypeInv
      <3>2. R = [t \in Names |-> [k \in Attempts |-> R[t][k]]]
        BY <3>1, Zenon DEF Rewritten
      <3>3. \A t \in Names : \A k \in Attempts : R[t][k] \in Documents \cup {None}
        BY <1>0, Rewrites
      <3> HIDE DEF R
      <3>4. QED
        BY <3>2, <3>3 DEF Column
    <2>4. C \in [Attempts -> Receipts \cup {None}]
      <3>1. C = [a \in Attempts |-> C[a]]
        BY DEF ReceiptsFor
      <3>2. \A a \in Attempts : C[a] \in Receipts \cup {None}
        BY <1>0, ReceiptsAreFinal
      <3> HIDE DEF C
      <3>3. QED
        BY <3>1, <3>2
    <2>5. \A a \in Attempts : status[a] = "finalized" => C[a] # None
      BY <1>0, ReceiptsAreFinal
    <2>6. \A t \in Names : \A k \in Attempts : R[t][k] # None => R[t][k].canonical
      BY <1>0, Rewrites
    <2> HIDE DEF R, C
    <2>7. TypeInv'
      BY <2>1, <2>2, <2>3, <2>4 DEF MigrationInv, TypeInv
    <2>8. EncodingInv'
      BY <1>0, <2>1, <2>6 DEF EncodingInv
    <2>9. OpeningInv'
      BY <2>1, <2>2 DEF MigrationInv, OpeningInv
    <2>10. SeenInv' /\ ReceiptInv'
      BY <1>0, <2>1, <2>5 DEF SeenInv, ReceiptInv
    <2>11. QED
      BY <2>7, <2>8, <2>9, <2>10 DEF MigrationInv
  <1>2. CASE ~Readable
    <2>1. GoTo(p, "unreadable") /\ UNCHANGED database
      BY <1>2 DEF Migrate
    <2>2. /\ opening' \in [Processes -> Openings]
          /\ opening'[p].pc = "unreadable"
          /\ \A q \in Processes : q # p => opening'[q] = opening[q]
      BY <2>1, Goes DEF MigrationInv, TypeInv
    <2>3. TypeInv' /\ EncodingInv'
      BY <2>1, <2>2 DEF MigrationInv, TypeInv, EncodingInv, database
    <2>4. OpeningInv'
      BY <2>1, <2>2 DEF MigrationInv, OpeningInv, database
    <2>5. SeenInv'
      BY <2>1, <2>2 DEF MigrationInv, SeenInv, database, Rows
    <2>6. ReceiptInv'
      BY <2>1, <2>2 DEF MigrationInv, ReceiptInv, database
    <2>7. QED
      BY <2>3, <2>4, <2>5, <2>6 DEF MigrationInv
  <1>3. QED
    BY <1>1, <1>2

-----------------------------------------------------------------------------
(* The use.                                                                *)

LEMMA FreshIs ==
  ASSUME NEW n \in 0 .. MaxRevision
  PROVE  Fresh(n) \in Documents /\ Fresh(n).canonical /\ Fresh(n).revision = n
         /\ Fresh(n) # None
  <1>1. Fresh(n) \in Documents /\ Fresh(n).canonical /\ Fresh(n).revision = n
    BY DEF Fresh, Documents
  <1>2. QED
    BY <1>1, MigrationAssumptions

\* A document is written to a row.
LEMMA Writes ==
  ASSUME NEW r \in [Names -> Column], NEW t \in Names, NEW a \in Attempts,
         NEW d \in Documents
  PROVE  LET w == [r EXCEPT ![t][a] = d]
         IN  /\ w \in [Names -> Column] /\ w[t][a] = d
             /\ \A u \in Names : \A k \in Attempts :
                  u # t \/ k # a => w[u][k] = r[u][k]
  <1> DEFINE c == [r[t] EXCEPT ![a] = d]
  <1>1. r[t] \in Column
    OBVIOUS
  <1>2. c \in Column /\ c[a] = d /\ \A k \in Attempts : k # a => c[k] = r[t][k]
    BY <1>1 DEF Column
  <1>3. [r EXCEPT ![t][a] = d] = [r EXCEPT ![t] = c]
    OBVIOUS
  <1> HIDE DEF c
  <1>4. QED
    BY <1>2, <1>3

\* What a use leaves: every row is as it was or written by this version, and an
\* attempt that waits for its receipt is not touched.
LEMMA UseStep ==
  ASSUME MigrationInv, version = Current, UNCHANGED <<version, opening>>,
         rows' \in [Names -> Column],
         status' \in [Attempts -> {"open", "finalized", None}],
         receipts' \in [Attempts -> Receipts \cup {None}],
         \A t \in Names : \A k \in Attempts :
           rows'[t][k] = rows[t][k] \/ rows'[t][k].canonical,
         \A a \in Attempts :
           status'[a] = "finalized" /\ receipts'[a] = None =>
             /\ status[a] = "finalized" /\ receipts[a] = None
             /\ rows'["attempts"][a] = rows["attempts"][a]
  PROVE  MigrationInv'
  <1>0. None # Current /\ Current \notin Migratable
    BY MigrationAssumptions DEF Current, Migratable
  <1>1. TypeInv'
    BY DEF MigrationInv, TypeInv
  <1>2. EncodingInv'
    BY <1>0 DEF MigrationInv, EncodingInv
  <1>3. OpeningInv'
    BY DEF MigrationInv, OpeningInv
  <1>4. SeenInv'
    BY <1>0 DEF SeenInv
  <1>5. ReceiptInv'
    BY DEF MigrationInv, ReceiptInv
  <1>6. QED
    BY <1>1, <1>2, <1>3, <1>4, <1>5 DEF MigrationInv

LEMMA UseKeeps ==
  ASSUME MigrationInv, NEW p \in Processes, Use(p)
  PROVE  MigrationInv'
  <1>0. /\ version = Current /\ opening' = opening
        /\ rows \in [Names -> Column]
        /\ status \in [Attempts -> {"open", "finalized", None}]
        /\ receipts \in [Attempts -> Receipts \cup {None}]
        /\ 0 \in 0 .. MaxRevision /\ 1 \in 0 .. MaxRevision
        /\ "attempts" \in Names /\ "environments" \in Names
        /\ "trace_events" \in Names /\ "episodes" \in Names
    BY MigrationAssumptions DEF Use, MigrationInv, OpeningInv, TypeInv, Names
  <1>1. PICK a \in Attempts :
               BeginAttempt(a) \/ AppendTrace(a) \/ CreateEpisode(a)
                 \/ TransitionEpisode(a) \/ FinalizeAttempt(a)
    BY DEF Use
  <1>2. /\ Fresh(0) \in Documents /\ Fresh(0).canonical
        /\ Fresh(1) \in Documents /\ Fresh(1).canonical /\ Fresh(1).revision = 1
    BY <1>0, FreshIs
  <1>3. CASE BeginAttempt(a)
    <2> DEFINE r == [rows EXCEPT !["attempts"][a] = Fresh(0)]
    <2>1. /\ r \in [Names -> Column] /\ r["attempts"][a] = Fresh(0)
          /\ \A u \in Names : \A k \in Attempts :
               u # "attempts" \/ k # a => r[u][k] = rows[u][k]
      BY <1>0, <1>2, Writes
    <2> DEFINE e == IF rows["environments"][a] = None THEN Fresh(0)
                    ELSE rows["environments"][a]
    <2>2. rows' = [r EXCEPT !["environments"][a] = e]
      <3>1. r["environments"][a] = rows["environments"][a]
        BY <1>0, <2>1
      <3>2. rows' = [r EXCEPT !["environments"][a] = IF @ = None THEN Fresh(0) ELSE @]
        BY <1>3 DEF BeginAttempt
      <3> HIDE DEF r
      <3>3. QED
        BY <3>1, <3>2
    <2> HIDE DEF r
    <2>3. /\ rows' \in [Names -> Column] /\ rows'["environments"][a] = e
          /\ \A u \in Names : \A k \in Attempts :
               u # "environments" \/ k # a => rows'[u][k] = r[u][k]
      <3>1. rows["environments"][a] \in Documents \cup {None}
        BY <1>0 DEF Column
      <3>2. e \in Documents
        BY <1>2, <3>1
      <3> HIDE DEF e
      <3>3. QED
        BY <2>1, <2>2, <3>2, <1>0, Writes
    <2>4. /\ status' = [status EXCEPT ![a] = "open"]
          /\ UNCHANGED <<version, receipts>>
      BY <1>3 DEF BeginAttempt
    <2>5. \A t \in Names : \A k \in Attempts :
            rows'[t][k] = rows[t][k] \/ rows'[t][k].canonical
      BY <2>1, <2>3, <1>2
    <2>6. \A b \in Attempts :
            status'[b] = "finalized" =>
              b # a /\ status[b] = "finalized"
              /\ rows'["attempts"][b] = rows["attempts"][b]
      BY <1>0, <2>1, <2>3, <2>4
    <2>7. QED
      BY <1>0, <2>3, <2>4, <2>5, <2>6, UseStep
  <1>4. CASE AppendTrace(a) \/ CreateEpisode(a) \/ TransitionEpisode(a)
    <2>1. PICK n \in {"trace_events", "episodes"}, doc \in Documents :
                 doc.canonical /\ rows' = [rows EXCEPT ![n][a] = doc]
      <3>1. CASE AppendTrace(a)
        BY <3>1, <1>2 DEF AppendTrace
      <3>2. CASE CreateEpisode(a)
        BY <3>2, <1>2 DEF CreateEpisode
      <3>3. CASE TransitionEpisode(a)
        <4> DEFINE m == rows["episodes"][a].revision + 1
        <4>1. rows["episodes"] \in Column
          BY <1>0
        <4>2. rows["episodes"][a] \in Documents
          BY <3>3, <4>1 DEF TransitionEpisode, Column
        <4>3. m \in 0 .. MaxRevision
          BY <3>3, <4>2, MigrationAssumptions DEF TransitionEpisode, Documents
        <4>4. rows' = [rows EXCEPT !["episodes"][a] = Fresh(m)]
          BY <3>3 DEF TransitionEpisode
        <4> HIDE DEF m
        <4>5. QED
          BY <4>3, <4>4, FreshIs
      <3>4. QED
        BY <1>4, <3>1, <3>2, <3>3
    <2>2. n \in Names /\ n # "attempts"
      BY DEF Names
    <2>3. /\ rows' \in [Names -> Column] /\ rows'[n][a] = doc
          /\ \A u \in Names : \A k \in Attempts :
               u # n \/ k # a => rows'[u][k] = rows[u][k]
      <3>1. rows \in [Names -> Column] /\ rows[n] \in Column
        BY <1>0, <2>2
      <3>2. rows' = [rows EXCEPT ![n] = [rows[n] EXCEPT ![a] = doc]]
        BY <2>1
      <3>3. [rows[n] EXCEPT ![a] = doc] \in Column
        BY <3>1 DEF Column
      <3>4. rows' \in [Names -> Column] /\ rows'[n] = [rows[n] EXCEPT ![a] = doc]
            /\ \A u \in Names : u # n => rows'[u] = rows[u]
        BY <2>2, <3>1, <3>2, <3>3
      <3>5. QED
        BY <2>2, <3>1, <3>4 DEF Column
    <2>4. UNCHANGED <<version, status, receipts>>
      BY <1>4 DEF AppendTrace, CreateEpisode, TransitionEpisode
    <2>5. \A u \in Names : \A k \in Attempts :
            rows'[u][k] = rows[u][k] \/ rows'[u][k].canonical
      BY <2>1, <2>3
    <2>6. \A b \in Attempts : rows'["attempts"][b] = rows["attempts"][b]
      BY <1>0, <2>2, <2>3
    <2>7. QED
      BY <1>0, <2>3, <2>4, <2>5, <2>6, UseStep
  <1>5. CASE FinalizeAttempt(a)
    <2>1. /\ rows' = [rows EXCEPT !["attempts"][a] = Fresh(1)]
          /\ status' = [status EXCEPT ![a] = "finalized"]
          /\ receipts' = [receipts EXCEPT ![a] = Receipt(a, rows', "finalization")]
          /\ version' = version
      BY <1>5 DEF FinalizeAttempt
    <2>2. /\ rows' \in [Names -> Column] /\ rows'["attempts"][a] = Fresh(1)
          /\ \A u \in Names : \A k \in Attempts :
               u # "attempts" \/ k # a => rows'[u][k] = rows[u][k]
      BY <1>0, <1>2, <2>1, Writes
    <2>3. Receipt(a, rows', "finalization") = [revision |-> 1, by |-> "finalization"]
      BY <1>2, <2>2 DEF Receipt
    <2>4. [revision |-> 1, by |-> "finalization"] \in Receipts /\ None \notin Receipts
      BY MigrationAssumptions DEF Receipts
    <2>5. \A t \in Names : \A k \in Attempts :
            rows'[t][k] = rows[t][k] \/ rows'[t][k].canonical
      BY <1>2, <2>2
    <2>6. receipts' \in [Attempts -> Receipts \cup {None}] /\ receipts'[a] # None
      BY <1>0, <2>1, <2>3, <2>4
    <2>7. \A b \in Attempts :
            receipts'[b] = None =>
              b # a /\ status'[b] = status[b] /\ receipts'[b] = receipts[b]
              /\ rows'["attempts"][b] = rows["attempts"][b]
      BY <1>0, <2>1, <2>2, <2>6
    <2>8. QED
      BY <1>0, <2>1, <2>2, <2>5, <2>6, <2>7, UseStep
  <1>6. QED
    BY <1>1, <1>3, <1>4, <1>5

-----------------------------------------------------------------------------
(* The theorem.                                                            *)

LEMMA MigrationStep ==
  ASSUME MigrationInv, [MigrationNext]_vars
  PROVE  MigrationInv'
  <1>1. CASE MigrationNext
    <2>1. PICK p \in Processes : Open(p) \/ OpenStep(p) \/ Use(p) \/ Close(p)
      BY <1>1 DEF MigrationNext
    <2>2. CASE Open(p) \/ Close(p)
      BY <2>2, OpenStepsKeep
    <2>3. CASE OpenStep(p)
      BY <2>3, ReadVersionKeeps, ClaimKeeps, ReadTableKeeps, MigrateKeeps DEF OpenStep
    <2>4. CASE Use(p)
      BY <2>4, UseKeeps
    <2>5. QED
      BY <2>1, <2>2, <2>3, <2>4
  <1>2. CASE UNCHANGED vars
    BY <1>2 DEF vars, MigrationInv, TypeInv, EncodingInv, OpeningInv, SeenInv,
                ReceiptInv, Rows
  <1>3. QED
    BY <1>1, <1>2

LEMMA MigrationInvTells == MigrationInv => VersionIsTrue
  <1> SUFFICES ASSUME MigrationInv PROVE VersionIsTrue
    OBVIOUS
  <1>1. MigrationTypeOK
    <2>1. IsDatabase([version |-> version, rows |-> rows, status |-> status,
                      receipts |-> receipts])
      BY TablesAre DEF MigrationInv, TypeInv, IsDatabase, Column
    <2>2. \A p \in Processes :
            /\ opening[p] \in Openings
            /\ opening[p].pc = "ready" => version = Current
      BY DEF MigrationInv, TypeInv, OpeningInv
    <2>3. QED
      BY <2>1, <2>2, TablesAre DEF MigrationTypeOK, Openings
  <1>2. VersionTellsEncoding
    BY TablesAre DEF MigrationInv, EncodingInv, VersionTellsEncoding, Rows
  <1>3. QED
    BY <1>1, <1>2 DEF VersionIsTrue

\* However many processes open the database at once, use it or die, the version
\* it carries is true of its documents: those of version 4 are all canonical, and
\* no process that has the store open works on another version (_migrate and
\* _migrate_documents_to_v4).
THEOREM VersionStaysTrue == MigrationSpec => []VersionIsTrue
  <1>1. MigrationInit => MigrationInv
    BY MigrationInvInit
  <1>2. MigrationInv /\ [MigrationNext]_vars => MigrationInv'
    BY MigrationStep
  <1>3. MigrationInv => VersionIsTrue
    BY MigrationInvTells
  <1>4. QED
    BY <1>1, <1>2, <1>3, PTL DEF MigrationSpec

-----------------------------------------------------------------------------
(* Refusals.  That a document stays unreadable needs that a process which   *)
(* reads a database of version 4 has only valid documents before it.        *)

ValidRows == \A t \in Names : \A k \in Attempts : rows[t][k] # None => rows[t][k].valid

ReadableInv ==
  version = Current =>
    \A p \in Processes :
      opening[p].pc \in {"reading", "writing"} =>
        /\ ValidRows
        /\ opening[p].seen # None =>
             \A k \in Attempts : opening[p].seen[k] # None => opening[p].seen[k].valid

RefusalInv == ReadableInv /\ RefusalIsJustified

LEMMA ReadableIs == Readable <=> ValidRows
  BY TablesAre DEF Readable, ValidRows, Rows

\* What a process has seen of a database it can read is valid.
LEMMA SeenIsValid ==
  ASSUME MigrationInv, ReadableInv, Readable, NEW p \in Processes,
         opening[p].pc = "writing", opening[p].seen # None,
         NEW k \in Attempts, opening[p].seen[k] # None
  PROVE  opening[p].seen[k].valid
  <1>1. CASE version = Current
    BY <1>1 DEF ReadableInv
  <1>2. CASE version # Current
    <2>1. opening[p].seen = rows[Tables[opening[p].table]]
      BY <1>2 DEF MigrationInv, SeenInv
    <2>2. Tables[opening[p].table] \in Names
      <3>1. opening[p].table \in 1 .. 4
        BY DEF MigrationInv, TypeInv, Openings
      <3>2. QED
        BY <3>1, TablesAre
    <2>3. QED
      BY <2>1, <2>2, ReadableIs DEF ValidRows
  <1>3. QED
    BY <1>1, <1>2

LEMMA RewritesValid ==
  ASSUME MigrationInv, ReadableInv, Readable, NEW p \in Processes,
         opening[p].pc = "writing", NEW t \in Names, NEW k \in Attempts,
         Rewritten(p)[t][k] # None
  PROVE  Rewritten(p)[t][k].valid
  <1> DEFINE i == opening[p].table
             seen == opening[p].seen
             Later == {Tables[j] : j \in i + 1 .. Len(Tables)}
             r == Rewritten(p)[t][k]
  <1>1. /\ rows \in [Names -> Column] /\ rows[t][k] \in Documents \cup {None}
        /\ seen \in Column \cup {None}
    <2>1. rows \in [Names -> Column] /\ opening[p] \in Openings
      BY DEF MigrationInv, TypeInv
    <2>2. rows[t][k] \in Documents \cup {None}
      BY <2>1 DEF Column
    <2>3. QED
      BY <2>1, <2>2 DEF Openings
  <1>2. r = IF t = Tables[i] /\ seen # None /\ seen[k] # None
            THEN [seen[k] EXCEPT !.canonical = TRUE]
            ELSE IF t \in Later /\ rows[t][k] # None
            THEN [rows[t][k] EXCEPT !.canonical = TRUE]
            ELSE rows[t][k]
    BY <1>1 DEF Rewritten
  <1>3. \A d \in Documents : d.valid => [d EXCEPT !.canonical = TRUE].valid
    BY DEF Documents
  <1>4. rows[t][k] # None => rows[t][k] \in Documents /\ rows[t][k].valid
    BY <1>1, ReadableIs DEF ValidRows
  <1>5. seen # None /\ seen[k] # None => seen[k] \in Documents /\ seen[k].valid
    BY <1>1, SeenIsValid DEF Column
  <1>6. r # None
    OBVIOUS
  <1> HIDE DEF r, seen, i, Later
  <1>7. r.valid
    BY <1>2, <1>3, <1>4, <1>5, <1>6
  <1>8. QED
    BY <1>7 DEF r

\* The use of a store writes valid documents.
LEMMA UseIsValid ==
  ASSUME MigrationInv, NEW p \in Processes, Use(p), ValidRows
  PROVE  ValidRows'
  <1>1. rows \in [Names -> Column] /\ "attempts" \in Names /\ "environments" \in Names
        /\ "trace_events" \in Names /\ "episodes" \in Names
    BY DEF MigrationInv, TypeInv, Names
  <1>2. \A n \in Nat : Fresh(n).valid
    BY DEF Fresh
  <1>3. PICK a \in Attempts :
               BeginAttempt(a) \/ AppendTrace(a) \/ CreateEpisode(a)
                 \/ TransitionEpisode(a) \/ FinalizeAttempt(a)
    BY DEF Use
  <1>4. SUFFICES ASSUME NEW t \in Names, NEW k \in Attempts
                 PROVE  rows'[t][k] = rows[t][k] \/ rows'[t][k].valid
    BY DEF ValidRows
  <1>5. CASE BeginAttempt(a)
    BY <1>1, <1>2, <1>5 DEF BeginAttempt, Column
  <1>6. CASE AppendTrace(a) \/ CreateEpisode(a) \/ FinalizeAttempt(a)
    BY <1>1, <1>2, <1>6 DEF AppendTrace, CreateEpisode, FinalizeAttempt, Column
  <1>7. CASE TransitionEpisode(a)
    <2>1. rows' = [rows EXCEPT !["episodes"][a] = Fresh(@.revision + 1)]
      BY <1>7 DEF TransitionEpisode
    <2>2. Fresh(rows["episodes"][a].revision + 1).valid
      BY DEF Fresh
    <2>3. QED
      BY <1>1, <2>1, <2>2 DEF Column
  <1>8. QED
    BY <1>3, <1>5, <1>6, <1>7

\* A step of one process that leaves the database alone.
LEMMA QuietStep ==
  ASSUME MigrationInv, RefusalInv, NEW p \in Processes, UNCHANGED database,
         \A q \in Processes : q # p => opening'[q] = opening[q],
         \/ opening'[p].pc \in {"closed", "version", "claiming", "ready"}
         \/ opening'[p].pc = "reading" /\ opening'[p].seen = None
            /\ (version = Current => opening[p].pc = "reading")
         \/ opening'[p].pc = "writing" /\ opening[p].pc = "reading"
            /\ (opening'[p].seen # None =>
                  opening'[p].seen = rows[Tables[opening[p].table]])
         \/ opening'[p].pc = "unsupported"
            /\ version \notin {None, Current} \cup Migratable
         \/ opening'[p].pc = "unreadable" /\ version \in Migratable /\ ~Readable
         \/ opening'[p].pc = "overtaken" /\ version = Current
  PROVE  RefusalInv'
  <1>1. version' = version /\ rows' = rows
    BY DEF database
  <1>2. (ValidRows <=> ValidRows') /\ (Readable <=> Readable')
    BY <1>1 DEF ValidRows, Readable, Rows, Tables
  <1>3. RefusalIsJustified'
    <2>1. SUFFICES ASSUME NEW q \in Processes
                   PROVE /\ opening'[q].pc = "unsupported" =>
                              version \notin {None, Current} \cup Migratable
                         /\ opening'[q].pc = "unreadable" =>
                              version \in Migratable /\ ~Readable
                         /\ opening'[q].pc = "overtaken" => version = Current
      BY <1>1, <1>2 DEF RefusalIsJustified
    <2>2. CASE q = p
      BY <2>2
    <2>3. CASE q # p
      BY <2>3 DEF RefusalInv, RefusalIsJustified
    <2>4. QED
      BY <2>2, <2>3
  <1>4. ReadableInv'
    <2>1. SUFFICES ASSUME version = Current, NEW q \in Processes,
                          opening'[q].pc \in {"reading", "writing"}
                   PROVE  /\ ValidRows
                          /\ opening'[q].seen # None =>
                               \A k \in Attempts : opening'[q].seen[k] # None =>
                                 opening'[q].seen[k].valid
      BY <1>1, <1>2 DEF ReadableInv
    <2>2. CASE q # p
      BY <2>1, <2>2 DEF RefusalInv, ReadableInv
    <2>3. CASE q = p
      <3>1. opening[p].pc = "reading" /\ ValidRows
        BY <2>1, <2>3 DEF RefusalInv, ReadableInv
      <3>2. Tables[opening[p].table] \in Names
        <4>1. opening[p].table \in 1 .. 4
          BY DEF MigrationInv, TypeInv, Openings
        <4>2. QED
          BY <4>1, TablesAre
      <3>3. opening'[p].seen # None =>
              opening'[p].seen = rows[Tables[opening[p].table]]
        BY <2>1, <2>3
      <3>4. QED
        BY <2>3, <3>1, <3>2, <3>3 DEF ValidRows
    <2>4. QED
      BY <2>2, <2>3
  <1>5. QED
    BY <1>3, <1>4 DEF RefusalInv

LEMMA OpeningRefuses ==
  ASSUME MigrationInv, RefusalInv, NEW p \in Processes,
         Open(p) \/ Close(p) \/ ReadVersion(p) \/ ReadTable(p)
  PROVE  RefusalInv'
  <1>0. opening \in [Processes -> Openings] /\ opening[p] \in Openings
        /\ UNCHANGED database
    BY DEF MigrationInv, TypeInv, Open, Close, ReadVersion, ReadTable
  <1>1. CASE Open(p) \/ Close(p)
    <2>1. /\ opening' = [opening EXCEPT ![p] = Closed]
             \/ opening' = [opening EXCEPT ![p] = [Closed EXCEPT !.pc = "version"]]
      BY <1>1 DEF Open, Close
    <2>2. Closed.pc = "closed" /\ [Closed EXCEPT !.pc = "version"].pc = "version"
      BY DEF Closed
    <2>3. opening'[p].pc \in {"closed", "version"}
          /\ \A q \in Processes : q # p => opening'[q] = opening[q]
      BY <1>0, <2>1, <2>2
    <2>4. QED
      BY <1>0, <2>3, QuietStep
  <1>2. CASE ReadVersion(p)
    <2>0. None # Current /\ Current \notin Migratable /\ None \notin Migratable
      BY MigrationAssumptions DEF Current, Migratable
    <2>1. /\ AfterVersion(version) \in {"claiming", "reading", "ready", "unsupported"}
          /\ AfterVersion(version) = "reading" => version \in Migratable
          /\ AfterVersion(version) = "unsupported" =>
               version \notin {None, Current} \cup Migratable
      BY <2>0 DEF AfterVersion
    <2>2. /\ opening'[p].pc = AfterVersion(version)
          /\ opening'[p].seen = opening[p].seen
          /\ \A q \in Processes : q # p => opening'[q] = opening[q]
      BY <1>0, <1>2, <2>1, Goes DEF ReadVersion
    <2>3. opening[p].seen = None
      BY <1>2 DEF ReadVersion, MigrationInv, OpeningInv
    <2>4. QED
      BY <1>0, <2>0, <2>1, <2>2, <2>3, QuietStep
  <1>3. CASE ReadTable(p)
    <2> DEFINE t == Tables[opening[p].table]
    <2>1. opening[p].pc = "reading" /\ opening[p].seen = None
      BY <1>3 DEF ReadTable, MigrationInv, OpeningInv
    <2>2. \/ opening' = [opening EXCEPT ![p].pc = "writing", ![p].seen = rows[t]]
          \/ GoTo(p, "writing")
          \/ opening' = [opening EXCEPT ![p].table = @ + 1]
      BY <1>3 DEF ReadTable
    <2>3. /\ \A q \in Processes : q # p => opening'[q] = opening[q]
          /\ \/ opening'[p].pc = "writing" /\ opening'[p].seen = rows[t]
             \/ opening'[p].pc = "writing" /\ opening'[p].seen = None
             \/ opening'[p].pc = "reading" /\ opening'[p].seen = None
      <3> HIDE DEF t
      <3>1. QED
        BY <1>0, <2>1, <2>2 DEF GoTo, Openings
    <2>4. QED
      BY <1>0, <2>1, <2>3, QuietStep
  <1>4. QED
    BY <1>1, <1>2, <1>3

LEMMA ClaimRefuses ==
  ASSUME MigrationInv, RefusalInv, NEW p \in Processes, Claim(p)
  PROVE  RefusalInv'
  <1>0. None # Current /\ Current \notin Migratable /\ None \notin Migratable
    BY MigrationAssumptions DEF Current, Migratable
  <1>1. /\ version \in {None, Current} /\ version' = Current /\ rows' = rows
        /\ GoTo(p, IF version = None THEN "ready" ELSE "overtaken")
    BY DEF Claim, MigrationInv, OpeningInv
  <1>2. /\ opening'[p].pc = IF version = None THEN "ready" ELSE "overtaken"
        /\ \A q \in Processes : q # p => opening'[q] = opening[q]
    BY <1>1, Goes DEF MigrationInv, TypeInv
  <1>3. CASE version = Current
    <2>1. UNCHANGED database
      BY <1>1, <1>3 DEF Claim, database
    <2>2. opening'[p].pc = "overtaken"
      BY <1>0, <1>2, <1>3
    <2>3. QED
      BY <1>2, <1>3, <2>1, <2>2, QuietStep
  <1>4. CASE version = None
    <2>1. \A q \in Processes :
            opening'[q].pc \notin {"reading", "writing", "unsupported", "unreadable"}
      BY <1>0, <1>2, <1>4
         DEF MigrationInv, OpeningInv, RefusalInv, RefusalIsJustified
    <2>2. QED
      BY <1>1, <2>1 DEF RefusalInv, ReadableInv, RefusalIsJustified
  <1>5. QED
    BY <1>1, <1>3, <1>4

LEMMA MigrateRefuses ==
  ASSUME MigrationInv, RefusalInv, NEW p \in Processes, Migrate(p)
  PROVE  RefusalInv'
  <1>0. Current \notin Migratable /\ None \notin Migratable /\ None # Current
    BY MigrationAssumptions DEF Current, Migratable
  <1>1. opening[p].pc = "writing" /\ version \in Migratable \cup {Current}
    BY DEF Migrate, MigrationInv, OpeningInv
  <1>2. CASE Readable
    <2>1. /\ version' = Current /\ rows' = Rewritten(p) /\ GoTo(p, "ready")
      BY <1>2 DEF Migrate
    <2>2. opening'[p].pc = "ready"
          /\ \A q \in Processes : q # p => opening'[q] = opening[q]
      BY <2>1, Goes DEF MigrationInv, TypeInv
    <2>3. ValidRows'
      BY <1>1, <1>2, <2>1, RewritesValid DEF RefusalInv, ValidRows
    <2>4. ASSUME NEW q \in Processes, opening'[q].pc \in {"reading", "writing"}
          PROVE  opening'[q].seen # None =>
                   \A k \in Attempts : opening'[q].seen[k] # None =>
                     opening'[q].seen[k].valid
      <3>1. q # p /\ opening'[q] = opening[q]
        BY <2>2, <2>4
      <3>2. CASE opening[q].pc = "reading"
        BY <3>1, <3>2 DEF MigrationInv, OpeningInv
      <3>3. CASE opening[q].pc = "writing"
        BY <1>2, <3>1, <3>3, SeenIsValid DEF RefusalInv
      <3>4. QED
        BY <2>4, <3>1, <3>2, <3>3
    <2>5. ReadableInv'
      BY <2>3, <2>4 DEF ReadableInv
    <2>6. \A q \in Processes : opening'[q].pc \notin {"unsupported", "unreadable"}
      BY <1>1, <1>2, <2>2 DEF RefusalInv, RefusalIsJustified
    <2>7. QED
      BY <2>1, <2>5, <2>6 DEF RefusalInv, RefusalIsJustified
  <1>3. CASE ~Readable
    <2>1. GoTo(p, "unreadable") /\ UNCHANGED database
      BY <1>3 DEF Migrate
    <2>2. opening'[p].pc = "unreadable"
          /\ \A q \in Processes : q # p => opening'[q] = opening[q]
      BY <2>1, Goes DEF MigrationInv, TypeInv
    <2>3. version \in Migratable
      BY <1>1, <1>3, ReadableIs DEF RefusalInv, ReadableInv
    <2>4. QED
      BY <1>3, <2>1, <2>2, <2>3, QuietStep
  <1>4. QED
    BY <1>2, <1>3

LEMMA UseRefuses ==
  ASSUME MigrationInv, RefusalInv, NEW p \in Processes, Use(p)
  PROVE  RefusalInv'
  <1>0. Current \notin Migratable
    BY DEF Current, Migratable
  <1>1. version = Current /\ version' = Current /\ opening' = opening
    BY DEF Use, MigrationInv, OpeningInv, BeginAttempt, AppendTrace, CreateEpisode,
           TransitionEpisode, FinalizeAttempt
  <1>2. ValidRows => ValidRows'
    BY UseIsValid
  <1>3. ReadableInv'
    BY <1>1, <1>2 DEF RefusalInv, ReadableInv
  <1>4. RefusalIsJustified'
    BY <1>0, <1>1 DEF RefusalInv, RefusalIsJustified
  <1>5. QED
    BY <1>3, <1>4 DEF RefusalInv

LEMMA RefusalStep ==
  ASSUME MigrationInv, RefusalInv, [MigrationNext]_vars
  PROVE  RefusalInv'
  <1>1. CASE MigrationNext
    BY <1>1, OpeningRefuses, ClaimRefuses, MigrateRefuses, UseRefuses
       DEF MigrationNext, OpenStep
  <1>2. CASE UNCHANGED vars
    BY <1>2 DEF vars, RefusalInv, ReadableInv, RefusalIsJustified, ValidRows, Readable,
                Rows, Tables
  <1>3. QED
    BY <1>1, <1>2

\* A process that could not open the database had a reason that still holds,
\* whatever others did since: an unknown version; an unreadable document in a
\* database that is still the old one; or, the exception, a database that another
\* process was the first to create (_migrate).
THEOREM RefusalsAreJustified == MigrationSpec => []RefusalIsJustified
  <1>1. MigrationInit => MigrationInv /\ RefusalInv
    <2>1. SUFFICES ASSUME MigrationInit PROVE RefusalInv
      BY MigrationInvInit
    <2>2. \A p \in Processes : opening[p].pc = "closed"
      <3>1. opening = [p \in Processes |-> Closed]
        BY <2>1, Zenon DEF MigrationInit
      <3>2. QED
        BY <3>1 DEF Closed
    <2>3. QED
      BY <2>2 DEF RefusalInv, ReadableInv, RefusalIsJustified
  <1>2. MigrationInv /\ RefusalInv /\ [MigrationNext]_vars => (MigrationInv /\ RefusalInv)'
    BY MigrationStep, RefusalStep
  <1>3. RefusalInv => RefusalIsJustified
    BY DEF RefusalInv
  <1>4. QED
    BY <1>1, <1>2, <1>3, PTL DEF MigrationSpec

-----------------------------------------------------------------------------
(* Receipts, and what nobody undoes.  Both fail when a store is used while *)
(* another process holds a reading of a table whose documents change: what *)
(* it then writes back is old.  Nothing else can break them.               *)

Immutable == {"trace_events", "environments"}

\* The store is used only while no process is about to write back what it has
\* read of the episodes or the attempts.
UsedWithCare ==
  (\E p \in Processes : Use(p)) =>
    \A q \in Processes :
      opening[q].pc = "writing" /\ opening[q].seen # None =>
        Tables[opening[q].table] \in Immutable

\* What a process is about to write back is there, in the same revision.
SeenIsThere ==
  \A q \in Processes :
    opening[q].pc = "writing" /\ opening[q].seen # None =>
      \A k \in Attempts :
        opening[q].seen[k] # None =>
          /\ rows[Tables[opening[q].table]][k] # None
          /\ rows[Tables[opening[q].table]][k].revision = opening[q].seen[k].revision

StatusIsTrue ==
  \A a \in Attempts :
    status[a] = "finalized" =>
      rows["attempts"][a] # None /\ rows["attempts"][a].revision = 1

CareInv == MigrationInv /\ SeenIsThere /\ StatusIsTrue /\ ReceiptsMatch

\* Every row stays, in its revision.
RowsStay ==
  \A t \in Names : \A k \in Attempts :
    rows[t][k] # None => rows'[t][k] # None /\ rows'[t][k].revision = rows[t][k].revision

\* An opening's step of one process, seen from the others.
LEMMA OthersSeen ==
  ASSUME CareInv, NEW p \in Processes, RowsStay,
         \A q \in Processes : q # p => opening'[q] = opening[q],
         \/ opening'[p].pc # "writing"
         \/ /\ opening'[p].table \in 1 .. 4
            /\ opening'[p].seen # None =>
                 opening'[p].seen = rows'[Tables[opening'[p].table]]
  PROVE  SeenIsThere'
  <1> SUFFICES ASSUME NEW q \in Processes, (opening[q].pc = "writing")',
                      (opening[q].seen # None)',
                      NEW k \in Attempts, (opening[q].seen[k] # None)'
               PROVE  /\ (rows[Tables[opening[q].table]][k] # None)'
                      /\ (rows[Tables[opening[q].table]][k].revision
                            = opening[q].seen[k].revision)'
    BY DEF SeenIsThere, Tables
  <1>1. CASE q = p
    BY <1>1 DEF Tables
  <1>2. CASE q # p
    <2>1. opening'[q] = opening[q]
      BY <1>2
    <2>2. Tables[opening[q].table] \in Names
      <3>1. opening[q].table \in 1 .. 4
        BY DEF CareInv, MigrationInv, TypeInv, Openings
      <3>2. QED
        BY <3>1, TablesAre
    <2>3. /\ rows[Tables[opening[q].table]][k] # None
          /\ rows[Tables[opening[q].table]][k].revision = opening[q].seen[k].revision
      BY <2>1 DEF CareInv, SeenIsThere
    <2>4. QED
      BY <2>1, <2>2, <2>3 DEF RowsStay, Tables
  <1>3. QED
    BY <1>1, <1>2

LEMMA OpeningsCare ==
  ASSUME CareInv, MigrationInv', NEW p \in Processes,
         Open(p) \/ Close(p) \/ ReadVersion(p) \/ Claim(p) \/ ReadTable(p)
  PROVE  SeenIsThere' /\ StatusIsTrue' /\ ReceiptsMatch' /\ RowsStay
  <1>1. UNCHANGED <<rows, status, receipts>>
    BY DEF Open, Close, ReadVersion, Claim, ReadTable, database
  <1>2. RowsStay
    BY <1>1 DEF RowsStay
  <1>3. opening \in [Processes -> Openings]
    BY DEF CareInv, MigrationInv, TypeInv
  <1>4. /\ \A q \in Processes : q # p => opening'[q] = opening[q]
        /\ \/ opening'[p].pc # "writing"
           \/ /\ opening'[p].table \in 1 .. 4
              /\ opening'[p].seen # None =>
                   opening'[p].seen = rows'[Tables[opening'[p].table]]
    <2>1. CASE Open(p) \/ Close(p)
      <3>1. /\ opening' = [opening EXCEPT ![p] = Closed]
               \/ opening' = [opening EXCEPT ![p] = [Closed EXCEPT !.pc = "version"]]
        BY <2>1 DEF Open, Close
      <3>2. Closed.pc # "writing" /\ [Closed EXCEPT !.pc = "version"].pc # "writing"
        BY DEF Closed
      <3>3. QED
        BY <1>3, <3>1, <3>2
    <2>2. CASE ReadVersion(p) \/ Claim(p)
      <3>1. PICK pc \in {"claiming", "reading", "ready", "unsupported",
                           "overtaken"} : GoTo(p, pc)
        <4>1. AfterVersion(version) \in {"claiming", "reading", "ready", "unsupported"}
          BY DEF AfterVersion
        <4>2. QED
          BY <2>2, <4>1 DEF ReadVersion, Claim
      <3>2. QED
        BY <1>3, <3>1, Goes
    <2>3. CASE ReadTable(p)
      <3> DEFINE n == opening[p].table
      <3>1. /\ n \in 1 .. 4 /\ opening[p] \in Openings
            /\ opening[p].pc = "reading" /\ opening[p].seen = None
        BY <2>3, <1>3 DEF ReadTable, CareInv, MigrationInv, OpeningInv, Openings
      <3>2. CASE Rows(Tables[n]) # {}
        <4>1. opening' = [opening EXCEPT ![p].pc = "writing", ![p].seen = rows[Tables[n]]]
          BY <2>3, <3>2 DEF ReadTable
        <4>2. opening'[p].seen = rows[Tables[n]] /\ opening'[p].table = n
              /\ \A q \in Processes : q # p => opening'[q] = opening[q]
          BY <1>3, <3>1, <4>1 DEF Openings
        <4>3. QED
          BY <1>1, <3>1, <4>2 DEF Tables
      <3>3. CASE Rows(Tables[n]) = {} /\ n = Len(Tables)
        <4>1. GoTo(p, "writing")
          BY <2>3, <3>3 DEF ReadTable
        <4>2. /\ opening'[p].table = n /\ opening'[p].seen = None
              /\ \A q \in Processes : q # p => opening'[q] = opening[q]
          BY <1>3, <3>1, <4>1, Goes
        <4>3. QED
          BY <3>1, <4>2
      <3>4. CASE Rows(Tables[n]) = {} /\ n # Len(Tables)
        <4>1. opening' = [opening EXCEPT ![p].table = @ + 1]
          BY <2>3, <3>4 DEF ReadTable
        <4>2. opening'[p].pc = "reading"
              /\ \A q \in Processes : q # p => opening'[q] = opening[q]
          BY <1>3, <3>1, <4>1 DEF Openings
        <4>3. QED
          BY <4>2
      <3>5. QED
        BY <3>2, <3>3, <3>4
    <2>4. QED
      BY <2>1, <2>2, <2>3
  <1>5. SeenIsThere'
    BY <1>2, <1>4, OthersSeen
  <1>6. StatusIsTrue'
    BY <1>1 DEF CareInv, StatusIsTrue
  <1>7. ReceiptsMatch'
    <2>1. version' = version \/ version = None
      BY DEF Open, Close, ReadVersion, Claim, ReadTable, database
    <2>2. ASSUME version = None PROVE \A a \in Attempts : status[a] # "finalized"
      <3>1. \A a \in Attempts : rows["attempts"][a] = None
        BY <2>2 DEF CareInv, MigrationInv, EncodingInv, Names
      <3>2. QED
        BY <3>1 DEF CareInv, StatusIsTrue
    <2>3. QED
      BY <1>1, <2>1, <2>2 DEF CareInv, ReceiptsMatch
  <1>8. QED
    BY <1>2, <1>5, <1>6, <1>7

\* A row that is rewritten keeps its revision.
LEMMA RewriteKeepsRevision ==
  ASSUME CareInv, NEW p \in Processes, opening[p].pc = "writing",
         NEW t \in Names, NEW k \in Attempts, rows[t][k] # None
  PROVE  /\ Rewritten(p)[t][k] # None
         /\ Rewritten(p)[t][k].revision = rows[t][k].revision
  <1>1. MigrationInv
    BY DEF CareInv
  <1>2. ASSUME t = Tables[opening[p].table], opening[p].seen # None,
               opening[p].seen[k] # None
        PROVE  opening[p].seen[k].revision = rows[t][k].revision
    BY <1>2 DEF CareInv, SeenIsThere
  <1>3. QED
    BY <1>1, <1>2, Rewrites

LEMMA MigrateCares ==
  ASSUME CareInv, MigrationInv', NEW p \in Processes, Migrate(p)
  PROVE  SeenIsThere' /\ StatusIsTrue' /\ ReceiptsMatch' /\ RowsStay
  <1>0. /\ opening[p].pc = "writing" /\ MigrationInv
        /\ opening \in [Processes -> Openings] /\ "attempts" \in Names
    BY DEF Migrate, CareInv, MigrationInv, TypeInv, Names
  <1>1. /\ opening'[p].pc # "writing"
        /\ \A q \in Processes : q # p => opening'[q] = opening[q]
    <2>1. PICK pc \in {"ready", "unreadable"} : GoTo(p, pc)
      BY DEF Migrate
    <2>2. QED
      BY <1>0, <2>1, Goes
  <1>2. status' = status
    BY DEF Migrate, database
  <1>3. RowsStay
    <2>1. CASE rows' = rows
      BY <2>1 DEF RowsStay
    <2>2. CASE rows' = Rewritten(p)
      BY <1>0, <2>2, RewriteKeepsRevision DEF RowsStay
    <2>3. QED
      BY <2>1, <2>2 DEF Migrate, database
  <1>4. SeenIsThere'
    BY <1>1, <1>3, OthersSeen
  <1>5. StatusIsTrue'
    BY <1>0, <1>2, <1>3 DEF CareInv, StatusIsTrue, RowsStay
  <1>6. ReceiptsMatch'
    <2>1. CASE Readable
      <3> DEFINE C == ReceiptsFor(Rewritten(p))
      <3>1. rows' = Rewritten(p) /\ receipts' = C
        BY <2>1 DEF Migrate
      <3>2. SUFFICES ASSUME NEW a \in Attempts
                     PROVE  /\ C[a] # None =>
                                 /\ rows'["attempts"][a].revision = C[a].revision
                                 /\ status[a] = "finalized"
                            /\ status[a] = "finalized" => C[a] # None
        BY <1>2, <3>1 DEF ReceiptsMatch
      <3>3. C[a] = IF status[a] = "finalized" /\ receipts[a] = None
                   THEN Receipt(a, rows', "migration") ELSE receipts[a]
        BY <3>1 DEF ReceiptsFor
      <3>4. status[a] = "finalized" => C[a] # None
        BY <1>0, ReceiptsAreFinal
      <3> HIDE DEF C
      <3>5. CASE status[a] = "finalized" /\ receipts[a] = None
        <4>1. C[a].revision = rows'["attempts"][a].revision
          BY <3>3, <3>5 DEF Receipt
        <4>2. QED
          BY <3>4, <3>5, <4>1
      <3>6. CASE ~(status[a] = "finalized" /\ receipts[a] = None)
        <4>1. C[a] = receipts[a]
          BY <3>3, <3>6
        <4>2. ASSUME receipts[a] # None
              PROVE  /\ rows'["attempts"][a].revision = receipts[a].revision
                     /\ status[a] = "finalized"
          <5>1. /\ rows["attempts"][a].revision = receipts[a].revision
                /\ status[a] = "finalized"
            BY <4>2 DEF CareInv, ReceiptsMatch
          <5>2. rows["attempts"][a] # None
            BY <5>1 DEF CareInv, StatusIsTrue
          <5>3. QED
            BY <1>0, <1>3, <5>1, <5>2 DEF RowsStay
        <4>3. QED
          BY <3>4, <4>1, <4>2
      <3>7. QED
        BY <3>5, <3>6
    <2>2. CASE ~Readable
      BY <2>2 DEF Migrate, database, CareInv, ReceiptsMatch
    <2>3. QED
      BY <2>1, <2>2
  <1>7. QED
    BY <1>3, <1>4, <1>5, <1>6

\* A use changes no row that is there, but for a transition of an episode and a
\* finalization, and these go up.
LEMMA UseWrites ==
  ASSUME CareInv, NEW p \in Processes, Use(p)
  PROVE  /\ \A t \in Names : \A k \in Attempts :
              rows[t][k] # None =>
                /\ rows'[t][k] # None
                /\ t \in Immutable => rows'[t][k] = rows[t][k]
                /\ rows'[t][k].revision >= rows[t][k].revision
         /\ \A a \in Attempts :
              \/ /\ status'[a] = status[a] /\ receipts'[a] = receipts[a]
                 /\ rows'["attempts"][a] = rows["attempts"][a]
              \/ /\ status[a] # "finalized"
                 /\ status'[a] # "finalized" /\ receipts'[a] = receipts[a]
              \/ /\ receipts[a] = None /\ receipts'[a] # None
                 /\ status'[a] = "finalized"
                 /\ rows'["attempts"][a] # None
                 /\ rows'["attempts"][a].revision = 1 /\ receipts'[a].revision = 1
  <1>0. /\ rows \in [Names -> Column]
        /\ status \in [Attempts -> {"open", "finalized", None}]
        /\ receipts \in [Attempts -> Receipts \cup {None}]
        /\ 0 \in 0 .. MaxRevision /\ 1 \in 0 .. MaxRevision
        /\ "attempts" \in Names /\ "environments" \in Names
        /\ "trace_events" \in Names /\ "episodes" \in Names
    BY MigrationAssumptions DEF Use, CareInv, MigrationInv, TypeInv, Names
  <1>1. PICK a \in Attempts :
               BeginAttempt(a) \/ AppendTrace(a) \/ CreateEpisode(a)
                 \/ TransitionEpisode(a) \/ FinalizeAttempt(a)
    BY DEF Use
  <1>2. /\ Fresh(0) \in Documents /\ Fresh(0).revision = 0 /\ Fresh(0) # None
        /\ Fresh(1) \in Documents /\ Fresh(1).revision = 1 /\ Fresh(1) # None
    BY <1>0, FreshIs
  <1>3. \A t \in Names : \A k \in Attempts :
          /\ rows[t][k] \in Documents \cup {None}
          /\ rows[t][k] # None => rows[t][k].revision \in Nat
    <2>1. \A t \in Names : \A k \in Attempts : rows[t][k] \in Documents \cup {None}
      BY <1>0 DEF Column
    <2>2. QED
      BY <2>1, MigrationAssumptions DEF Documents
  <1>4. CASE BeginAttempt(a)
    <2> DEFINE r == [rows EXCEPT !["attempts"][a] = Fresh(0)]
               e == IF rows["environments"][a] = None THEN Fresh(0)
                    ELSE rows["environments"][a]
    <2>1. /\ r \in [Names -> Column]
          /\ \A u \in Names : \A k \in Attempts :
               u # "attempts" \/ k # a => r[u][k] = rows[u][k]
      BY <1>0, <1>2, Writes
    <2>2. rows' = [r EXCEPT !["environments"][a] = e]
      <3>1. r["environments"][a] = rows["environments"][a]
        BY <1>0, <2>1
      <3>2. rows' = [r EXCEPT !["environments"][a] = IF @ = None THEN Fresh(0) ELSE @]
        BY <1>4 DEF BeginAttempt
      <3> HIDE DEF r
      <3>3. QED
        BY <3>1, <3>2
    <2>3. e \in Documents /\ (rows["environments"][a] # None => e = rows["environments"][a])
      BY <1>0, <1>2, <1>3
    <2> HIDE DEF r, e
    <2>4. /\ rows' \in [Names -> Column] /\ rows'["environments"][a] = e
          /\ \A u \in Names : \A k \in Attempts :
               u # "environments" \/ k # a => rows'[u][k] = r[u][k]
      BY <2>1, <2>2, <2>3, <1>0, Writes
    <2>5. rows["attempts"][a] = None
          /\ status' = [status EXCEPT ![a] = "open"] /\ UNCHANGED receipts
      BY <1>4 DEF BeginAttempt
    <2>6. \A t \in Names : \A k \in Attempts :
            rows[t][k] # None => rows'[t][k] = rows[t][k]
      BY <2>1, <2>3, <2>4, <2>5
    <2>7. status[a] # "finalized"
      BY <2>5 DEF CareInv, StatusIsTrue
    <2>8. \A b \in Attempts : b # a => /\ rows'["attempts"][b] = rows["attempts"][b]
                                       /\ status'[b] = status[b]
      BY <1>0, <2>1, <2>4, <2>5
    <2>9. status'[a] = "open"
      BY <1>0, <2>5
    <2>10. QED
      BY <1>3, <2>5, <2>6, <2>7, <2>8, <2>9
  <1>5. CASE AppendTrace(a) \/ CreateEpisode(a) \/ TransitionEpisode(a)
    <2>1. PICK n \in {"trace_events", "episodes"}, doc \in Documents :
                 /\ rows' = [rows EXCEPT ![n][a] = doc]
                 /\ rows[n][a] # None => n = "episodes" /\ doc.revision >= rows[n][a].revision
      <3>1. CASE AppendTrace(a)
        BY <3>1, <1>2 DEF AppendTrace
      <3>2. CASE CreateEpisode(a)
        BY <3>2, <1>2 DEF CreateEpisode
      <3>3. CASE TransitionEpisode(a)
        <4> DEFINE m == rows["episodes"][a].revision + 1
        <4>1. rows["episodes"][a] \in Documents
          BY <1>0, <1>3, <3>3 DEF TransitionEpisode
        <4>2. m \in 0 .. MaxRevision /\ m >= rows["episodes"][a].revision
          BY <3>3, <4>1, MigrationAssumptions DEF TransitionEpisode, Documents
        <4>3. rows' = [rows EXCEPT !["episodes"][a] = Fresh(m)]
          BY <3>3 DEF TransitionEpisode
        <4> HIDE DEF m
        <4>4. Fresh(m) \in Documents /\ Fresh(m).revision = m
          BY <4>2, FreshIs
        <4>5. QED
          BY <4>2, <4>3, <4>4
      <3>4. QED
        BY <1>5, <3>1, <3>2, <3>3
    <2>2. n \in Names /\ n # "attempts" /\ doc # None
      BY MigrationAssumptions DEF Names
    <2>3. /\ rows' \in [Names -> Column] /\ rows'[n][a] = doc
          /\ \A u \in Names : \A k \in Attempts :
               u # n \/ k # a => rows'[u][k] = rows[u][k]
      <3>1. rows \in [Names -> Column] /\ rows[n] \in Column
        BY <1>0, <2>2
      <3>2. rows' = [rows EXCEPT ![n] = [rows[n] EXCEPT ![a] = doc]]
        BY <2>1
      <3>3. [rows[n] EXCEPT ![a] = doc] \in Column
        BY <3>1 DEF Column
      <3>4. rows' \in [Names -> Column] /\ rows'[n] = [rows[n] EXCEPT ![a] = doc]
            /\ \A u \in Names : u # n => rows'[u] = rows[u]
        BY <2>2, <3>1, <3>2, <3>3
      <3>5. QED
        BY <2>2, <3>1, <3>4 DEF Column
    <2>4. UNCHANGED <<status, receipts>>
      BY <1>5 DEF AppendTrace, CreateEpisode, TransitionEpisode
    <2>5. \A b \in Attempts : rows'["attempts"][b] = rows["attempts"][b]
      BY <1>0, <2>2, <2>3
    <2>6. ASSUME NEW t \in Names, NEW k \in Attempts, rows[t][k] # None
          PROVE  /\ rows'[t][k] # None
                 /\ t \in Immutable => rows'[t][k] = rows[t][k]
                 /\ rows'[t][k].revision >= rows[t][k].revision
      <3>1. CASE t = n /\ k = a
        BY <2>1, <2>2, <2>3, <2>6, <3>1 DEF Immutable
      <3>2. CASE ~(t = n /\ k = a)
        BY <1>3, <2>3, <2>6, <3>2
      <3>3. QED
        BY <3>1, <3>2
    <2>7. QED
      BY <2>4, <2>5, <2>6
  <1>6. CASE FinalizeAttempt(a)
    <2>1. /\ rows["attempts"][a] # None /\ rows["attempts"][a].revision = 0
          /\ rows' = [rows EXCEPT !["attempts"][a] = Fresh(1)]
          /\ status' = [status EXCEPT ![a] = "finalized"]
          /\ receipts' = [receipts EXCEPT ![a] = Receipt(a, rows', "finalization")]
      BY <1>6 DEF FinalizeAttempt
    <2>2. /\ rows' \in [Names -> Column] /\ rows'["attempts"][a] = Fresh(1)
          /\ \A u \in Names : \A k \in Attempts :
               u # "attempts" \/ k # a => rows'[u][k] = rows[u][k]
      BY <1>0, <1>2, <2>1, Writes
    <2>3. Receipt(a, rows', "finalization") = [revision |-> 1, by |-> "finalization"]
      BY <1>2, <2>2 DEF Receipt
    <2>4. [revision |-> 1, by |-> "finalization"] \in Receipts /\ None \notin Receipts
      BY MigrationAssumptions DEF Receipts
    <2>5. receipts'[a] # None /\ receipts'[a].revision = 1 /\ status'[a] = "finalized"
      BY <1>0, <2>1, <2>3, <2>4
    <2>6. receipts[a] = None
      <3>1. SUFFICES ASSUME receipts[a] # None PROVE FALSE
        OBVIOUS
      <3>2. rows["attempts"][a].revision = receipts[a].revision
        BY <3>1 DEF CareInv, ReceiptsMatch
      <3>3. receipts[a].revision = 1
        BY <1>0, <3>1 DEF Receipts
      <3>4. QED
        BY <2>1, <3>2, <3>3
    <2>7. \A b \in Attempts : b # a => /\ rows'["attempts"][b] = rows["attempts"][b]
                                       /\ status'[b] = status[b]
                                       /\ receipts'[b] = receipts[b]
      BY <1>0, <2>1, <2>2
    <2>8. ASSUME NEW t \in Names, NEW k \in Attempts, rows[t][k] # None
          PROVE  /\ rows'[t][k] # None
                 /\ t \in Immutable => rows'[t][k] = rows[t][k]
                 /\ rows'[t][k].revision >= rows[t][k].revision
      <3>1. CASE t = "attempts" /\ k = a
        BY <1>2, <2>1, <2>2, <3>1 DEF Immutable
      <3>2. CASE ~(t = "attempts" /\ k = a)
        BY <1>3, <2>2, <2>8, <3>2
      <3>3. QED
        BY <3>1, <3>2
    <2>9. QED
      BY <1>2, <2>2, <2>5, <2>6, <2>7, <2>8
  <1>7. QED
    BY <1>1, <1>4, <1>5, <1>6

LEMMA UseCares ==
  ASSUME CareInv, NEW p \in Processes, Use(p), UsedWithCare
  PROVE  SeenIsThere' /\ StatusIsTrue' /\ ReceiptsMatch'
  <1>0. "attempts" \in Names /\ version' = version /\ opening' = opening
        /\ receipts \in [Attempts -> Receipts \cup {None}]
    BY DEF Names, Use, BeginAttempt, AppendTrace, CreateEpisode, TransitionEpisode,
           FinalizeAttempt, CareInv, MigrationInv, TypeInv
  <1>1. \A t \in Names : \A k \in Attempts :
          rows[t][k] # None =>
            /\ rows'[t][k] # None
            /\ t \in Immutable => rows'[t][k] = rows[t][k]
    BY UseWrites
  <1>2. \A a \in Attempts :
          \/ /\ status'[a] = status[a] /\ receipts'[a] = receipts[a]
             /\ rows'["attempts"][a] = rows["attempts"][a]
          \/ /\ status[a] # "finalized"
             /\ status'[a] # "finalized" /\ receipts'[a] = receipts[a]
          \/ /\ receipts[a] = None /\ receipts'[a] # None
             /\ status'[a] = "finalized"
             /\ rows'["attempts"][a] # None
             /\ rows'["attempts"][a].revision = 1 /\ receipts'[a].revision = 1
    BY UseWrites
  <1>3. SeenIsThere'
    <2> SUFFICES ASSUME NEW q \in Processes, opening[q].pc = "writing",
                        opening[q].seen # None,
                        NEW k \in Attempts, opening[q].seen[k] # None
                 PROVE  /\ rows'[Tables[opening[q].table]][k] # None
                        /\ rows'[Tables[opening[q].table]][k].revision
                             = opening[q].seen[k].revision
      BY <1>0 DEF SeenIsThere, Tables
    <2>1. Tables[opening[q].table] \in Immutable
      BY DEF UsedWithCare
    <2>2. Tables[opening[q].table] \in Names
      BY <2>1 DEF Immutable, Names
    <2>3. /\ rows[Tables[opening[q].table]][k] # None
          /\ rows[Tables[opening[q].table]][k].revision = opening[q].seen[k].revision
      BY DEF CareInv, SeenIsThere
    <2>4. QED
      BY <1>1, <2>1, <2>2, <2>3
  <1>4. StatusIsTrue'
    BY <1>2 DEF CareInv, StatusIsTrue
  <1>5. ReceiptsMatch'
    BY <1>0, <1>2 DEF CareInv, ReceiptsMatch
  <1>6. QED
    BY <1>3, <1>4, <1>5

LEMMA CareStep ==
  ASSUME CareInv, [MigrationNext]_vars, [UsedWithCare]_vars
  PROVE  CareInv'
  <1>0. MigrationInv'
    BY MigrationStep DEF CareInv
  <1>1. CASE UNCHANGED vars
    BY <1>0, <1>1 DEF CareInv, vars, SeenIsThere, StatusIsTrue, ReceiptsMatch, Tables
  <1>2. CASE MigrationNext /\ UsedWithCare
    <2>1. PICK p \in Processes : Open(p) \/ OpenStep(p) \/ Use(p) \/ Close(p)
      BY <1>2 DEF MigrationNext
    <2>2. CASE Open(p) \/ Close(p) \/ ReadVersion(p) \/ Claim(p) \/ ReadTable(p)
      BY <1>0, <2>2, OpeningsCare DEF CareInv
    <2>3. CASE Migrate(p)
      BY <1>0, <2>3, MigrateCares DEF CareInv
    <2>4. CASE Use(p)
      BY <1>0, <1>2, <2>4, UseCares DEF CareInv
    <2>5. QED
      BY <2>1, <2>2, <2>3, <2>4 DEF OpenStep
  <1>3. QED
    BY <1>1, <1>2

LEMMA CareInit ==
  ASSUME MigrationInit, ReceiptsMatch
  PROVE  CareInv
  <1>1. PICK d \in Databases :
               /\ rows = d.rows /\ status = d.status
               /\ opening = [p \in Processes |-> Closed]
    BY DEF MigrationInit
  <1>2. IsConsistent(d)
    BY MigrationAssumptions
  <1>3. \A p \in Processes : opening[p].pc = "closed"
    BY <1>1 DEF Closed
  <1>4. QED
    BY <1>1, <1>2, <1>3, MigrationInvInit
       DEF CareInv, SeenIsThere, StatusIsTrue, IsConsistent

\* The version a step leaves.
LEMMA VersionRises ==
  ASSUME MigrationInv, [MigrationNext]_vars, version # None
  PROVE  version' >= version
  <1>0. version \in {2, 3, 4, 5} /\ None # Current
    BY MigrationAssumptions DEF MigrationInv, TypeInv, Migratable, Current
  <1>1. CASE version' = version
    BY <1>0, <1>1
  <1>2. CASE version' # version
    <2>1. PICK p \in Processes : Migrate(p)
      BY <1>2 DEF MigrationNext, OpenStep, Open, ReadVersion, Claim, ReadTable, Use,
                  Close, BeginAttempt, AppendTrace, CreateEpisode, TransitionEpisode,
                  FinalizeAttempt, database, vars
    <2>2. version \in Migratable \cup {Current} /\ version' = Current
      BY <1>2, <2>1 DEF Migrate, MigrationInv, OpeningInv, database
    <2>3. QED
      BY <2>2 DEF Migratable, Current
  <1>3. QED
    BY <1>1, <1>2

\* What a step does to the rows and the receipts that are there.
NothingUndone ==
  /\ \A t \in DOMAIN rows : \A k \in Rows(t) :
       rows'[t][k] # None /\ rows'[t][k].revision >= rows[t][k].revision
  /\ \A a \in Attempts : receipts[a] # None => receipts'[a] = receipts[a]
  /\ version # None => version' >= version

LEMMA CareUndoesNothing ==
  ASSUME CareInv, [MigrationNext]_vars, [UsedWithCare]_vars
  PROVE  [NothingUndone]_vars
  <1> SUFFICES ASSUME MigrationNext, UsedWithCare PROVE NothingUndone
    BY DEF vars
  <1>0. /\ DOMAIN rows = Names /\ MigrationInv
        /\ \A t \in Names : \A k \in Attempts :
             rows[t][k] # None => rows[t][k].revision \in Nat
    <2>1. rows \in [Names -> Column] /\ MigrationInv
      BY DEF CareInv, MigrationInv, TypeInv
    <2>2. \A t \in Names : \A k \in Attempts : rows[t][k] \in Documents \cup {None}
      BY <2>1 DEF Column
    <2>3. QED
      BY <2>1, <2>2, MigrationAssumptions DEF Documents
  <1>1. version # None => version' >= version
    BY <1>0, VersionRises
  <1>2. /\ \A t \in Names : \A k \in Attempts :
             rows[t][k] # None =>
               rows'[t][k] # None /\ rows'[t][k].revision >= rows[t][k].revision
        /\ \A a \in Attempts : receipts[a] # None => receipts'[a] = receipts[a]
    <2>1. PICK p \in Processes : Open(p) \/ OpenStep(p) \/ Use(p) \/ Close(p)
      BY DEF MigrationNext
    <2>2. MigrationInv'
      BY <1>0, MigrationStep
    <2>3. CASE Open(p) \/ Close(p) \/ ReadVersion(p) \/ Claim(p) \/ ReadTable(p)
      <3>1. RowsStay
        BY <2>2, <2>3, OpeningsCare
      <3>2. receipts' = receipts
        BY <2>3 DEF Open, Close, ReadVersion, Claim, ReadTable, database
      <3>3. QED
        BY <1>0, <3>1, <3>2 DEF RowsStay
    <2>4. CASE Migrate(p)
      <3>1. RowsStay
        BY <2>2, <2>4, MigrateCares
      <3>2. \A a \in Attempts : receipts[a] # None => receipts'[a] = receipts[a]
        BY <2>4 DEF Migrate, ReceiptsFor, database
      <3>3. QED
        BY <1>0, <3>1, <3>2 DEF RowsStay
    <2>5. CASE Use(p)
      <3>1. \A a \in Attempts : receipts[a] # None => receipts'[a] = receipts[a]
        BY <2>5, UseWrites
      <3>2. QED
        BY <2>5, <3>1, UseWrites
    <2>6. QED
      BY <2>1, <2>3, <2>4, <2>5 DEF OpenStep
  <1>3. QED
    BY <1>0, <1>1, <1>2 DEF NothingUndone, Rows

\* A receipt proves the document of its attempt, and a finalized attempt of a
\* database of version 4 has one, as long as nobody uses the store while a
\* process is about to write back what it has read of the episodes or attempts:
\* the finding about such a use is the only way to lose a receipt's document
\* (_migrate_documents_to_v4, finalize_attempt_with_receipt).
THEOREM ReceiptsStay ==
  ReceiptsMatch /\ MigrationSpec /\ [][UsedWithCare]_vars => []ReceiptsMatch
  <1>1. MigrationInit /\ ReceiptsMatch => CareInv
    BY CareInit
  <1>2. CareInv /\ [MigrationNext]_vars /\ [UsedWithCare]_vars => CareInv'
    BY CareStep
  <1>3. CareInv => ReceiptsMatch
    BY DEF CareInv
  <1>4. QED
    BY <1>1, <1>2, <1>3, PTL DEF MigrationSpec

\* No process sets a document back, replaces a receipt or lowers the version
\* another has written, under the same rule (_migrate_documents_to_v4).
THEOREM NoneIsUndone ==
  ReceiptsMatch /\ MigrationSpec /\ [][UsedWithCare]_vars => NothingIsUndone
  <1>1. MigrationInit /\ ReceiptsMatch => CareInv
    BY CareInit
  <1>2. CareInv /\ [MigrationNext]_vars /\ [UsedWithCare]_vars => CareInv'
    BY CareStep
  <1>3. CareInv /\ [MigrationNext]_vars /\ [UsedWithCare]_vars => [NothingUndone]_vars
    BY CareUndoesNothing
  <1>4. NothingIsUndone <=> [][NothingUndone]_vars
    BY DEF NothingIsUndone, NothingUndone
  <1>5. QED
    BY <1>1, <1>2, <1>3, <1>4, PTL DEF MigrationSpec

-----------------------------------------------------------------------------
(* Where the journal is never empty, the rule keeps itself: the first table *)
(* a migration reads is the one whose documents never change.               *)

\* Every database to be migrated has an event.
EventsRecorded ==
  \A d \in Databases :
    d.version \in Migratable => \E k \in Attempts : d.rows["trace_events"][k] # None

JournalInv ==
  /\ version \in Migratable => Rows("trace_events") # {}
  /\ \A q \in Processes :
       opening[q].pc \in {"reading", "writing"} =>
         Rows("trace_events") # {} /\ opening[q].table = 1

LEMMA JournalStep ==
  ASSUME MigrationInv, JournalInv, [MigrationNext]_vars
  PROVE  JournalInv' /\ [UsedWithCare]_vars
  <1>0. opening \in [Processes -> Openings] /\ "trace_events" \in Names
        /\ Tables[1] = "trace_events"
    BY DEF MigrationInv, TypeInv, Names, Tables
  <1>1. UsedWithCare
    BY <1>0 DEF UsedWithCare, JournalInv, Immutable
  <1>2. CASE UNCHANGED vars
    BY <1>2 DEF vars, JournalInv, Rows
  <1>3. CASE MigrationNext
    <2>1. PICK p \in Processes : Open(p) \/ OpenStep(p) \/ Use(p) \/ Close(p)
      BY <1>3 DEF MigrationNext
    <2>2. \A k \in Attempts :
            rows["trace_events"][k] # None => rows'["trace_events"][k] # None
      <3>1. CASE rows' = rows
        BY <3>1
      <3>2. CASE Migrate(p) /\ rows' = Rewritten(p)
        BY <1>0, <3>2, Rewrites DEF Migrate
      <3>3. CASE Use(p)
        <4>1. rows \in [Names -> Column]
          BY DEF MigrationInv, TypeInv
        <4>2. PICK a \in Attempts :
                     BeginAttempt(a) \/ AppendTrace(a) \/ CreateEpisode(a)
                       \/ TransitionEpisode(a) \/ FinalizeAttempt(a)
          BY <3>3 DEF Use
        <4>3. rows'["trace_events"] = rows["trace_events"]
              \/ /\ rows["trace_events"][a] = None
                 /\ rows'["trace_events"] = [rows["trace_events"] EXCEPT ![a] = Fresh(0)]
          BY <1>0, <4>1, <4>2
             DEF Names, BeginAttempt, AppendTrace, CreateEpisode, TransitionEpisode,
                 FinalizeAttempt
        <4>4. rows["trace_events"] \in [Attempts -> Documents \cup {None}]
          BY <1>0, <4>1 DEF Column
        <4>5. QED
          BY <4>3, <4>4
      <3>4. QED
        BY <2>1, <3>1, <3>2, <3>3
           DEF OpenStep, Open, ReadVersion, Claim, ReadTable, Migrate, Close, database
    <2>3. Rows("trace_events") # {} => Rows("trace_events")' # {}
      BY <2>2 DEF Rows
    <2>4. version' \in Migratable => version \in Migratable
      <3>1. version' = version \/ version' = Current
        BY <2>1 DEF OpenStep, Open, ReadVersion, Claim, ReadTable, Migrate, Close, Use,
                    BeginAttempt, AppendTrace, CreateEpisode, TransitionEpisode,
                    FinalizeAttempt, database
      <3>2. QED
        BY <3>1 DEF Current, Migratable
    <2>5. ASSUME NEW q \in Processes, opening'[q].pc \in {"reading", "writing"}
          PROVE  Rows("trace_events") # {} /\ opening'[q].table = 1
      <3>1. CASE opening'[q] = opening[q]
        BY <2>5, <3>1 DEF JournalInv
      <3>2. CASE Open(p) \/ Close(p)
        <4>1. /\ opening' = [opening EXCEPT ![p] = Closed]
                 \/ opening' = [opening EXCEPT ![p] = [Closed EXCEPT !.pc = "version"]]
          BY <3>2 DEF Open, Close
        <4>2. Closed.pc = "closed" /\ [Closed EXCEPT !.pc = "version"].pc = "version"
          BY DEF Closed
        <4>3. q = p => FALSE
          BY <1>0, <2>5, <4>1, <4>2
        <4>4. opening'[q] = opening[q]
          BY <1>0, <4>1, <4>3
        <4>5. QED
          BY <2>5, <4>4 DEF JournalInv
      <3>3. CASE ReadVersion(p) /\ opening'[q] # opening[q]
        <4>1. AfterVersion(version) \in {"claiming", "reading", "ready", "unsupported"}
              /\ (AfterVersion(version) = "reading" => version \in Migratable)
          BY DEF AfterVersion
        <4>2. /\ opening'[p].pc = AfterVersion(version)
              /\ opening'[p].table = opening[p].table
              /\ \A r \in Processes : r # p => opening'[r] = opening[r]
          BY <1>0, <3>3, <4>1, Goes DEF ReadVersion
        <4>3. opening[p].table = 1
          BY <3>3 DEF ReadVersion, MigrationInv, OpeningInv
        <4>4. QED
          BY <2>5, <3>3, <4>1, <4>2, <4>3 DEF JournalInv
      <3>4. CASE Claim(p) \/ Migrate(p)
        <4>1. PICK pc \in {"ready", "overtaken", "unreadable"} : GoTo(p, pc)
          BY <3>4 DEF Claim, Migrate
        <4>2. opening'[p].pc = pc /\ \A r \in Processes : r # p => opening'[r] = opening[r]
          BY <1>0, <4>1, Goes
        <4>3. QED
          BY <2>5, <4>2 DEF JournalInv
      <3>5. CASE ReadTable(p)
        <4>1. opening[p].table = 1 /\ Rows("trace_events") # {} /\ opening[p] \in Openings
          BY <1>0, <3>5 DEF ReadTable, JournalInv
        <4>2. opening' = [opening EXCEPT ![p].pc = "writing", ![p].seen = rows["trace_events"]]
          BY <1>0, <3>5, <4>1 DEF ReadTable
        <4>3. opening'[p].table = 1 /\ \A r \in Processes : r # p => opening'[r] = opening[r]
          BY <1>0, <4>1, <4>2 DEF Openings
        <4>4. QED
          BY <2>5, <4>1, <4>3 DEF JournalInv
      <3>6. CASE Use(p)
        BY <2>5, <3>6 DEF Use, JournalInv
      <3>7. QED
        BY <2>1, <3>1, <3>2, <3>3, <3>4, <3>5, <3>6 DEF OpenStep
    <2>6. QED
      BY <1>1, <2>3, <2>4, <2>5 DEF JournalInv
  <1>4. QED
    BY <1>1, <1>2, <1>3

LEMMA JournalInit ==
  ASSUME EventsRecorded, MigrationInit
  PROVE  JournalInv
  <1>1. PICK d \in Databases :
               /\ version = d.version /\ rows = d.rows
               /\ opening = [p \in Processes |-> Closed]
    BY DEF MigrationInit
  <1>2. \A p \in Processes : opening[p].pc = "closed"
    BY <1>1 DEF Closed
  <1>3. version \in Migratable => Rows("trace_events") # {}
    BY <1>1 DEF EventsRecorded, Rows
  <1>4. QED
    BY <1>2, <1>3 DEF JournalInv

\* Databases in which something was recorded before are migrated safely under any
\* use: no receipt loses its document and nothing is undone, because the table that
\* is read before the lock is taken is the journal (the order of document_models
\* in _migrate_documents_to_v4).
THEOREM RecordedIsMigratedSafely ==
  ASSUME EventsRecorded
  PROVE  ReceiptsMatch /\ MigrationSpec => []ReceiptsMatch /\ NothingIsUndone
  <1>1. MigrationInit => MigrationInv /\ JournalInv
    BY MigrationInvInit, JournalInit
  <1>2. MigrationInv /\ JournalInv /\ [MigrationNext]_vars
          => (MigrationInv /\ JournalInv)' /\ [UsedWithCare]_vars
    BY MigrationStep, JournalStep
  <1>3. MigrationSpec => [][UsedWithCare]_vars
    BY <1>1, <1>2, PTL DEF MigrationSpec
  <1>4. QED
    BY <1>3, ReceiptsStay, NoneIsUndone, PTL
=============================================================================
