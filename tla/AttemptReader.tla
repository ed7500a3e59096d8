---------------------------- MODULE AttemptReader ----------------------------
(***************************************************************************)
(* Readers of an attempt while others write it: show_attempt (src/llmin/   *)
(* cli.py) reads the row with get_attempt, and then the journal and the    *)
(* evidence with reconstruct_attempt (src/llmin/memory/sqlite.py).  No     *)
(* transaction spans these SELECTs, so each is an action of its own and    *)
(* sees the committed state of its moment.                                 *)
(***************************************************************************)
EXTENDS AttemptStore

CONSTANT Readers

VARIABLE views     \* reader -> the attempt it shows and what it has read of it

readerVars == <<storeVars, views>>

Tables == {"attempts", "trace_events", "evidence"}

\* Faulty variant: the journal is read before the row.
BugJournalFirst == <<"trace_events", "attempts", "evidence">>

\* show_attempt reads the tables in this order.
ReadingOrder == <<"attempts", "trace_events", "evidence">>

Nothing(a) ==
  [attempt |-> a, read |-> 0, row |-> None, events |-> <<>>, evidence |-> {}]

\* A reader starts, or starts again, with an attempt.
Show(r, a) ==
  /\ views[r].read \in {0, Len(ReadingOrder)}
  /\ views' = [views EXCEPT ![r] = Nothing(a)]
  /\ UNCHANGED storeVars

\* An attempt without a row is not shown.
RowIsMissing(r) ==
  \E i \in 1 .. views[r].read :
    ReadingOrder[i] = "attempts" /\ views[r].row = None

\* The reader reads the next table.
Read(r) ==
  LET a == views[r].attempt
      Next == views[r].read + 1 IN
  /\ a # None /\ Next <= Len(ReadingOrder) /\ ~RowIsMissing(r)
  /\ views' = [views EXCEPT
       ![r].read = Next,
       ![r].row = IF ReadingOrder[Next] = "attempts" THEN attempts[a] ELSE @,
       ![r].events = IF ReadingOrder[Next] = "trace_events" THEN journal[a] ELSE @,
       ![r].evidence = IF ReadingOrder[Next] = "evidence"
                       THEN {id \in Runs : evidence[id] = a} ELSE @]
  /\ UNCHANGED storeVars

NotFound(r) ==
  /\ RowIsMissing(r)
  /\ views' = [views EXCEPT ![r] = Nothing(None)]
  /\ UNCHANGED storeVars

ReaderInit ==
  /\ StoreInit
  /\ views = [r \in Readers |-> Nothing(None)]

ReaderNext ==
  \/ StoreNext /\ UNCHANGED views
  \/ \E r \in Readers, a \in Attempts : Show(r, a)
  \/ \E r \in Readers : Read(r) \/ NotFound(r)

ReaderSpec == ReaderInit /\ [][ReaderNext]_readerVars

-----------------------------------------------------------------------------
Shown(r) == views[r].read = Len(ReadingOrder) /\ views[r].row # None

\* However finalization and further events come between its reads, a view that
\* shows an attempt as final shows the events and the evidence that made it so:
\* the transition to its final state, for a completed attempt the whole proof,
\* and every piece of evidence its report cites (show_attempt).
FinalViewIsProved ==
  \A r \in Readers :
    Shown(r) /\ views[r].row.status = "finalized" =>
      /\ \E i \in DOMAIN views[r].events : views[r].events[i].to = views[r].row.final
      /\ views[r].row.final = "completed" =>
           CompletionIsProved(views[r].events, views[r].row)
      /\ EvidenceOf(views[r].row) \subseteq views[r].evidence

\* What a view shows stays true: the events it shows are the beginning of the
\* journal, and an attempt shown as final is still the same.
ViewStaysTrue ==
  \A r \in Readers :
    LET a == views[r].attempt IN
    a # None =>
      /\ IsPrefixOf(views[r].events, journal[a])
      /\ views[r].evidence \subseteq {id \in Runs : evidence[id] = a}
      /\ views[r].row # None =>
           /\ attempts[a] # None
           /\ SameEnvelope(a, views[r].row.identity, views[r].row.environment, attempts[a].plan)
           /\ views[r].row.status = "finalized" => attempts[a] = views[r].row

\* A view put together from several reads is true: what it shows as final is
\* proved by what it shows, and nothing it shows is taken back.
ViewsAreFaithful == FinalViewIsProved /\ ViewStaysTrue
=============================================================================
