---------------------------- MODULE EpisodeStore ----------------------------
(***************************************************************************)
(* The other tables of SQLiteMemoryStore (src/llmin/memory/sqlite.py):     *)
(* episodes and their transitions, artifact relations, contradictions and  *)
(* costs, next to the attempt tables they refer to.                        *)
(*                                                                         *)
(* create_episode, append_relation, append_contradiction, append_cost and  *)
(* append_evidence look before they insert, and take no lock to look: the  *)
(* sqlite3 module opens a transaction at the first INSERT or UPDATE, not   *)
(* at a SELECT.  Such a call is two actions, Look and Insert, and other    *)
(* calls move in between.  What Look reads never changes once it holds,    *)
(* except the row of the attempt, which create_episode reads once: its     *)
(* moment is the moment of Look.  transition_episode runs in one BEGIN     *)
(* IMMEDIATE transaction and is one action.                                *)
(***************************************************************************)
EXTENDS AttemptStore

CONSTANTS
  EpisodeIds,      \* artifact identifiers of episodes
  RecordIds,       \* identifiers of relations, contradictions and costs
  Tasks,           \* task identifiers
  TaskOf,          \* identity -> its task identifier
  Times,           \* timestamps callers supply
  Authors,         \* the threads or processes that use the store
  Requests,        \* what they may ask it to store
  MaxTransitions   \* bound on the history of one episode

VARIABLES
  episodes,        \* episode id -> its row in episodes, or None
  transitions,     \* episode id -> its rows in episode_transitions, by rowid
  records,         \* table -> id -> its row, or None
  calls            \* author -> the call it makes or made last

episodeVars == <<episodes, transitions, records>>
allVars == <<storeVars, episodeVars, calls>>

-----------------------------------------------------------------------------
(* The documents.                                                          *)

MemoryStates == {"active", "cold", "quarantined", "tombstoned"}

\* _ALLOWED_TRANSITIONS.
AllowedMoves ==
  [s \in MemoryStates |->
     IF s = "tombstoned" THEN {} ELSE MemoryStates \ {s}]

\* "hashed" says that the content hash is that of the redacted summary, and
\* "summary" that there is one.
EpisodeDocuments ==
  [task : Tasks, attempt : Attempts, events : SUBSET TraceEvents,
   evidence : SUBSET Runs, reports : SUBSET Runs, parents : SUBSET EpisodeIds,
   environments : SUBSET Environments, keepUntil : Times, hashed : BOOLEAN,
   state : MemoryStates, summary : BOOLEAN]

\* Episode.validate_episode.
ValidEpisode(d) ==
  /\ d.summary <=> d.state # "tombstoned"
  /\ d.events # {} /\ d.evidence # {} /\ d.environments # {}

EpisodeTransitions == [from : MemoryStates, to : MemoryStates, at : Times]

Relations == [artifacts : SUBSET EpisodeIds, source : EpisodeIds]

\* ArtifactRelation.reject_self_relation.
ValidRelation(d) == Cardinality(d.artifacts) = 2 /\ d.source \in d.artifacts

Contradictions ==
  [artifacts : SUBSET EpisodeIds,
   status : {"open", "explained", "invalidated"},
   supersedes : RecordIds \cup {None}]

\* ContradictionRecord.validate_resolution.
ValidContradiction(d) ==
  /\ Cardinality(d.artifacts) >= 2
  /\ d.status = "open" <=> d.supersedes = None

Costs == [attempt : Attempts, units : Nat]

RecordTables == {"artifact_relations", "contradictions", "cost_entries"}

IsRequest(q) ==
  \/ /\ q.table = "episodes" /\ q.id \in EpisodeIds
     /\ q.document \in EpisodeDocuments /\ ValidEpisode(q.document)
  \/ /\ q.table = "evidence" /\ q.id \in Runs /\ q.document \in Attempts
  \/ /\ q.table = "artifact_relations" /\ q.id \in RecordIds
     /\ q.document \in Relations /\ ValidRelation(q.document)
  \/ /\ q.table = "contradictions" /\ q.id \in RecordIds
     /\ q.document \in Contradictions /\ ValidContradiction(q.document)
  \/ /\ q.table = "cost_entries" /\ q.id \in RecordIds
     /\ q.document \in Costs

ASSUME EpisodeAssumptions ==
  /\ TaskOf \in [Identities -> Tasks]
  /\ Times \subseteq Nat
  /\ MaxTransitions \in Nat
  /\ \A q \in Requests : IsRequest(q) /\ q.document # None
  /\ None \notin RecordIds \cup EpisodeDocuments

-----------------------------------------------------------------------------
(* What a call looks at before it inserts.                                 *)

\* The row under the identifier of a request, or None.
Existing(q) ==
  CASE q.table = "episodes" -> episodes[q.id]
    [] q.table = "evidence" -> evidence[q.id]
    [] OTHER -> records[q.table][q.id]

\* _require_identical compares the documents; that of an evidence row does not
\* hold the attempt it is linked to.
Identical(q) == q.table = "evidence" \/ Existing(q) = q.document

EpisodesExist(ids) == \A e \in ids : episodes[e] # None

\* The source events are in the journal of the attempt and speak of the task;
\* the evidence is linked to the attempt.
SourcesExist(d) ==
  /\ \A e \in d.events :
       /\ \E i \in DOMAIN journal[d.attempt] : journal[d.attempt][i] = e
       /\ TaskOf[e.identity] = d.task
  /\ \A id \in d.evidence : evidence[id] = d.attempt

\* Cited reports are the report of the persisted attempt, and the evidence is
\* part of it.
ReportIsCited(d) ==
  d.reports # {} =>
    /\ attempts[d.attempt] # None /\ attempts[d.attempt].verification # None
    /\ LET report == attempts[d.attempt].verification IN
         /\ TaskOf[report.task] = d.task
         /\ d.reports = {report.run}
         /\ d.evidence \subseteq report.evidence

AttemptFits(d) ==
  attempts[d.attempt] # None =>
    /\ TaskOf[attempts[d.attempt].identity] = d.task
    /\ attempts[d.attempt].environment \in d.environments

\* Faulty variant: evidence may belong to any attempt.
BugAnyEvidence(d) ==
  /\ \A e \in d.events :
       \E i \in DOMAIN journal[d.attempt] : journal[d.attempt][i] = e
  /\ \A id \in d.evidence : evidence[id] # None
  /\ ReportIsCited(d) /\ AttemptFits(d)

\* create_episode up to its last check, which Insert makes.
EpisodeAccepted(d) == SourcesExist(d) /\ ReportIsCited(d) /\ AttemptFits(d)

\* append_contradiction: a closing record supersedes an open one of the same
\* artifacts.
ContradictionAccepted(d) ==
  /\ EpisodesExist(d.artifacts)
  /\ d.supersedes # None =>
       LET prior == records["contradictions"][d.supersedes] IN
         prior # None /\ prior.status = "open" /\ prior.artifacts = d.artifacts

Accepted(q) ==
  CASE q.table = "episodes" -> EpisodeAccepted(q.document)
    [] q.table = "artifact_relations" -> EpisodesExist(q.document.artifacts)
    [] q.table = "contradictions" -> ContradictionAccepted(q.document)
    [] OTHER -> TRUE

\* A new episode starts active, with a matching content hash.
Refusable(q) ==
  q.table = "episodes" => q.document.state = "active" /\ q.document.hashed

\* Faulty variant: an episode may cite parents nobody stored.
BugParentsAssumed(q) == TRUE

\* The last thing create_episode looks at before it inserts.
ParentsExist(q) == q.table = "episodes" => EpisodesExist(q.document.parents)

-----------------------------------------------------------------------------
(* The operations.                                                         *)

Idle == [pc |-> "idle", request |-> None]

CallIs(c, pc, q) == calls' = [calls EXCEPT ![c] = [pc |-> pc, request |-> q]]

\* An author calls the operation of the request: it is answered, refused, or
\* goes on to insert.
Look(c, q) ==
  /\ calls[c].pc # "insert"
  /\ CallIs(c, CASE ~Refusable(q) -> "refused"
                 [] Refusable(q) /\ Existing(q) # None ->
                      IF Identical(q) THEN "done" ELSE "refused"
                 [] OTHER -> IF Accepted(q) THEN "insert" ELSE "refused", q)
  /\ UNCHANGED <<storeVars, episodeVars>>

Row(q) ==
  CASE q.table = "episodes" ->
         /\ episodes' = [episodes EXCEPT ![q.id] = q.document]
         /\ UNCHANGED <<storeVars, transitions, records>>
    [] q.table = "evidence" ->
         /\ evidence' = [evidence EXCEPT ![q.id] = q.document]
         /\ UNCHANGED <<attempts, journal, receipts, episodeVars>>
    [] OTHER ->
         /\ records' = [records EXCEPT ![q.table][q.id] = q.document]
         /\ UNCHANGED <<storeVars, episodes, transitions>>

\* Faulty variant: INSERT OR REPLACE.
BugInsertReplaces(c) ==
  /\ calls[c].pc = "insert"
  /\ CallIs(c, "done", calls[c].request)
  /\ Row(calls[c].request)

\* INSERT fails with an IntegrityError when somebody has taken the identifier
\* since: the call raises and changes nothing.
Insert(c) ==
  LET q == calls[c].request IN
  /\ calls[c].pc = "insert"
  /\ \/ /\ ~ParentsExist(q)
        /\ CallIs(c, "refused", q)
        /\ UNCHANGED <<storeVars, episodeVars>>
     \/ /\ ParentsExist(q) /\ Existing(q) # None
        /\ CallIs(c, "raised", q)
        /\ UNCHANGED <<storeVars, episodeVars>>
     \/ /\ ParentsExist(q) /\ Existing(q) = None
        /\ CallIs(c, "done", q)
        /\ Row(q)

\* The row after a transition: a tombstone loses its summary.
Transitioned(e, target, at) ==
  [episodes[e] EXCEPT !.state = target, !.summary = @ /\ target # "tombstoned"]

\* Faulty variant: nothing is final.
BugTombstonesRise(e, target, at) ==
  /\ target # episodes[e].state
  /\ target = "tombstoned" => at >= episodes[e].keepUntil

TransitionAllowed(e, target, at) ==
  /\ target \in AllowedMoves[episodes[e].state]
  /\ target = "tombstoned" => at >= episodes[e].keepUntil

\* Faulty variant: the row is updated and no audit record is left.
BugUnauditedMove(e, target, at) ==
  /\ episodes[e] # None
  /\ TransitionAllowed(e, target, at)
  /\ episodes' = [episodes EXCEPT ![e] = Transitioned(e, target, at)]
  /\ UNCHANGED <<storeVars, transitions, records, calls>>

TransitionEpisode(e, target, at) ==
  /\ episodes[e] # None
  /\ TransitionAllowed(e, target, at)
  /\ Len(transitions[e]) < MaxTransitions
  /\ episodes' = [episodes EXCEPT ![e] = Transitioned(e, target, at)]
  /\ transitions' = [transitions EXCEPT ![e] =
       Append(@, [from |-> episodes[e].state, to |-> target, at |-> at])]
  /\ UNCHANGED <<storeVars, records, calls>>

\* The attempts the episodes refer to live on.
AttemptsMove ==
  /\ \/ \E a \in Attempts, i \in Identities, env \in Environments :
          BeginAttempt(a, i, env, None)
     \/ \E e \in CallerEvents : AppendTrace(e)
     \/ \E a \in Attempts, o \in CallerOutcomes, now \in Clock :
          FinalizeAttempt(a, o, now)
  /\ UNCHANGED <<episodeVars, calls>>

EpisodeInit ==
  /\ StoreInit
  /\ episodes = [e \in EpisodeIds |-> None]
  /\ transitions = [e \in EpisodeIds |-> <<>>]
  /\ records = [t \in RecordTables |-> [id \in RecordIds |-> None]]
  /\ calls = [c \in Authors |-> Idle]

EpisodeNext ==
  \/ AttemptsMove
  \/ \E c \in Authors, q \in Requests : Look(c, q)
  \/ \E c \in Authors : Insert(c)
  \/ \E e \in EpisodeIds, target \in MemoryStates, at \in Times :
       TransitionEpisode(e, target, at)

EpisodeSpec == EpisodeInit /\ [][EpisodeNext]_allVars

-----------------------------------------------------------------------------
(* What the tables promise.                                                *)

\* Rows are valid documents, calls are at a point of the code.
EpisodeTypeOK ==
  /\ StoreTypeOK
  /\ \A e \in EpisodeIds : episodes[e] # None =>
       episodes[e] \in EpisodeDocuments /\ ValidEpisode(episodes[e])
  /\ transitions \in [EpisodeIds -> Seq(EpisodeTransitions)]
  /\ \A t \in RecordTables, id \in RecordIds : records[t][id] # None =>
       IsRequest([table |-> t, id |-> id, document |-> records[t][id]])
  /\ \A c \in Authors :
       /\ calls[c].pc \in {"idle", "insert", "done", "refused", "raised"}
       /\ calls[c].request \in Requests \cup {None}

Stored == {e \in EpisodeIds : episodes[e] # None}

\* Whatever happens to its attempt after an episode was created, the episode
\* keeps pointing at events, evidence and a report of that attempt, and the
\* attempt, even one begun later, is one of the task of the episode
\* (_validate_episode_provenance looks only once).
ProvenanceHolds ==
  \A e \in Stored :
    /\ SourcesExist(episodes[e])
    /\ ReportIsCited(episodes[e])
    /\ attempts[episodes[e].attempt] # None =>
         TaskOf[attempts[episodes[e].attempt].identity] = episodes[e].task

\* Parents are stored, and no episode is its own ancestor: every set of stored
\* episodes has a member with no parent in the set, however creations of
\* episodes that cite each other interleave (create_episode).
LineageIsGrounded ==
  /\ \A e \in Stored : episodes[e].parents \subseteq Stored
  /\ \A S \in (SUBSET Stored) \ {{}} :
       \E e \in S : episodes[e].parents \cap S = {}

\* The audit records tell the state: they lead from "active" by moves of
\* _ALLOWED_TRANSITIONS to the state of the row, nothing follows a tombstone, and
\* a summary is gone only by a tombstone dated after the retention period
\* (transition_episode).  These are the moves of the code; docs/memory.md shows
\* fewer (DocumentedMovesOnly).
HistoryTellsState ==
  \A e \in EpisodeIds :
    LET history == transitions[e] IN
      /\ episodes[e] = None => history = <<>>
      /\ episodes[e] # None =>
           /\ \A i \in DOMAIN history :
                /\ history[i].from =
                     IF i = 1 THEN "active" ELSE history[i - 1].to
                /\ history[i].to \in AllowedMoves[history[i].from]
           /\ episodes[e].state =
                IF history = <<>> THEN "active" ELSE history[Len(history)].to
           /\ ~episodes[e].summary <=>
                \E i \in DOMAIN history :
                  /\ history[i].to = "tombstoned"
                  /\ history[i].at >= episodes[e].keepUntil

\* A closed contradiction supersedes an open investigation of the same, stored
\* artifacts, which is still on record, and relations join stored artifacts
\* (append_contradiction, append_relation).
RecordsAreGrounded ==
  /\ \A id \in RecordIds :
       LET d == records["contradictions"][id] IN
       d # None =>
         /\ d.artifacts \subseteq Stored
         /\ d.status # "open" =>
              /\ records["contradictions"][d.supersedes] # None
              /\ records["contradictions"][d.supersedes].status = "open"
              /\ records["contradictions"][d.supersedes].artifacts = d.artifacts
  /\ \A id \in RecordIds :
       records["artifact_relations"][id] # None =>
         records["artifact_relations"][id].artifacts \subseteq Stored

\* Whatever is stored is a valid document and refers only to what is stored,
\* however the two steps of the calls interleave.
ReferencesHold == EpisodeTypeOK /\ LineageIsGrounded /\ RecordsAreGrounded

\* A call that was answered left, or found, what it asked to store: an episode
\* up to its later transitions, evidence up to the attempt it is linked to,
\* another record exactly.
AnsweredIsStored ==
  \A c \in Authors :
    LET q == calls[c].request IN
    calls[c].pc = "done" =>
      /\ Existing(q) # None
      /\ q.table \in RecordTables => Existing(q) = q.document
      /\ q.table = "episodes" =>
           Existing(q) = [q.document EXCEPT !.state = Existing(q).state,
                                            !.summary = Existing(q).summary]

\* Records never change; of an episode nothing changes but its state and, once,
\* its summary, each change leaves exactly one audit record, audit records stay,
\* and a tombstone is final.
EpisodesAreKept ==
  [][/\ \A t \in RecordTables, id \in RecordIds :
          records[t][id] # None => records'[t][id] = records[t][id]
     /\ \A e \in Stored :
          /\ episodes'[e] = [episodes[e] EXCEPT !.state = episodes'[e].state,
                                                !.summary = episodes'[e].summary]
          /\ episodes'[e].summary => episodes[e].summary
          /\ episodes[e].state = "tombstoned" => episodes'[e] = episodes[e]
          /\ IsPrefixOf(transitions[e], transitions'[e])
          /\ episodes'[e] # episodes[e] <=>
               Len(transitions'[e]) = Len(transitions[e]) + 1
    ]_allVars

-----------------------------------------------------------------------------
(* What the documents promise and the code does not keep (README.md).      *)

\* docs/memory.md says of records of the journal that repeating the same record
\* is idempotent: no call fails whose identical record is stored.
RepeatIsAccepted ==
  \A c \in Authors :
    calls[c].pc = "raised" =>
      ~(Existing(calls[c].request) # None /\ Identical(calls[c].request))

\* docs/memory.md says that the store persists evidence linked to an attempt:
\* evidence that append_evidence accepted is linked to the attempt it was given.
AnsweredEvidenceIsLinked ==
  \A c \in Authors :
    calls[c].pc = "done" /\ calls[c].request.table = "evidence" =>
      evidence[calls[c].request.id] = calls[c].request.document

\* docs/memory.md requires of an episode that the fingerprint of its source
\* attempt be included when that attempt is persisted.
EnvironmentIncluded ==
  \A e \in Stored :
    attempts[episodes[e].attempt] # None =>
      attempts[episodes[e].attempt].environment \in episodes[e].environments

\* The graph of "Allowed states" in docs/memory.md: quarantine leads only to a
\* tombstone, and nothing else does.
DocumentedMoves ==
  [s \in MemoryStates |->
     CASE s = "active" -> {"cold", "quarantined"}
       [] s = "cold" -> {"active", "quarantined"}
       [] s = "quarantined" -> {"tombstoned"}
       [] s = "tombstoned" -> {}]

\* Every audit record is a move of that graph (transition_episode, which goes by
\* _ALLOWED_TRANSITIONS, lets a quarantined episode out and buries an active one).
DocumentedMovesOnly ==
  \A e \in EpisodeIds : \A i \in DOMAIN transitions[e] :
    transitions[e][i].to \in DocumentedMoves[transitions[e][i].from]
=============================================================================
