------------------------- MODULE EpisodeStore_proofs -------------------------
(***************************************************************************)
(* Proofs about EpisodeStore, for all episodes, records, requests, authors *)
(* and attempts, however the two steps of the calls interleave.            *)
(***************************************************************************)
EXTENDS EpisodeStore, AttemptStore_proofs

-----------------------------------------------------------------------------
(* The attempts under the episodes.                                        *)

\* A row that is not final has no report.
OpenRowsAreBare ==
  \A a \in Attempts :
    attempts[a] # None /\ attempts[a].status # "finalized"
      => attempts[a].verification = None

AttemptsInv == StoreTypeOK /\ FinalizationIsAtomic /\ OpenRowsAreBare

LEMMA AttemptsInit == StoreInit => AttemptsInv
  <1> SUFFICES ASSUME StoreInit PROVE AttemptsInv
    OBVIOUS
  <1>1. StoreTypeOK
    BY DEF StoreInit, StoreTypeOK
  <1>2. FinalizationIsAtomic
    BY DEF StoreInit, FinalizationIsAtomic, Finalized
  <1>3. OpenRowsAreBare
    BY DEF StoreInit, OpenRowsAreBare
  <1>4. QED
    BY <1>1, <1>2, <1>3 DEF AttemptsInv

\* What a step of the attempt tables does to the row of one attempt.
LEMMA RowCases ==
  ASSUME StoreTypeOK, [StoreNext]_storeVars, NEW b \in Attempts
  PROVE  \/ attempts'[b] = attempts[b]
         \/ /\ attempts[b] = None
            /\ attempts'[b].verification = None
            /\ TraceIdentityIs(journal[b], attempts'[b].identity)
         \/ /\ attempts[b] # None
            /\ attempts'[b] \in AttemptRecords
            /\ attempts'[b].status = "finalized"
            /\ attempts'[b].identity = attempts[b].identity
  <1>1. ASSUME NEW a \in Attempts, NEW i \in Identities, NEW env \in Environments,
               NEW plan, BeginAttempt(a, i, env, plan)
        PROVE  \/ attempts'[b] = attempts[b]
               \/ /\ attempts[b] = None
                  /\ attempts'[b].verification = None
                  /\ TraceIdentityIs(journal[b], attempts'[b].identity)
    <2> DEFINE opened == OpenRecord(i, env, Sanitized(plan))
    <2>1. opened.verification = None /\ opened.identity = i
      BY DEF OpenRecord
    <2> HIDE DEF opened
    <2>2. CASE attempts[a] # None \/ a # b
      BY <1>1, <2>2 DEF BeginAttempt, StoreTypeOK, opened
    <2>3. CASE attempts[a] = None /\ a = b
      <3>1. attempts'[b] = opened /\ TraceIdentityIs(journal[b], i)
        BY <1>1, <2>3 DEF BeginAttempt, BeginAccepts, StoreTypeOK, opened
      <3>2. QED
        BY <2>1, <2>3, <3>1
    <2>4. QED
      BY <2>2, <2>3
  <1>2. ASSUME NEW a \in Attempts, NEW o \in CallerOutcomes, NEW now \in Clock,
               FinalizeAttempt(a, o, now)
        PROVE  \/ attempts'[b] = attempts[b]
               \/ /\ attempts[b] # None
                  /\ attempts'[b] \in AttemptRecords
                  /\ attempts'[b].status = "finalized"
                  /\ attempts'[b].identity = attempts[b].identity
    <2>1. CASE UNCHANGED storeVars
      BY <2>1 DEF storeVars
    <2>2. ASSUME NEW r \in AttemptRecords, r.identity = attempts[a].identity,
                 r.status = "finalized", CommitFinalization(a, r, now)
          PROVE  \/ attempts'[b] = attempts[b]
                 \/ /\ attempts[b] # None
                    /\ attempts'[b] \in AttemptRecords
                    /\ attempts'[b].status = "finalized"
                    /\ attempts'[b].identity = attempts[b].identity
      <3>1. attempts' = [attempts EXCEPT ![a] = r] /\ attempts[a] # None
        BY <1>2, <2>2 DEF CommitFinalization, FinalizeAttempt, FinalizeAccepts
      <3>2. QED
        BY <2>2, <3>1 DEF StoreTypeOK
    <2>3. QED
      BY <1>2, <2>1, <2>2, FinalizeCases
  <1>3. CASE attempts' = attempts
    BY <1>3
  <1>4. QED
    BY <1>1, <1>2, <1>3 DEF StoreNext, AppendTrace, AppendEvidence, storeVars

LEMMA AttemptsStep == AttemptsInv /\ [StoreNext]_storeVars => AttemptsInv'
  <1> SUFFICES ASSUME AttemptsInv, [StoreNext]_storeVars PROVE AttemptsInv'
    OBVIOUS
  <1>1. StoreTypeOK' /\ FinalizationIsAtomic'
    BY StoreTypeStep, AtomicStep DEF AttemptsInv
  <1>2. OpenRowsAreBare'
    BY RowCases DEF OpenRowsAreBare, AttemptsInv
  <1>3. QED
    BY <1>1, <1>2 DEF AttemptsInv

-----------------------------------------------------------------------------
(* What an episode cites stays true.                                       *)

\* The document of an episode with another state and summary.
With(d, s, b) == [d EXCEPT !.state = s, !.summary = b]

LEMMA WithType ==
  ASSUME NEW d \in EpisodeDocuments, NEW s \in MemoryStates, NEW b \in BOOLEAN
  PROVE  /\ With(d, s, b) \in EpisodeDocuments
         /\ With(d, s, b).state = s /\ With(d, s, b).summary = b
         /\ With(d, s, b).keepUntil = d.keepUntil /\ With(d, s, b).parents = d.parents
         /\ With(d, s, b).events = d.events /\ With(d, s, b).evidence = d.evidence
         /\ With(d, s, b).environments = d.environments
         /\ \A t \in MemoryStates, c \in BOOLEAN :
              With(With(d, s, b), t, c) = With(d, t, c)
         /\ With(d, d.state, d.summary) = d
  BY DEF EpisodeDocuments, With

\* What is known of the document of an episode once it was accepted: it does
\* not keep the environment of its attempt, see EnvironmentIncluded.
Grounded(d) ==
  /\ SourcesExist(d) /\ ReportIsCited(d)
  /\ attempts[d.attempt] # None => TaskOf[attempts[d.attempt].identity] = d.task

LEMMA GroundedStays ==
  ASSUME AttemptsInv, [StoreNext]_storeVars, NEW d \in EpisodeDocuments,
         ValidEpisode(d), Grounded(d)
  PROVE  Grounded(d)'
  <1>1. /\ d.attempt \in Attempts /\ d.events \subseteq TraceEvents
        /\ d.evidence \subseteq Runs /\ d.events # {}
    BY DEF EpisodeDocuments, ValidEpisode
  <1>2. /\ journal[d.attempt] \in Seq(TraceEvents)
        /\ journal'[d.attempt] \in Seq(TraceEvents)
        /\ IsPrefixOf(journal[d.attempt], journal'[d.attempt])
    BY <1>1, JournalGrows DEF AttemptsInv, StoreTypeOK
  <1>3. SourcesExist(d)'
    <2>1. ASSUME NEW e \in d.events
          PROVE  \E i \in DOMAIN journal'[d.attempt] : journal'[d.attempt][i] = e
      <3>1. PICK i \in DOMAIN journal[d.attempt] : journal[d.attempt][i] = e
        BY DEF Grounded, SourcesExist
      <3>2. i \in DOMAIN journal'[d.attempt]
            /\ journal'[d.attempt][i] = journal[d.attempt][i]
        BY <1>2 DEF IsPrefixOf
      <3>3. QED
        BY <3>1, <3>2
    <2>2. ASSUME NEW id \in d.evidence
          PROVE  evidence'[id] = d.attempt
      <3>1. evidence[id] = d.attempt /\ evidence[id] # None /\ id \in Runs
        BY <1>1, StoreAssumptions DEF Grounded, SourcesExist
      <3>2. QED
        BY <3>1, RowsStay DEF AttemptsInv
    <2>3. \A e \in d.events : TaskOf[e.identity] = d.task
      BY DEF Grounded, SourcesExist
    <2>4. QED
      BY <2>1, <2>2, <2>3 DEF SourcesExist
  <1>4. ReportIsCited(d)'
    <2>1. CASE d.reports = {}
      BY <2>1 DEF ReportIsCited
    <2>2. CASE d.reports # {}
      <3>1. Finalized(d.attempt)
        BY <1>1, <2>2 DEF Grounded, ReportIsCited, AttemptsInv, OpenRowsAreBare,
                         Finalized
      <3>2. attempts'[d.attempt] = attempts[d.attempt]
        BY <1>1, <3>1, RowsStay DEF AttemptsInv
      <3>3. QED
        BY <3>2 DEF Grounded, ReportIsCited
    <2>3. QED
      BY <2>1, <2>2
  <1>5. ASSUME attempts'[d.attempt] # None
        PROVE  TaskOf[attempts'[d.attempt].identity] = d.task
    <2>1. CASE attempts'[d.attempt] = attempts[d.attempt]
      BY <1>5, <2>1 DEF Grounded
    <2>2. CASE attempts[d.attempt] # None
               /\ attempts'[d.attempt].identity = attempts[d.attempt].identity
      BY <2>2 DEF Grounded
    <2>3. CASE TraceIdentityIs(journal[d.attempt], attempts'[d.attempt].identity)
      <3>1. PICK e \in d.events : TRUE
        BY <1>1
      <3>2. PICK i \in DOMAIN journal[d.attempt] : journal[d.attempt][i] = e
        BY DEF Grounded, SourcesExist
      <3>3. e.identity = attempts'[d.attempt].identity
        BY <2>3, <3>2 DEF TraceIdentityIs
      <3>4. TaskOf[e.identity] = d.task
        BY DEF Grounded, SourcesExist
      <3>5. QED
        BY <3>3, <3>4
    <2>4. QED
      BY <1>1, <2>1, <2>2, <2>3, RowCases DEF AttemptsInv
  <1>6. QED
    BY <1>3, <1>4, <1>5 DEF Grounded

\* Of the document of an episode, only its state and summary change, and what
\* it cites is in neither.
LEMMA GroundedAlike ==
  ASSUME NEW d \in EpisodeDocuments, NEW s \in MemoryStates, NEW b \in BOOLEAN
  PROVE  /\ Grounded(With(d, s, b)) <=> Grounded(d)
         /\ Grounded(With(d, s, b))' <=> Grounded(d)'
  <1> DEFINE f == With(d, s, b)
  <1>1. /\ f.attempt = d.attempt /\ f.events = d.events /\ f.task = d.task
        /\ f.evidence = d.evidence /\ f.reports = d.reports
    BY DEF EpisodeDocuments, With
  <1> HIDE DEF f
  <1>2. Grounded(f) <=> Grounded(d)
    BY <1>1 DEF Grounded, SourcesExist, ReportIsCited
  <1>3. Grounded(f)' <=> Grounded(d)'
    BY <1>1 DEF Grounded, SourcesExist, ReportIsCited
  <1>4. QED
    BY <1>2, <1>3 DEF f

-----------------------------------------------------------------------------
(* The tables and the calls.                                               *)

Points == {"idle", "insert", "done", "refused", "raised"}

\* A record under its table and identifier, as it was requested.
Filed(t, id, d) == [table |-> t, id |-> id, document |-> d]

EpisodeTypes ==
  /\ episodes \in [EpisodeIds -> EpisodeDocuments \cup {None}]
  /\ \A e \in Stored : ValidEpisode(episodes[e])
  /\ transitions \in [EpisodeIds -> Seq(EpisodeTransitions)]
  /\ records \in [RecordTables -> [RecordIds -> {q.document : q \in Requests} \cup {None}]]
  /\ \A t \in RecordTables, id \in RecordIds :
       records[t][id] # None => IsRequest(Filed(t, id, records[t][id]))
  /\ calls \in [Authors -> [pc : Points, request : Requests \cup {None}]]
  /\ \A c \in Authors : calls[c].pc # "idle" => calls[c].request \in Requests

\* What was looked at before an insert still holds when the insert runs.
Cleared(q) ==
  /\ q.table = "episodes" => q.document.state = "active" /\ Grounded(q.document)
  /\ q.table = "artifact_relations" => EpisodesExist(q.document.artifacts)
  /\ q.table = "contradictions" => ContradictionAccepted(q.document)

InsertsAreCleared ==
  \A c \in Authors : calls[c].pc = "insert" => Cleared(calls[c].request)

\* What a request asks for, by its table.
LEMMA RequestTables ==
  ASSUME NEW q \in Requests
  PROVE  /\ IsRequest(q) /\ q.document # None
         /\ \/ /\ q.table = "episodes" /\ q.id \in EpisodeIds
               /\ q.document \in EpisodeDocuments /\ ValidEpisode(q.document)
            \/ q.table = "evidence" /\ q.id \in Runs /\ q.document \in Attempts
            \/ q.table \in RecordTables /\ q.id \in RecordIds
  <1>1. IsRequest(q) /\ q.document # None
    BY EpisodeAssumptions
  <1>2. QED
    BY <1>1 DEF IsRequest, RecordTables

\* An author's call becomes another.
LEMMA CallBecomes ==
  ASSUME calls \in [Authors -> [pc : Points, request : Requests \cup {None}]],
         NEW c \in Authors, NEW pc \in Points, NEW q \in Requests, CallIs(c, pc, q)
  PROVE  /\ calls' \in [Authors -> [pc : Points, request : Requests \cup {None}]]
         /\ calls'[c].pc = pc /\ calls'[c].request = q
         /\ \A b \in Authors : b # c => calls'[b] = calls[b]
  BY DEF CallIs

\* An accepted episode is inserted.
EpisodeEnters(e, d) ==
  /\ episodes[e] = None
  /\ ValidEpisode(d) /\ d.state = "active" /\ Grounded(d) /\ EpisodesExist(d.parents)
  /\ episodes' = [episodes EXCEPT ![e] = d]
  /\ UNCHANGED <<storeVars, transitions, records>>

\* An accepted record is inserted.
RecordEnters(t, id, d) ==
  /\ records[t][id] = None
  /\ d # None /\ IsRequest(Filed(t, id, d))
  /\ t = "artifact_relations" => EpisodesExist(d.artifacts)
  /\ t = "contradictions" => ContradictionAccepted(d)
  /\ records' = [records EXCEPT ![t][id] = d]
  /\ UNCHANGED <<storeVars, episodes, transitions>>

\* What an insert does to the tables.
LEMMA RowCasesOfInsert ==
  ASSUME EpisodeTypes, NEW q \in Requests, Cleared(q), ParentsExist(q),
         Existing(q) = None, Row(q)
  PROVE  \/ /\ q.table = "evidence" /\ AppendEvidence(q.id, q.document)
            /\ evidence' = [evidence EXCEPT ![q.id] = q.document]
            /\ UNCHANGED episodeVars
         \/ q.table = "episodes" /\ EpisodeEnters(q.id, q.document)
         \/ q.table \in RecordTables /\ RecordEnters(q.table, q.id, q.document)
  <1>1. CASE q.table = "evidence"
    BY <1>1 DEF Row, Existing, AppendEvidence
  <1>2. CASE q.table = "episodes"
    <2>1. q.document \in EpisodeDocuments /\ ValidEpisode(q.document)
      BY <1>2, RequestTables DEF RecordTables
    <2>2. /\ episodes[q.id] = None
          /\ episodes' = [episodes EXCEPT ![q.id] = q.document]
          /\ UNCHANGED <<storeVars, transitions, records>>
      BY <1>2 DEF Row, Existing
    <2>3. QED
      BY <1>2, <2>1, <2>2 DEF Cleared, ParentsExist, EpisodeEnters
  <1>3. CASE q.table \in RecordTables
    <2>1. q.table # "evidence" /\ q.table # "episodes"
      BY <1>3 DEF RecordTables
    <2>2. /\ records[q.table][q.id] = None
          /\ records' = [records EXCEPT ![q.table][q.id] = q.document]
          /\ UNCHANGED <<storeVars, episodes, transitions>>
      BY <2>1 DEF Row, Existing
    <2>3. IsRequest(Filed(q.table, q.id, q.document))
      BY RequestTables DEF IsRequest, Filed
    <2>4. QED
      BY <1>3, <2>2, <2>3, RequestTables DEF Cleared, RecordEnters
  <1>4. QED
    BY <1>1, <1>2, <1>3, RequestTables

\* What a step does to the tables.
TablesStay == UNCHANGED episodeVars /\ [StoreNext]_storeVars

EpisodeComes == \E e \in EpisodeIds, d \in EpisodeDocuments : EpisodeEnters(e, d)

RecordComes ==
  \E t \in RecordTables, id \in RecordIds, d \in {q.document : q \in Requests} :
    RecordEnters(t, id, d)

EpisodeMoves ==
  \E e \in EpisodeIds, target \in MemoryStates, at \in Times :
    TransitionEpisode(e, target, at)

LEMMA TableCases ==
  ASSUME EpisodeTypes, InsertsAreCleared, [EpisodeNext]_allVars
  PROVE  TablesStay \/ EpisodeComes \/ RecordComes \/ EpisodeMoves
  <1>1. CASE AttemptsMove
    BY <1>1 DEF AttemptsMove, TablesStay, StoreNext
  <1>2. CASE \E c \in Authors, q \in Requests : Look(c, q)
    BY <1>2 DEF Look, TablesStay
  <1>3. ASSUME NEW c \in Authors, Insert(c)
        PROVE  TablesStay \/ EpisodeComes \/ RecordComes
    <2> DEFINE q == calls[c].request
    <2>1. q \in Requests /\ Cleared(q)
      BY <1>3 DEF EpisodeTypes, InsertsAreCleared, Insert
    <2>2. CASE UNCHANGED <<storeVars, episodeVars>>
      BY <2>2 DEF TablesStay
    <2>3. CASE ParentsExist(q) /\ Existing(q) = None /\ Row(q)
      <3> HIDE DEF q
      <3>1. CASE q.table = "evidence" /\ AppendEvidence(q.id, q.document)
                 /\ UNCHANGED episodeVars
        BY <2>1, <3>1, RequestTables DEF TablesStay, StoreNext, RecordTables
      <3>2. CASE q.table = "episodes" /\ EpisodeEnters(q.id, q.document)
        BY <2>1, <3>2, RequestTables DEF EpisodeComes, RecordTables
      <3>3. CASE q.table \in RecordTables /\ RecordEnters(q.table, q.id, q.document)
        BY <2>1, <3>3, RequestTables DEF RecordComes, RecordTables
      <3>4. QED
        BY <2>1, <2>3, <3>1, <3>2, <3>3, RowCasesOfInsert
    <2>4. QED
      BY <1>3, <2>2, <2>3 DEF Insert
  <1>4. CASE UNCHANGED allVars
    BY <1>4 DEF allVars, TablesStay
  <1>5. QED
    BY <1>1, <1>2, <1>3, <1>4 DEF EpisodeNext, EpisodeMoves

-----------------------------------------------------------------------------
(* What is stored stays.                                                   *)

\* An episode after a transition: only its state and its summary differ.
LEMMA TransitionedType ==
  ASSUME NEW e \in EpisodeIds, episodes[e] \in EpisodeDocuments,
         ValidEpisode(episodes[e]), NEW target \in MemoryStates,
         target # episodes[e].state, episodes[e].state # "tombstoned", NEW at,
         NEW b \in BOOLEAN, b <=> target # "tombstoned"
  PROVE  /\ Transitioned(e, target, at) \in EpisodeDocuments
         /\ ValidEpisode(Transitioned(e, target, at))
         /\ Transitioned(e, target, at) = With(episodes[e], target, b)
         /\ Transitioned(e, target, at).state = target
         /\ Transitioned(e, target, at).summary = b
         /\ Transitioned(e, target, at).keepUntil = episodes[e].keepUntil
         /\ Transitioned(e, target, at).parents = episodes[e].parents
  <1> DEFINE d == episodes[e]
             f == With(d, target, b)
  <1>1. d.summary \in BOOLEAN /\ d.summary
    BY DEF EpisodeDocuments, ValidEpisode
  <1>2. (d.summary /\ target # "tombstoned") = b
    BY <1>1, Zenon
  <1>3. Transitioned(e, target, at) = f
    BY <1>2, Zenon DEF Transitioned, With
  <1>4. /\ f \in EpisodeDocuments /\ f.state = target /\ f.summary = b
        /\ f.keepUntil = d.keepUntil /\ f.parents = d.parents
        /\ f.events = d.events /\ f.evidence = d.evidence
        /\ f.environments = d.environments
    BY WithType
  <1> HIDE DEF f
  <1>5. ValidEpisode(f)
    BY <1>4 DEF ValidEpisode
  <1>6. QED
    BY <1>3, <1>4, <1>5, Zenon DEF f

\* What a transition does to the tables.
LEMMA Moved ==
  ASSUME EpisodeTypes, NEW e \in EpisodeIds, NEW target \in MemoryStates,
         NEW at \in Times, TransitionEpisode(e, target, at)
  PROVE  /\ episodes[e] \in EpisodeDocuments /\ ValidEpisode(episodes[e])
         /\ episodes'[e] = Transitioned(e, target, at)
         /\ \A f \in EpisodeIds : f # e => episodes'[f] = episodes[f]
         /\ \A f \in EpisodeIds : f # e => transitions'[f] = transitions[f]
         /\ transitions'[e] = Append(transitions[e],
              [from |-> episodes[e].state, to |-> target, at |-> at])
         /\ UNCHANGED <<storeVars, records>>
  BY DEF TransitionEpisode, EpisodeTypes, Stored

\* The document that is stored of an episode differs from one that was in its
\* state and its summary only.
AlikeOf(d, e) ==
  /\ episodes[e] \in EpisodeDocuments
  /\ \E s \in MemoryStates, b \in BOOLEAN : episodes[e] = With(d, s, b)

LEMMA AlikeToItself ==
  ASSUME NEW e \in EpisodeIds, episodes[e] \in EpisodeDocuments
  PROVE  AlikeOf(episodes[e], e)
  <1>1. /\ episodes[e].state \in MemoryStates /\ episodes[e].summary \in BOOLEAN
        /\ episodes[e] = With(episodes[e], episodes[e].state, episodes[e].summary)
    BY WithType DEF EpisodeDocuments
  <1>2. QED
    BY <1>1 DEF AlikeOf

\* Whatever happens, what is stored stays stored, an episode up to its state and
\* summary, and the attempt tables move as StoreNext lets them.
LEMMA EpisodeStays ==
  ASSUME EpisodeTypes, TablesStay \/ EpisodeComes \/ RecordComes \/ EpisodeMoves,
         NEW d \in EpisodeDocuments, NEW e \in EpisodeIds, AlikeOf(d, e)
  PROVE  AlikeOf(d, e)'
  <1>1. episodes[e] \in EpisodeDocuments /\ episodes[e] # None
    BY EpisodeAssumptions DEF AlikeOf
  <1>2. CASE episodes'[e] = episodes[e]
    BY <1>2 DEF AlikeOf
  <1>3. ASSUME NEW f \in EpisodeIds, NEW n \in EpisodeDocuments, EpisodeEnters(f, n)
        PROVE  episodes'[e] = episodes[e]
    BY <1>1, <1>3 DEF EpisodeEnters, EpisodeTypes
  <1>4. ASSUME NEW target \in MemoryStates, NEW at \in Times,
               TransitionEpisode(e, target, at)
        PROVE  AlikeOf(d, e)'
    <2> DEFINE b == target # "tombstoned"
    <2>1. b \in BOOLEAN /\ (b <=> target # "tombstoned")
      OBVIOUS
    <2> HIDE DEF b
    <2>2. /\ episodes'[e] = With(episodes[e], target, b)
          /\ episodes'[e] \in EpisodeDocuments
      <3>1. /\ episodes'[e] = Transitioned(e, target, at) /\ ValidEpisode(episodes[e])
            /\ target # episodes[e].state /\ episodes[e].state # "tombstoned"
        BY <1>1, <1>4, Moved DEF TransitionEpisode, TransitionAllowed, AllowedMoves,
                                 EpisodeDocuments
      <3>2. QED
        <4>1. /\ Transitioned(e, target, at) = With(episodes[e], target, b)
              /\ Transitioned(e, target, at) \in EpisodeDocuments
          BY <1>1, <2>1, <3>1, TransitionedType
        <4>2. QED
          BY <3>1, <4>1, Zenon
    <2>3. PICK s \in MemoryStates, c \in BOOLEAN :
                 episodes[e] = With(d, s, c)
      BY DEF AlikeOf
    <2>4. episodes'[e] = With(d, target, b)
      BY <2>1, <2>2, <2>3, WithType
    <2>5. QED
      BY <2>1, <2>2, <2>4 DEF AlikeOf
  <1>5. ASSUME NEW f \in EpisodeIds, f # e, NEW target \in MemoryStates,
               NEW at \in Times, TransitionEpisode(f, target, at)
        PROVE  episodes'[e] = episodes[e]
    BY <1>5, Moved
  <1>6. CASE TablesStay \/ RecordComes
    BY <1>2, <1>6 DEF TablesStay, RecordComes, RecordEnters, episodeVars
  <1>7. CASE EpisodeComes
    BY <1>2, <1>3, <1>7 DEF EpisodeComes
  <1>8. CASE EpisodeMoves
    BY <1>2, <1>4, <1>5, <1>8 DEF EpisodeMoves
  <1>9. QED
    BY <1>6, <1>7, <1>8

LEMMA RecordStays ==
  ASSUME EpisodeTypes, TablesStay \/ EpisodeComes \/ RecordComes \/ EpisodeMoves,
         NEW t \in RecordTables, NEW id \in RecordIds, records[t][id] # None
  PROVE  records'[t][id] = records[t][id]
  <1>1. ASSUME NEW u \in RecordTables, NEW k \in RecordIds, NEW d, RecordEnters(u, k, d)
        PROVE  records'[t][id] = records[t][id]
    <2>1. records' = [records EXCEPT ![u][k] = d] /\ records[u][k] = None
      BY <1>1 DEF RecordEnters
    <2>2. u # t \/ k # id
      BY <2>1
    <2>3. QED
      BY <2>1, <2>2 DEF EpisodeTypes
  <1>2. CASE RecordComes
    BY <1>1, <1>2 DEF RecordComes
  <1>3. CASE records' = records
    BY <1>3
  <1>4. QED
    BY <1>2, <1>3 DEF TablesStay, EpisodeComes, EpisodeEnters, EpisodeMoves,
                      TransitionEpisode, episodeVars

\* The attempt tables move as StoreNext lets them.
LEMMA AttemptsStay ==
  ASSUME TablesStay \/ EpisodeComes \/ RecordComes \/ EpisodeMoves
  PROVE  [StoreNext]_storeVars
  BY DEF TablesStay, EpisodeComes, EpisodeEnters, RecordComes, RecordEnters,
         EpisodeMoves, TransitionEpisode

LEMMA StoredStays ==
  ASSUME EpisodeTypes, TablesStay \/ EpisodeComes \/ RecordComes \/ EpisodeMoves,
         NEW e \in Stored
  PROVE  /\ e \in Stored' /\ episodes[e] \in EpisodeDocuments
         /\ AlikeOf(episodes[e], e)
         /\ \E s \in MemoryStates, b \in BOOLEAN :
              episodes'[e] = With(episodes[e], s, b)
  <1>1. PICK d \in EpisodeDocuments : d = episodes[e]
    BY DEF Stored, EpisodeTypes
  <1>2. e \in EpisodeIds /\ AlikeOf(d, e)
    BY <1>1, AlikeToItself DEF Stored
  <1>3. AlikeOf(d, e)'
    BY <1>2, EpisodeStays
  <1>4. QED
    BY <1>1, <1>2, <1>3, EpisodeAssumptions DEF AlikeOf, Stored

LEMMA ParentsStay ==
  ASSUME EpisodeTypes, TablesStay \/ EpisodeComes \/ RecordComes \/ EpisodeMoves,
         NEW ids \in SUBSET EpisodeIds, EpisodesExist(ids)
  PROVE  EpisodesExist(ids)'
  BY StoredStays DEF EpisodesExist, Stored

-----------------------------------------------------------------------------
(* Provenance.                                                             *)

LEMMA ProvenanceIsGrounded ==
  ProvenanceHolds <=> \A e \in Stored : Grounded(episodes[e])
  BY DEF ProvenanceHolds, Grounded

LEMMA ProvenanceStep ==
  ASSUME AttemptsInv, EpisodeTypes, ProvenanceHolds,
         TablesStay \/ EpisodeComes \/ RecordComes \/ EpisodeMoves
  PROVE  ProvenanceHolds'
  <1>1. ASSUME NEW e \in Stored
        PROVE  Grounded(episodes[e])'
    <2>1. PICK d \in EpisodeDocuments : d = episodes[e]
      BY StoredStays
    <2>2. ValidEpisode(d) /\ Grounded(d)
      BY <2>1, ProvenanceIsGrounded DEF EpisodeTypes
    <2>3. Grounded(d)'
      BY <2>2, AttemptsStay, GroundedStays
    <2>4. PICK s \in MemoryStates, b \in BOOLEAN : episodes'[e] = With(d, s, b)
      BY <2>1, StoredStays
    <2>5. Grounded(With(d, s, b))'
      BY <2>3, GroundedAlike
    <2>6. QED
      BY <2>4, <2>5 DEF Grounded, SourcesExist, ReportIsCited
  <1>2. ASSUME NEW e \in Stored', e \notin Stored
        PROVE  Grounded(episodes[e])'
    <2>1. e \in EpisodeIds /\ episodes[e] = None /\ episodes'[e] # None
      BY <1>2 DEF Stored
    <2>2. EpisodeComes
      BY <2>1, Moved, EpisodeAssumptions
         DEF TablesStay, RecordComes, RecordEnters, EpisodeMoves, episodeVars
    <2>3. PICK f \in EpisodeIds, d \in EpisodeDocuments : EpisodeEnters(f, d)
      BY <2>2 DEF EpisodeComes
    <2>4. e = f /\ episodes'[e] = d
      BY <2>1, <2>3 DEF EpisodeEnters, EpisodeTypes
    <2>5. Grounded(d)'
      BY <2>3, GroundedStays DEF EpisodeEnters
    <2>6. QED
      BY <2>4, <2>5 DEF Grounded, SourcesExist, ReportIsCited
  <1>3. \A e \in Stored' : Grounded(episodes[e])'
    BY <1>1, <1>2
  <1>4. QED
    BY <1>3 DEF ProvenanceHolds, Grounded

\* What an insert was cleared for stays so.
LEMMA ClearedStays ==
  ASSUME AttemptsInv, EpisodeTypes,
         TablesStay \/ EpisodeComes \/ RecordComes \/ EpisodeMoves,
         NEW q \in Requests, Cleared(q)
  PROVE  Cleared(q)'
  <1>1. IsRequest(q)
    BY RequestTables
  <1>2. CASE q.table = "episodes"
    <2>1. q.document \in EpisodeDocuments /\ ValidEpisode(q.document)
      BY <1>1, <1>2 DEF IsRequest
    <2>2. Grounded(q.document)'
      BY <1>2, <2>1, AttemptsStay, GroundedStays DEF Cleared
    <2>3. QED
      BY <1>2, <2>2 DEF Cleared
  <1>3. CASE q.table = "artifact_relations"
    <2>1. q.document.artifacts \in SUBSET EpisodeIds
      BY <1>1, <1>3 DEF IsRequest, Relations
    <2>2. EpisodesExist(q.document.artifacts)'
      BY <1>3, <2>1, ParentsStay DEF Cleared
    <2>3. QED
      BY <1>3, <2>2 DEF Cleared
  <1>4. CASE q.table = "contradictions"
    <2>1. /\ q.document.artifacts \in SUBSET EpisodeIds
          /\ q.document.supersedes \in RecordIds \cup {None}
      BY <1>1, <1>4 DEF IsRequest, Contradictions
    <2>2. EpisodesExist(q.document.artifacts)'
      BY <1>4, <2>1, ParentsStay DEF Cleared, ContradictionAccepted
    <2>3. ASSUME q.document.supersedes # None
          PROVE  records'["contradictions"][q.document.supersedes] =
                   records["contradictions"][q.document.supersedes]
      BY <1>4, <2>1, <2>3, RecordStays DEF Cleared, ContradictionAccepted, RecordTables
    <2>4. ContradictionAccepted(q.document)'
      BY <1>4, <2>2, <2>3 DEF Cleared, ContradictionAccepted
    <2>5. QED
      BY <1>4, <2>4 DEF Cleared
  <1>5. CASE q.table \notin {"episodes", "artifact_relations", "contradictions"}
    BY <1>5 DEF Cleared
  <1>6. QED
    BY <1>2, <1>3, <1>4, <1>5

-----------------------------------------------------------------------------
(* Types.                                                                  *)

\* What a step does to the call of one author.
CallMoves(c, q) ==
  /\ calls'[c].pc \in Points \ {"idle"} /\ calls'[c].request = q
  /\ calls'[c].pc = "insert" => UNCHANGED <<storeVars, episodeVars>> /\ Cleared(q)
  /\ calls'[c].pc = "done" =>
       \/ UNCHANGED <<storeVars, episodeVars>> /\ Existing(q) # None /\ Identical(q)
       \/ Cleared(q) /\ ParentsExist(q) /\ Existing(q) = None /\ Row(q)

LEMMA LookMoves ==
  ASSUME EpisodeTypes, NEW c \in Authors, NEW q \in Requests, Look(c, q)
  PROVE  /\ calls' \in [Authors -> [pc : Points, request : Requests \cup {None}]]
         /\ CallMoves(c, q)
         /\ \A b \in Authors : b # c => calls'[b] = calls[b]
  <1> DEFINE pc == CASE ~Refusable(q) -> "refused"
                     [] Refusable(q) /\ Existing(q) # None ->
                          IF Identical(q) THEN "done" ELSE "refused"
                     [] OTHER -> IF Accepted(q) THEN "insert" ELSE "refused"
  <1>1. /\ pc \in Points \ {"idle"}
        /\ pc = "insert" => Refusable(q) /\ Accepted(q)
        /\ pc = "done" => Existing(q) # None /\ Identical(q)
    BY Zenon DEF Points
  <1>2. CallIs(c, pc, q) /\ UNCHANGED <<storeVars, episodeVars>>
    BY DEF Look
  <1> HIDE DEF pc
  <1>3. /\ calls' \in [Authors -> [pc : Points, request : Requests \cup {None}]]
        /\ calls'[c].pc = pc /\ calls'[c].request = q
        /\ \A b \in Authors : b # c => calls'[b] = calls[b]
    BY <1>1, <1>2, CallBecomes DEF EpisodeTypes
  <1>4. pc = "insert" => Cleared(q)
    BY <1>1 DEF Refusable, Accepted, EpisodeAccepted, AttemptFits, Cleared, Grounded
  <1>5. QED
    BY <1>1, <1>2, <1>3, <1>4 DEF CallMoves

LEMMA InsertMoves ==
  ASSUME EpisodeTypes, InsertsAreCleared, NEW c \in Authors, Insert(c)
  PROVE  /\ calls' \in [Authors -> [pc : Points, request : Requests \cup {None}]]
         /\ calls[c].request \in Requests /\ CallMoves(c, calls[c].request)
         /\ \A b \in Authors : b # c => calls'[b] = calls[b]
  <1> DEFINE q == calls[c].request
  <1>1. q \in Requests /\ Cleared(q)
    BY DEF EpisodeTypes, InsertsAreCleared, Insert
  <1>2. \/ CallIs(c, "refused", q) \/ CallIs(c, "raised", q)
        \/ /\ ParentsExist(q) /\ Existing(q) = None
           /\ CallIs(c, "done", q) /\ Row(q)
    BY DEF Insert
  <1> HIDE DEF q
  <1>3. ASSUME NEW pc \in {"refused", "raised"}, CallIs(c, pc, q)
        PROVE  /\ calls' \in [Authors -> [pc : Points, request : Requests \cup {None}]]
               /\ CallMoves(c, q)
               /\ \A b \in Authors : b # c => calls'[b] = calls[b]
    <2>1. pc \in Points /\ pc # "idle" /\ pc # "insert" /\ pc # "done"
      BY <1>3 DEF Points
    <2>2. /\ calls' \in [Authors -> [pc : Points, request : Requests \cup {None}]]
          /\ calls'[c].pc = pc /\ calls'[c].request = q
          /\ \A b \in Authors : b # c => calls'[b] = calls[b]
      BY <1>1, <1>3, <2>1, CallBecomes DEF EpisodeTypes
    <2>3. QED
      BY <2>1, <2>2 DEF CallMoves
  <1>4. ASSUME ParentsExist(q), Existing(q) = None, CallIs(c, "done", q), Row(q)
        PROVE  /\ calls' \in [Authors -> [pc : Points, request : Requests \cup {None}]]
               /\ CallMoves(c, q)
               /\ \A b \in Authors : b # c => calls'[b] = calls[b]
    <2>1. "done" \in Points /\ "done" # "idle" /\ "done" # "insert"
      BY DEF Points
    <2>2. /\ calls' \in [Authors -> [pc : Points, request : Requests \cup {None}]]
          /\ calls'[c].pc = "done" /\ calls'[c].request = q
          /\ \A b \in Authors : b # c => calls'[b] = calls[b]
      BY <1>1, <1>4, <2>1, CallBecomes DEF EpisodeTypes
    <2>3. QED
      BY <1>1, <1>4, <2>1, <2>2 DEF CallMoves
  <1>5. QED
    BY <1>1, <1>2, <1>3, <1>4 DEF q

LEMMA CallCases ==
  ASSUME EpisodeTypes, InsertsAreCleared, [EpisodeNext]_allVars
  PROVE  /\ calls' \in [Authors -> [pc : Points, request : Requests \cup {None}]]
         /\ \A c \in Authors :
              calls'[c] = calls[c] \/ \E q \in Requests : CallMoves(c, q)
  <1>1. CASE calls' = calls
    BY <1>1 DEF EpisodeTypes
  <1>2. CASE \E c \in Authors, q \in Requests : Look(c, q)
    BY <1>2, LookMoves
  <1>3. CASE \E c \in Authors : Insert(c)
    BY <1>3, InsertMoves
  <1>4. QED
    BY <1>1, <1>2, <1>3 DEF EpisodeNext, AttemptsMove, TransitionEpisode, allVars

LEMMA TypesStep ==
  ASSUME EpisodeTypes, InsertsAreCleared, [EpisodeNext]_allVars
  PROVE  EpisodeTypes'
  <1>1. /\ calls' \in [Authors -> [pc : Points, request : Requests \cup {None}]]
        /\ \A c \in Authors : calls'[c].pc # "idle" => calls'[c].request \in Requests
    BY CallCases DEF EpisodeTypes, CallMoves
  <1>2. CASE TablesStay
    BY <1>1, <1>2 DEF EpisodeTypes, TablesStay, episodeVars, Stored
  <1>3. CASE EpisodeComes
    <2>1. PICK e \in EpisodeIds, d \in EpisodeDocuments : EpisodeEnters(e, d)
      BY <1>3 DEF EpisodeComes
    <2>2. /\ episodes' = [episodes EXCEPT ![e] = d] /\ ValidEpisode(d)
          /\ transitions' = transitions /\ records' = records
      BY <2>1 DEF EpisodeEnters
    <2>3. /\ episodes' \in [EpisodeIds -> EpisodeDocuments \cup {None}]
          /\ \A f \in Stored' : ValidEpisode(episodes'[f])
      BY <2>2 DEF EpisodeTypes, Stored
    <2>4. QED
      BY <1>1, <2>2, <2>3 DEF EpisodeTypes
  <1>4. CASE RecordComes
    <2>1. PICK t \in RecordTables, id \in RecordIds, d \in {q.document : q \in Requests} :
                 RecordEnters(t, id, d)
      BY <1>4 DEF RecordComes
    <2>2. /\ records' = [records EXCEPT ![t][id] = d] /\ IsRequest(Filed(t, id, d))
          /\ episodes' = episodes /\ transitions' = transitions
      BY <2>1 DEF RecordEnters
    <2>3. /\ records' \in [RecordTables ->
                            [RecordIds -> {q.document : q \in Requests} \cup {None}]]
          /\ \A u \in RecordTables, k \in RecordIds :
               \/ records'[u][k] = records[u][k]
               \/ u = t /\ k = id /\ records'[u][k] = d
      <3> DEFINE D == {q.document : q \in Requests} \cup {None}
      <3>1. d \in D /\ records \in [RecordTables -> [RecordIds -> D]]
        BY DEF EpisodeTypes
      <3> HIDE DEF D
      <3>2. records' \in [RecordTables -> [RecordIds -> D]]
        BY <2>2, <3>1
      <3>3. \A u \in RecordTables, k \in RecordIds :
              \/ records'[u][k] = records[u][k]
              \/ u = t /\ k = id /\ records'[u][k] = d
        BY <2>2, <3>1
      <3>4. QED
        BY <3>2, <3>3 DEF D
    <2>4. \A u \in RecordTables, k \in RecordIds :
            records'[u][k] # None => IsRequest(Filed(u, k, records'[u][k]))
      BY <2>2, <2>3 DEF EpisodeTypes
    <2>5. QED
      BY <1>1, <2>2, <2>3, <2>4 DEF EpisodeTypes, Stored
  <1>5. CASE EpisodeMoves
    <2>1. PICK e \in EpisodeIds, target \in MemoryStates, at \in Times :
                 TransitionEpisode(e, target, at)
      BY <1>5 DEF EpisodeMoves
    <2>2. PICK b \in BOOLEAN : b <=> target # "tombstoned"
      OBVIOUS
    <2>3. /\ episodes[e] \in EpisodeDocuments /\ ValidEpisode(episodes[e])
          /\ episodes'[e] = Transitioned(e, target, at)
          /\ target # episodes[e].state /\ episodes[e].state # "tombstoned"
      BY <2>1, Moved DEF TransitionEpisode, TransitionAllowed, AllowedMoves,
                         EpisodeDocuments
    <2>4. episodes'[e] \in EpisodeDocuments /\ ValidEpisode(episodes'[e])
      BY <2>2, <2>3, TransitionedType
    <2>5. /\ DOMAIN episodes' = EpisodeIds /\ records' = records
          /\ episodes' = [episodes EXCEPT ![e] = Transitioned(e, target, at)]
          /\ \A f \in EpisodeIds : f # e => episodes'[f] = episodes[f]
      BY <2>1, Moved DEF TransitionEpisode, EpisodeTypes
    <2>6. /\ episodes' \in [EpisodeIds -> EpisodeDocuments \cup {None}]
          /\ \A f \in Stored' : ValidEpisode(episodes'[f])
      BY <2>3, <2>4, <2>5 DEF EpisodeTypes, Stored
    <2>7. transitions' \in [EpisodeIds -> Seq(EpisodeTransitions)]
      <3>1. [from |-> episodes[e].state, to |-> target, at |-> at] \in EpisodeTransitions
        BY <2>3 DEF EpisodeTransitions, EpisodeDocuments
      <3>2. QED
        BY <2>1, <3>1 DEF TransitionEpisode, EpisodeTypes
    <2>8. QED
      BY <1>1, <2>5, <2>6, <2>7 DEF EpisodeTypes
  <1>6. QED
    BY <1>2, <1>3, <1>4, <1>5, TableCases

LEMMA InsertsStayCleared ==
  ASSUME AttemptsInv, EpisodeTypes, InsertsAreCleared, [EpisodeNext]_allVars
  PROVE  InsertsAreCleared'
  <1>1. ASSUME NEW c \in Authors, calls'[c].pc = "insert"
        PROVE  Cleared(calls[c].request)'
    <2>1. CASE calls'[c] = calls[c]
      <3>1. PICK q \in Requests : q = calls[c].request
        BY <1>1, <2>1 DEF EpisodeTypes
      <3>2. Cleared(q)
        BY <1>1, <2>1, <3>1 DEF InsertsAreCleared
      <3>3. Cleared(q)'
        BY <3>2, ClearedStays, TableCases
      <3>4. calls'[c].request = q
        BY <2>1, <3>1
      <3>5. QED
        BY <3>3, <3>4 DEF Cleared, Grounded, SourcesExist, ReportIsCited,
                          EpisodesExist, ContradictionAccepted
    <2>2. CASE \E q \in Requests : CallMoves(c, q)
      <3>1. PICK q \in Requests : CallMoves(c, q)
        BY <2>2
      <3>2. Cleared(q) /\ UNCHANGED <<storeVars, episodeVars>> /\ calls'[c].request = q
        BY <1>1, <3>1 DEF CallMoves
      <3>3. QED
        BY <3>2 DEF storeVars, episodeVars, Cleared, Grounded, SourcesExist,
                    ReportIsCited, EpisodesExist, ContradictionAccepted
    <2>3. QED
      BY <2>1, <2>2, CallCases
  <1>2. QED
    BY <1>1 DEF InsertsAreCleared

-----------------------------------------------------------------------------
(* Lineage and records.                                                    *)

\* A new episode has no child yet: an ancestor of itself would have had a
\* parent nobody stored.
LEMMA LineageStep ==
  ASSUME EpisodeTypes, LineageIsGrounded,
         TablesStay \/ EpisodeComes \/ RecordComes \/ EpisodeMoves
  PROVE  LineageIsGrounded'
  <1>1. ASSUME Stored' = Stored,
               \A e \in Stored : episodes'[e].parents = episodes[e].parents
        PROVE  LineageIsGrounded'
    BY <1>1 DEF LineageIsGrounded
  <1>2. CASE UNCHANGED episodes
    BY <1>1, <1>2 DEF Stored
  <1>3. CASE EpisodeMoves
    <2>1. PICK e \in EpisodeIds, target \in MemoryStates, at \in Times :
                 TransitionEpisode(e, target, at)
      BY <1>3 DEF EpisodeMoves
    <2>2. PICK b \in BOOLEAN : b <=> target # "tombstoned"
      OBVIOUS
    <2>3. /\ episodes[e] \in EpisodeDocuments /\ ValidEpisode(episodes[e])
          /\ episodes'[e] = Transitioned(e, target, at)
          /\ target # episodes[e].state /\ episodes[e].state # "tombstoned"
          /\ \A f \in EpisodeIds : f # e => episodes'[f] = episodes[f]
      BY <2>1, Moved DEF TransitionEpisode, TransitionAllowed, AllowedMoves,
                         EpisodeDocuments
    <2>4. episodes'[e] # None /\ episodes'[e].parents = episodes[e].parents
      BY <2>2, <2>3, TransitionedType, EpisodeAssumptions
    <2>5. episodes[e] # None
      BY <2>3, EpisodeAssumptions
    <2>6. QED
      BY <1>1, <2>3, <2>4, <2>5 DEF Stored
  <1>4. CASE EpisodeComes
    <2>1. PICK e \in EpisodeIds, d \in EpisodeDocuments : EpisodeEnters(e, d)
      BY <1>4 DEF EpisodeComes
    <2>2. /\ e \notin Stored /\ Stored' = Stored \cup {e} /\ episodes'[e] = d
          /\ \A f \in Stored : episodes'[f] = episodes[f]
      BY <2>1, EpisodeAssumptions DEF EpisodeEnters, EpisodeTypes, Stored
    <2>3. d.parents \subseteq Stored
      BY <2>1 DEF EpisodeEnters, EpisodesExist, Stored, EpisodeDocuments
    <2>4. \A f \in Stored' : episodes'[f].parents \subseteq Stored
      BY <2>2, <2>3 DEF LineageIsGrounded
    <2>5. ASSUME NEW S \in SUBSET Stored', S # {}
          PROVE  \E f \in S : episodes'[f].parents \cap S = {}
      <3>1. CASE S = {e}
        BY <2>2, <2>4, <3>1
      <3>2. CASE S # {e}
        <4>1. S \ {e} \in (SUBSET Stored) \ {{}}
          BY <2>2, <2>5, <3>2
        <4>2. PICK f \in S \ {e} : episodes[f].parents \cap (S \ {e}) = {}
          BY <4>1 DEF LineageIsGrounded
        <4>3. f \in Stored /\ episodes'[f] = episodes[f]
          BY <2>2, <4>1
        <4>4. e \notin episodes'[f].parents
          BY <2>2, <2>4, <4>3
        <4>5. QED
          BY <4>2, <4>3, <4>4
      <3>3. QED
        BY <3>1, <3>2
    <2>6. QED
      BY <2>2, <2>4, <2>5 DEF LineageIsGrounded
  <1>5. QED
    BY <1>2, <1>3, <1>4 DEF TablesStay, RecordComes, RecordEnters, episodeVars

\* A closed contradiction, or an open one, at one identifier.
ContradictionIsGrounded(id) ==
  LET d == records["contradictions"][id] IN
    d # None =>
      /\ d.artifacts \subseteq Stored
      /\ d.status # "open" =>
           /\ records["contradictions"][d.supersedes] # None
           /\ records["contradictions"][d.supersedes].status = "open"
           /\ records["contradictions"][d.supersedes].artifacts = d.artifacts

RelationIsGrounded(id) ==
  records["artifact_relations"][id] # None =>
    records["artifact_relations"][id].artifacts \subseteq Stored

LEMMA RecordsById ==
  RecordsAreGrounded <=>
    \A id \in RecordIds : ContradictionIsGrounded(id) /\ RelationIsGrounded(id)
  BY DEF RecordsAreGrounded, ContradictionIsGrounded, RelationIsGrounded

\* The fields of a record that is stored.
LEMMA RecordFields ==
  ASSUME EpisodeTypes, NEW id \in RecordIds
  PROVE  /\ records["contradictions"][id] # None =>
              /\ records["contradictions"][id] \in Contradictions
              /\ ValidContradiction(records["contradictions"][id])
         /\ records["artifact_relations"][id] # None =>
              records["artifact_relations"][id] \in Relations
  BY DEF EpisodeTypes, IsRequest, Filed, RecordTables

LEMMA RecordsStep ==
  ASSUME EpisodeTypes, RecordsAreGrounded,
         TablesStay \/ EpisodeComes \/ RecordComes \/ EpisodeMoves
  PROVE  RecordsAreGrounded'
  <1>1. Stored \subseteq Stored'
    BY StoredStays
  <1>2. "contradictions" \in RecordTables /\ "artifact_relations" \in RecordTables
    BY DEF RecordTables
  <1>3. ASSUME NEW id \in RecordIds, records'["contradictions"][id] # None
        PROVE  ContradictionIsGrounded(id)'
    <2>1. PICK d : d = records'["contradictions"][id]
      OBVIOUS
    <2>2. CASE records["contradictions"][id] # None
      <3>1. d = records["contradictions"][id]
        BY <1>2, <2>1, <2>2, RecordStays
      <3>2. /\ d.artifacts \subseteq Stored
            /\ d.status # "open" =>
                 /\ d.supersedes \in RecordIds
                 /\ records["contradictions"][d.supersedes] # None
                 /\ records["contradictions"][d.supersedes].status = "open"
                 /\ records["contradictions"][d.supersedes].artifacts = d.artifacts
        <4>1. ContradictionIsGrounded(id)
          BY RecordsById
        <4>2. d \in Contradictions /\ ValidContradiction(d)
          BY <2>2, <3>1, RecordFields
        <4>3. d.status # "open" => d.supersedes \in RecordIds
          BY <4>2 DEF Contradictions, ValidContradiction
        <4>4. QED
          BY <2>2, <3>1, <4>1, <4>3 DEF ContradictionIsGrounded
      <3>3. d.status # "open" =>
              records'["contradictions"][d.supersedes] =
                records["contradictions"][d.supersedes]
        BY <1>2, <3>2, RecordStays
      <3>4. QED
        BY <1>1, <2>1, <3>2, <3>3 DEF ContradictionIsGrounded
    <2>3. CASE records["contradictions"][id] = None
      <3>1. RecordComes
        BY <1>3, <2>3 DEF TablesStay, EpisodeComes, EpisodeEnters, EpisodeMoves,
                          TransitionEpisode, episodeVars
      <3>2. PICK t \in RecordTables, k \in RecordIds,
                   n \in {q.document : q \in Requests} : RecordEnters(t, k, n)
        BY <3>1 DEF RecordComes
      <3>3. records' = [records EXCEPT ![t][k] = n]
        BY <3>2 DEF RecordEnters
      <3>4. t = "contradictions" /\ k = id /\ d = n
        BY <1>2, <1>3, <2>1, <2>3, <3>3 DEF EpisodeTypes
      <3>5. ContradictionAccepted(d) /\ IsRequest(Filed(t, id, d))
        BY <3>2, <3>4 DEF RecordEnters
      <3>6. d \in Contradictions /\ ValidContradiction(d)
        BY <3>4, <3>5 DEF IsRequest, Filed
      <3>7. /\ d.artifacts \subseteq Stored
            /\ d.status # "open" => d.supersedes \in RecordIds /\ d.supersedes # None
        BY <3>5, <3>6, EpisodeAssumptions
           DEF Contradictions, ValidContradiction, ContradictionAccepted,
               EpisodesExist, Stored
      <3>8. d.status # "open" =>
              /\ records["contradictions"][d.supersedes] # None
              /\ records["contradictions"][d.supersedes].status = "open"
              /\ records["contradictions"][d.supersedes].artifacts = d.artifacts
        BY <3>5, <3>7 DEF ContradictionAccepted
      <3>9. d.status # "open" =>
              records'["contradictions"][d.supersedes] =
                records["contradictions"][d.supersedes]
        BY <1>2, <3>7, <3>8, RecordStays
      <3>10. QED
        BY <1>1, <2>1, <3>7, <3>8, <3>9 DEF ContradictionIsGrounded
    <2>4. QED
      BY <2>2, <2>3
  <1>4. ASSUME NEW id \in RecordIds, records'["artifact_relations"][id] # None
        PROVE  RelationIsGrounded(id)'
    <2>1. CASE records["artifact_relations"][id] # None
      <3>1. records'["artifact_relations"][id] = records["artifact_relations"][id]
        BY <1>2, <2>1, RecordStays
      <3>2. RelationIsGrounded(id)
        BY RecordsById
      <3>3. QED
        BY <1>1, <2>1, <3>1, <3>2 DEF RelationIsGrounded
    <2>2. CASE records["artifact_relations"][id] = None
      <3>1. RecordComes
        BY <1>4, <2>2 DEF TablesStay, EpisodeComes, EpisodeEnters, EpisodeMoves,
                          TransitionEpisode, episodeVars
      <3>2. PICK t \in RecordTables, k \in RecordIds,
                   n \in {q.document : q \in Requests} : RecordEnters(t, k, n)
        BY <3>1 DEF RecordComes
      <3>3. records' = [records EXCEPT ![t][k] = n]
        BY <3>2 DEF RecordEnters
      <3>4. t = "artifact_relations" /\ k = id /\ n = records'["artifact_relations"][id]
        BY <1>2, <1>4, <2>2, <3>3 DEF EpisodeTypes
      <3>5. EpisodesExist(n.artifacts) /\ IsRequest(Filed(t, id, n))
        BY <3>2, <3>4 DEF RecordEnters
      <3>6. n.artifacts \subseteq Stored
        BY <3>4, <3>5 DEF IsRequest, Filed, Relations, EpisodesExist, Stored
      <3>7. QED
        BY <1>1, <3>4, <3>6 DEF RelationIsGrounded
    <2>3. QED
      BY <2>1, <2>2
  <1>5. \A id \in RecordIds : ContradictionIsGrounded(id)' /\ RelationIsGrounded(id)'
    BY <1>3, <1>4 DEF ContradictionIsGrounded, RelationIsGrounded
  <1>6. QED
    BY <1>5 DEF RecordsAreGrounded, ContradictionIsGrounded, RelationIsGrounded

-----------------------------------------------------------------------------
(* Histories.                                                              *)

\* A history tells the state of a document: HistoryTellsState of one episode.
Tells(history, d) ==
  /\ \A i \in DOMAIN history :
       /\ history[i].from = IF i = 1 THEN "active" ELSE history[i - 1].to
       /\ history[i].to \in AllowedMoves[history[i].from]
  /\ d.state = IF history = <<>> THEN "active" ELSE history[Len(history)].to
  /\ ~d.summary <=>
       \E i \in DOMAIN history :
         /\ history[i].to = "tombstoned"
         /\ history[i].at >= d.keepUntil

LEMMA HistoryByEpisode ==
  HistoryTellsState <=>
    \A e \in EpisodeIds :
      /\ episodes[e] = None => transitions[e] = <<>>
      /\ episodes[e] # None => Tells(transitions[e], episodes[e])
  BY DEF HistoryTellsState, Tells

\* A new episode has no history.
LEMMA NewTells ==
  ASSUME NEW d \in EpisodeDocuments, ValidEpisode(d), d.state = "active"
  PROVE  Tells(<<>>, d)
  <1>1. d.summary
    BY DEF ValidEpisode
  <1>2. QED
    BY <1>1 DEF Tells

\* A history with one more allowed move tells the state moved to.
LEMMA LongerTells ==
  ASSUME NEW h \in Seq(EpisodeTransitions), NEW d \in EpisodeDocuments,
         ValidEpisode(d), Tells(h, d),
         NEW target \in AllowedMoves[d.state], NEW at \in Times,
         target = "tombstoned" => at >= d.keepUntil,
         NEW f \in EpisodeDocuments, f.state = target, f.keepUntil = d.keepUntil,
         f.summary <=> target # "tombstoned"
  PROVE  Tells(Append(h, [from |-> d.state, to |-> target, at |-> at]), f)
  <1> DEFINE m == [from |-> d.state, to |-> target, at |-> at]
             g == Append(h, m)
  <1>1. /\ d.state \in MemoryStates /\ d.state # "tombstoned" /\ d.summary
        /\ target \in MemoryStates
    BY DEF EpisodeDocuments, ValidEpisode, AllowedMoves
  <1>2. m \in EpisodeTransitions /\ m.from = d.state /\ m.to = target /\ m.at = at
    BY <1>1 DEF EpisodeTransitions
  <1> HIDE DEF m
  <1>3. /\ Len(h) \in Nat /\ DOMAIN h = 1 .. Len(h) /\ DOMAIN g = 1 .. Len(h) + 1
        /\ Len(g) = Len(h) + 1 /\ g # <<>>
        /\ g[Len(h) + 1] = m /\ \A i \in DOMAIN h : g[i] = h[i]
    BY <1>2
  <1> HIDE DEF g
  <1>4. h = <<>> <=> Len(h) = 0
    OBVIOUS
  <1>5. ASSUME NEW i \in DOMAIN g
        PROVE  /\ g[i].from = IF i = 1 THEN "active" ELSE g[i - 1].to
               /\ g[i].to \in AllowedMoves[g[i].from]
    <2>1. CASE i \in DOMAIN h
      <3>1. g[i] = h[i] /\ (i # 1 => i - 1 \in DOMAIN h /\ g[i - 1] = h[i - 1])
        BY <1>3, <2>1
      <3>2. QED
        BY <2>1, <3>1 DEF Tells
    <2>2. CASE i = Len(h) + 1
      <3>1. g[i].from = d.state /\ g[i].to = target
        BY <1>2, <1>3, <2>2
      <3>2. d.state = IF h = <<>> THEN "active" ELSE h[Len(h)].to
        BY DEF Tells
      <3>3. i = 1 <=> h = <<>>
        BY <1>3, <1>4, <2>2
      <3>4. h # <<>> => i - 1 = Len(h) /\ g[i - 1] = h[Len(h)]
        BY <1>3, <1>4, <2>2
      <3>5. QED
        BY <3>1, <3>2, <3>3, <3>4
    <2>3. QED
      BY <1>3, <1>5, <2>1, <2>2
  <1>6. f.state = IF g = <<>> THEN "active" ELSE g[Len(g)].to
    BY <1>2, <1>3
  <1>7. ~\E i \in DOMAIN h : h[i].to = "tombstoned" /\ h[i].at >= d.keepUntil
    BY <1>1 DEF Tells
  <1>8. ASSUME ~f.summary
        PROVE  \E i \in DOMAIN g : g[i].to = "tombstoned" /\ g[i].at >= f.keepUntil
    <2>1. Len(h) + 1 \in DOMAIN g
      BY <1>3
    <2>2. target = "tombstoned" /\ at >= f.keepUntil
      BY <1>8
    <2>3. QED
      BY <1>2, <1>3, <2>1, <2>2
  <1>9. ASSUME NEW i \in DOMAIN g, g[i].to = "tombstoned", g[i].at >= f.keepUntil
        PROVE  ~f.summary
    <2>1. i \notin DOMAIN h
      BY <1>3, <1>7, <1>9
    <2>2. g[i] = m
      BY <1>3, <2>1
    <2>3. QED
      BY <1>2, <1>9, <2>2
  <1>10. Tells(g, f)
    BY <1>5, <1>6, <1>8, <1>9, Zenon DEF Tells
  <1>11. QED
    BY <1>10 DEF g, m

LEMMA HistoryStep ==
  ASSUME EpisodeTypes, HistoryTellsState,
         TablesStay \/ EpisodeComes \/ RecordComes \/ EpisodeMoves
  PROVE  HistoryTellsState'
  <1>1. CASE UNCHANGED <<episodes, transitions>>
    BY <1>1 DEF HistoryTellsState
  <1>2. CASE EpisodeComes
    <2>1. PICK e \in EpisodeIds, d \in EpisodeDocuments : EpisodeEnters(e, d)
      BY <1>2 DEF EpisodeComes
    <2>2. /\ episodes[e] = None /\ episodes'[e] = d /\ transitions' = transitions
          /\ \A f \in EpisodeIds : f # e => episodes'[f] = episodes[f]
      BY <2>1 DEF EpisodeEnters, EpisodeTypes
    <2>3. Tells(<<>>, d)
      BY <2>1, NewTells DEF EpisodeEnters
    <2>4. \A f \in EpisodeIds :
            /\ episodes'[f] = None => transitions'[f] = <<>>
            /\ episodes'[f] # None => Tells(transitions'[f], episodes'[f])
      BY <2>2, <2>3, HistoryByEpisode
    <2>5. QED
      BY <2>4 DEF HistoryTellsState, Tells
  <1>3. CASE EpisodeMoves
    <2>1. PICK e \in EpisodeIds, target \in MemoryStates, at \in Times :
                 TransitionEpisode(e, target, at)
      BY <1>3 DEF EpisodeMoves
    <2>2. PICK b \in BOOLEAN : b <=> target # "tombstoned"
      OBVIOUS
    <2>3. /\ episodes[e] \in EpisodeDocuments /\ ValidEpisode(episodes[e])
          /\ episodes'[e] = Transitioned(e, target, at)
          /\ \A f \in EpisodeIds :
               f # e => episodes'[f] = episodes[f] /\ transitions'[f] = transitions[f]
          /\ transitions'[e] = Append(transitions[e],
               [from |-> episodes[e].state, to |-> target, at |-> at])
          /\ target \in AllowedMoves[episodes[e].state]
          /\ target = "tombstoned" => at >= episodes[e].keepUntil
      BY <2>1, Moved DEF TransitionEpisode, TransitionAllowed
    <2>4. target # episodes[e].state /\ episodes[e].state # "tombstoned"
      BY <2>3 DEF AllowedMoves, EpisodeDocuments
    <2>5. /\ episodes'[e] \in EpisodeDocuments /\ episodes'[e].state = target
          /\ episodes'[e].summary = b /\ episodes'[e].keepUntil = episodes[e].keepUntil
      BY <2>2, <2>3, <2>4, TransitionedType
    <2>6. transitions[e] \in Seq(EpisodeTransitions) /\ Tells(transitions[e], episodes[e])
      BY <2>3, HistoryByEpisode, EpisodeAssumptions DEF EpisodeTypes
    <2>7. Tells(transitions'[e], episodes'[e])
      <3>1. episodes'[e].summary <=> target # "tombstoned"
        BY <2>2, <2>5, Zenon
      <3>2. QED
        BY <2>3, <2>5, <2>6, <3>1, LongerTells
    <2>8. \A f \in EpisodeIds :
            /\ episodes'[f] = None => transitions'[f] = <<>>
            /\ episodes'[f] # None => Tells(transitions'[f], episodes'[f])
      <3>1. episodes'[e] # None
        BY <2>5, EpisodeAssumptions
      <3>2. QED
        BY <2>3, <2>7, <3>1, HistoryByEpisode
    <2>9. QED
      BY <2>8 DEF HistoryTellsState, Tells
  <1>4. QED
    BY <1>1, <1>2, <1>3 DEF TablesStay, RecordComes, RecordEnters, episodeVars

-----------------------------------------------------------------------------
(* Answers.                                                                *)

\* What a request asked for is stored, an episode up to its later transitions,
\* evidence up to the attempt it is linked to.
Found(q) ==
  /\ q.table = "evidence" => evidence[q.id] # None
  /\ q.table \in RecordTables => records[q.table][q.id] = q.document
  /\ q.table = "episodes" => AlikeOf(q.document, q.id)

AnswersAreFound ==
  \A c \in Authors : calls[c].pc = "done" => Found(calls[c].request)

LEMMA FoundIsStored ==
  ASSUME EpisodeTypes, AnswersAreFound
  PROVE  AnsweredIsStored
  <1>1. ASSUME NEW c \in Authors, calls[c].pc = "done"
        PROVE  LET q == calls[c].request IN
                 /\ Existing(q) # None
                 /\ q.table \in RecordTables => Existing(q) = q.document
                 /\ q.table = "episodes" =>
                      Existing(q) = [q.document EXCEPT !.state = Existing(q).state,
                                                       !.summary = Existing(q).summary]
    <2>1. PICK q \in Requests : q = calls[c].request
      BY <1>1 DEF EpisodeTypes
    <2>2. Found(q)
      BY <1>1, <2>1 DEF AnswersAreFound
    <2>3. CASE q.table = "evidence"
      BY <2>1, <2>2, <2>3 DEF Found, Existing, RecordTables
    <2>4. CASE q.table \in RecordTables
      <3>1. q.table # "evidence" /\ q.table # "episodes"
        BY <2>4 DEF RecordTables
      <3>2. QED
        BY <2>1, <2>2, <2>4, <3>1, RequestTables DEF Found, Existing
    <2>5. CASE q.table = "episodes"
      <3>1. /\ Existing(q) = episodes[q.id] /\ Existing(q) # None
            /\ q.document \in EpisodeDocuments
        BY <2>2, <2>5, RequestTables, EpisodeAssumptions
           DEF Found, Existing, AlikeOf, RecordTables
      <3>2. PICK s \in MemoryStates, b \in BOOLEAN : Existing(q) = With(q.document, s, b)
        BY <2>2, <2>5, <3>1 DEF Found, AlikeOf
      <3>3. Existing(q).state = s /\ Existing(q).summary = b
        BY <3>1, <3>2, WithType
      <3>4. Existing(q) = [q.document EXCEPT !.state = Existing(q).state,
                                             !.summary = Existing(q).summary]
        BY <3>2, <3>3, Zenon DEF With
      <3>5. QED
        BY <2>1, <2>5, <3>1, <3>4 DEF RecordTables
    <2>6. QED
      BY <2>3, <2>4, <2>5, RequestTables
  <1>2. QED
    BY <1>1 DEF AnsweredIsStored

LEMMA FoundStays ==
  ASSUME AttemptsInv, EpisodeTypes,
         TablesStay \/ EpisodeComes \/ RecordComes \/ EpisodeMoves,
         NEW q \in Requests, Found(q)
  PROVE  Found(q)'
  <1>1. CASE q.table = "evidence"
    <2>1. q.id \in Runs /\ evidence[q.id] # None
      BY <1>1, RequestTables DEF Found, RecordTables
    <2>2. evidence'[q.id] = evidence[q.id]
      BY <2>1, AttemptsStay, RowsStay DEF AttemptsInv
    <2>3. QED
      BY <1>1, <2>1, <2>2 DEF Found, RecordTables
  <1>2. CASE q.table \in RecordTables
    <2>1. /\ q.id \in RecordIds /\ records[q.table][q.id] # None
          /\ q.table # "evidence" /\ q.table # "episodes"
      BY <1>2, RequestTables DEF Found, RecordTables
    <2>2. records'[q.table][q.id] = records[q.table][q.id]
      BY <1>2, <2>1, RecordStays
    <2>3. QED
      BY <1>2, <2>1, <2>2 DEF Found
  <1>3. CASE q.table = "episodes"
    <2>1. q.document \in EpisodeDocuments /\ q.id \in EpisodeIds
      BY <1>3, RequestTables DEF RecordTables
    <2>2. AlikeOf(q.document, q.id)'
      BY <1>3, <2>1, EpisodeStays DEF Found
    <2>3. QED
      BY <1>3, <2>2 DEF Found, RecordTables
  <1>4. QED
    BY <1>1, <1>2, <1>3, RequestTables

\* The call that is answered now found it, or has just inserted it.
LEMMA FoundNow ==
  ASSUME AttemptsInv, EpisodeTypes, NEW q \in Requests,
         \/ UNCHANGED <<storeVars, episodeVars>> /\ Existing(q) # None /\ Identical(q)
         \/ Cleared(q) /\ ParentsExist(q) /\ Existing(q) = None /\ Row(q)
  PROVE  Found(q)'
  <1>1. CASE UNCHANGED <<storeVars, episodeVars>> /\ Existing(q) # None /\ Identical(q)
    <2>1. CASE q.table = "evidence"
      BY <1>1, <2>1 DEF Existing, Found, RecordTables, storeVars
    <2>2. CASE q.table \in RecordTables
      <3>1. q.table # "evidence" /\ q.table # "episodes"
        BY <2>2 DEF RecordTables
      <3>2. QED
        BY <1>1, <2>2, <3>1 DEF Existing, Identical, Found, episodeVars
    <2>3. CASE q.table = "episodes"
      <3>1. /\ episodes[q.id] = q.document /\ q.id \in EpisodeIds
            /\ q.document \in EpisodeDocuments
        BY <1>1, <2>3, RequestTables DEF Existing, Identical, RecordTables
      <3>2. /\ q.document.state \in MemoryStates /\ q.document.summary \in BOOLEAN
            /\ q.document = With(q.document, q.document.state, q.document.summary)
        BY <3>1, WithType DEF EpisodeDocuments
      <3>3. episodes'[q.id] = q.document
        BY <1>1, <3>1 DEF episodeVars
      <3>4. AlikeOf(q.document, q.id)'
        BY <3>1, <3>2, <3>3 DEF AlikeOf
      <3>5. QED
        BY <2>3, <3>4 DEF Found, RecordTables
    <2>4. QED
      BY <2>1, <2>2, <2>3, RequestTables
  <1>2. CASE Cleared(q) /\ ParentsExist(q) /\ Existing(q) = None /\ Row(q)
    <2>1. CASE /\ q.table = "evidence"
               /\ evidence' = [evidence EXCEPT ![q.id] = q.document]
      <3>1. q.document # None /\ q.id \in Runs
        BY <2>1, RequestTables DEF RecordTables
      <3>2. evidence'[q.id] # None
        BY <2>1, <3>1 DEF AttemptsInv, StoreTypeOK
      <3>3. QED
        BY <2>1, <3>2 DEF Found, RecordTables
    <2>2. CASE q.table = "episodes" /\ EpisodeEnters(q.id, q.document)
      <3>1. q.id \in EpisodeIds /\ q.document \in EpisodeDocuments
        BY <2>2, RequestTables DEF RecordTables
      <3>2. episodes'[q.id] = q.document
        BY <2>2, <3>1 DEF EpisodeEnters, EpisodeTypes
      <3>3. /\ q.document.state \in MemoryStates /\ q.document.summary \in BOOLEAN
            /\ q.document = With(q.document, q.document.state, q.document.summary)
        BY <3>1, WithType DEF EpisodeDocuments
      <3>4. AlikeOf(q.document, q.id)'
        BY <3>1, <3>2, <3>3 DEF AlikeOf
      <3>5. QED
        BY <2>2, <3>4 DEF Found, RecordTables
    <2>3. CASE q.table \in RecordTables /\ RecordEnters(q.table, q.id, q.document)
      <3>1. /\ q.table # "evidence" /\ q.table # "episodes" /\ q.id \in RecordIds
            /\ records' = [records EXCEPT ![q.table][q.id] = q.document]
        BY <2>3, RequestTables DEF RecordTables, RecordEnters
      <3>2. records'[q.table][q.id] = q.document
        BY <2>3, <3>1 DEF EpisodeTypes
      <3>3. QED
        BY <3>1, <3>2 DEF Found
    <2>4. QED
      BY <1>2, <2>1, <2>2, <2>3, RowCasesOfInsert
  <1>3. QED
    BY <1>1, <1>2

LEMMA AnswersStay ==
  ASSUME AttemptsInv, EpisodeTypes, InsertsAreCleared, AnswersAreFound,
         [EpisodeNext]_allVars
  PROVE  AnswersAreFound'
  <1>1. ASSUME NEW c \in Authors, calls'[c].pc = "done"
        PROVE  \E q \in Requests : q = calls'[c].request /\ Found(q)'
    <2>1. CASE calls'[c] = calls[c]
      <3>1. PICK q \in Requests : q = calls[c].request
        BY <1>1, <2>1 DEF EpisodeTypes
      <3>2. Found(q)
        BY <1>1, <2>1, <3>1 DEF AnswersAreFound
      <3>3. Found(q)'
        BY <3>2, FoundStays, TableCases
      <3>4. QED
        BY <2>1, <3>1, <3>3
    <2>2. CASE \E q \in Requests : CallMoves(c, q)
      <3>1. PICK q \in Requests : CallMoves(c, q)
        BY <2>2
      <3>2. Found(q)'
        BY <1>1, <3>1, FoundNow DEF CallMoves
      <3>3. QED
        BY <3>1, <3>2 DEF CallMoves
    <2>3. QED
      BY <2>1, <2>2, CallCases
  <1>2. QED
    BY <1>1 DEF AnswersAreFound, Found, AlikeOf

-----------------------------------------------------------------------------
(* The inductive invariant, and what follows from it.                      *)

EpisodeInv ==
  /\ AttemptsInv /\ EpisodeTypes /\ InsertsAreCleared
  /\ ProvenanceHolds /\ LineageIsGrounded /\ RecordsAreGrounded
  /\ HistoryTellsState /\ AnswersAreFound

LEMMA EpisodeInvInit == EpisodeInit => EpisodeInv
  <1> SUFFICES ASSUME EpisodeInit PROVE EpisodeInv
    OBVIOUS
  <1>1. AttemptsInv
    BY AttemptsInit DEF EpisodeInit
  <1>2. Stored = {}
    BY DEF EpisodeInit, Stored
  <1>3. \A c \in Authors : calls[c].pc = "idle" /\ calls[c].request = None
    BY DEF EpisodeInit, Idle
  <1>4. calls \in [Authors -> [pc : Points, request : Requests \cup {None}]]
    BY DEF EpisodeInit, Idle, Points
  <1>5. /\ episodes = [e \in EpisodeIds |-> None]
        /\ transitions = [e \in EpisodeIds |-> <<>>]
        /\ records = [t \in RecordTables |-> [id \in RecordIds |-> None]]
    BY DEF EpisodeInit
  <1>6. EpisodeTypes
    BY <1>2, <1>3, <1>4, <1>5 DEF EpisodeTypes
  <1>7. InsertsAreCleared /\ AnswersAreFound
    BY <1>3 DEF InsertsAreCleared, AnswersAreFound
  <1>8. ProvenanceHolds /\ LineageIsGrounded
    BY <1>2 DEF ProvenanceHolds, LineageIsGrounded
  <1>9. RecordsAreGrounded
    BY <1>5 DEF RecordsAreGrounded, RecordTables
  <1>10. HistoryTellsState
    BY <1>5 DEF HistoryTellsState
  <1>11. QED
    BY <1>1, <1>6, <1>7, <1>8, <1>9, <1>10 DEF EpisodeInv

LEMMA EpisodeInvStep == EpisodeInv /\ [EpisodeNext]_allVars => EpisodeInv'
  <1> SUFFICES ASSUME EpisodeInv, [EpisodeNext]_allVars PROVE EpisodeInv'
    OBVIOUS
  <1> USE DEF EpisodeInv
  <1>1. TablesStay \/ EpisodeComes \/ RecordComes \/ EpisodeMoves
    BY TableCases
  <1>2. AttemptsInv'
    BY <1>1, AttemptsStay, AttemptsStep
  <1>3. EpisodeTypes' /\ InsertsAreCleared' /\ AnswersAreFound'
    BY TypesStep, InsertsStayCleared, AnswersStay
  <1>4. ProvenanceHolds' /\ LineageIsGrounded' /\ RecordsAreGrounded'
    BY <1>1, ProvenanceStep, LineageStep, RecordsStep
  <1>5. HistoryTellsState'
    BY <1>1, HistoryStep
  <1>6. QED
    BY <1>2, <1>3, <1>4, <1>5

LEMMA EpisodeInvHolds == EpisodeSpec => []EpisodeInv
  BY EpisodeInvInit, EpisodeInvStep, PTL DEF EpisodeSpec

\* Whatever happens to an attempt after an episode of it was created, the
\* episode keeps citing its events, evidence and report, and its task.
THEOREM ProvenanceStays == EpisodeSpec => []ProvenanceHolds
  <1>1. EpisodeInv => ProvenanceHolds
    BY DEF EpisodeInv
  <1>2. QED
    BY <1>1, EpisodeInvHolds, PTL

\* Everything stored is a valid document and refers only to what is stored; no
\* episode is its own ancestor.
THEOREM ReferencesStay == EpisodeSpec => []ReferencesHold
  <1>1. ASSUME EpisodeInv PROVE EpisodeTypeOK
    <2>1. \A e \in EpisodeIds : episodes[e] # None =>
             episodes[e] \in EpisodeDocuments /\ ValidEpisode(episodes[e])
      BY <1>1 DEF EpisodeInv, EpisodeTypes, Stored
    <2>2. \A c \in Authors :
            /\ calls[c].pc \in {"idle", "insert", "done", "refused", "raised"}
            /\ calls[c].request \in Requests \cup {None}
      BY <1>1 DEF EpisodeInv, EpisodeTypes, Points
    <2>3. QED
      BY <1>1, <2>1, <2>2 DEF EpisodeInv, AttemptsInv, EpisodeTypes, EpisodeTypeOK, Filed
  <1>2. EpisodeInv => ReferencesHold
    BY <1>1 DEF EpisodeInv, ReferencesHold
  <1>3. QED
    BY <1>2, EpisodeInvHolds, PTL

\* The audit records lead from "active" to the state of the row, and a summary
\* is gone only by a tombstone dated after the retention period.
THEOREM HistoriesTell == EpisodeSpec => []HistoryTellsState
  <1>1. EpisodeInv => HistoryTellsState
    BY DEF EpisodeInv
  <1>2. QED
    BY <1>1, EpisodeInvHolds, PTL

\* A call that was answered left, or found, what it asked to store, and it
\* stays.
THEOREM AnswersAreStored == EpisodeSpec => []AnsweredIsStored
  <1>1. EpisodeInv => AnsweredIsStored
    BY FoundIsStored DEF EpisodeInv
  <1>2. QED
    BY <1>1, EpisodeInvHolds, PTL

\* What may change of an episode in a step that moves it, or does not.
LEMMA EpisodeIsKept ==
  ASSUME EpisodeTypes, TablesStay \/ EpisodeComes \/ RecordComes \/ EpisodeMoves,
         NEW e \in Stored
  PROVE  /\ episodes'[e] = [episodes[e] EXCEPT !.state = episodes'[e].state,
                                               !.summary = episodes'[e].summary]
         /\ episodes'[e].summary => episodes[e].summary
         /\ episodes[e].state = "tombstoned" => episodes'[e] = episodes[e]
         /\ IsPrefixOf(transitions[e], transitions'[e])
         /\ episodes'[e] # episodes[e] <=>
              Len(transitions'[e]) = Len(transitions[e]) + 1
  <1> DEFINE d == episodes[e]
             f == episodes'[e]
  <1>1. /\ d \in EpisodeDocuments /\ d # None /\ e \in EpisodeIds
        /\ transitions[e] \in Seq(EpisodeTransitions) /\ ValidEpisode(d)
    BY EpisodeAssumptions DEF EpisodeTypes, Stored
  <1>2. f = [d EXCEPT !.state = f.state, !.summary = f.summary]
    <2>1. PICK s \in MemoryStates, b \in BOOLEAN : f = With(d, s, b)
      BY StoredStays
    <2> HIDE DEF d, f
    <2>2. f.state = s /\ f.summary = b
      BY <1>1, <2>1, WithType
    <2>3. QED
      BY <2>1, <2>2, Zenon DEF With
  <1>3. ASSUME f = d, transitions'[e] = transitions[e]
        PROVE  /\ f.summary => d.summary
               /\ d.state = "tombstoned" => f = d
               /\ IsPrefixOf(transitions[e], transitions'[e])
               /\ f # d <=> Len(transitions'[e]) = Len(transitions[e]) + 1
    BY <1>1, <1>3 DEF IsPrefixOf
  <1>4. ASSUME NEW target \in MemoryStates, NEW at \in Times,
               TransitionEpisode(e, target, at)
        PROVE  /\ f.summary => d.summary
               /\ d.state = "tombstoned" => f = d
               /\ IsPrefixOf(transitions[e], transitions'[e])
               /\ f # d <=> Len(transitions'[e]) = Len(transitions[e]) + 1
    <2>1. PICK b \in BOOLEAN : b <=> target # "tombstoned"
      OBVIOUS
    <2>2. /\ f = Transitioned(e, target, at)
          /\ target # d.state /\ d.state # "tombstoned"
      BY <1>1, <1>4, Moved DEF TransitionEpisode, TransitionAllowed, AllowedMoves,
                               EpisodeDocuments
    <2>3. f.state = target
      BY <1>1, <2>1, <2>2, TransitionedType
    <2>4. d.summary
      BY <1>1, <2>2 DEF ValidEpisode
    <2>5. PICK m \in EpisodeTransitions : transitions'[e] = Append(transitions[e], m)
      <3>1. [from |-> d.state, to |-> target, at |-> at] \in EpisodeTransitions
        BY <1>1 DEF EpisodeTransitions, EpisodeDocuments
      <3>2. transitions'[e] = Append(transitions[e],
                                     [from |-> d.state, to |-> target, at |-> at])
        BY <1>1, <1>4, Moved
      <3>3. QED
        BY <3>1, <3>2
    <2> HIDE DEF d, f
    <2>6. /\ IsPrefixOf(transitions[e], transitions'[e])
          /\ Len(transitions'[e]) = Len(transitions[e]) + 1
      BY <1>1, <2>5 DEF IsPrefixOf
    <2>7. QED
      BY <2>2, <2>3, <2>4, <2>6
  <1>5. CASE UNCHANGED <<episodes, transitions>>
    BY <1>2, <1>3, <1>5
  <1>6. ASSUME NEW g \in EpisodeIds, NEW n, EpisodeEnters(g, n)
        PROVE  f = d /\ transitions'[e] = transitions[e]
    BY <1>1, <1>6 DEF EpisodeEnters, EpisodeTypes
  <1>7. ASSUME NEW g \in EpisodeIds, g # e, NEW target \in MemoryStates, NEW at \in Times,
               TransitionEpisode(g, target, at)
        PROVE  f = d /\ transitions'[e] = transitions[e]
    BY <1>1, <1>7, Moved
  <1>8. CASE TablesStay \/ RecordComes
    BY <1>5, <1>8 DEF TablesStay, RecordComes, RecordEnters, episodeVars
  <1> HIDE DEF d, f
  <1>9. CASE EpisodeComes
    BY <1>2, <1>3, <1>6, <1>9 DEF EpisodeComes, d, f
  <1>10. CASE EpisodeMoves
    BY <1>2, <1>3, <1>4, <1>7, <1>10 DEF EpisodeMoves, d, f
  <1>11. QED
    BY <1>8, <1>9, <1>10

\* Records never change; of an episode nothing changes but its state and, once,
\* its summary, with exactly one audit record, and a tombstone is final.
THEOREM EpisodesStay == EpisodeSpec => EpisodesAreKept
  <1>1. EpisodeInv /\ [EpisodeNext]_allVars =>
          [/\ \A t \in RecordTables, id \in RecordIds :
                records[t][id] # None => records'[t][id] = records[t][id]
           /\ \A e \in Stored :
                /\ episodes'[e] = [episodes[e] EXCEPT !.state = episodes'[e].state,
                                                      !.summary = episodes'[e].summary]
                /\ episodes'[e].summary => episodes[e].summary
                /\ episodes[e].state = "tombstoned" => episodes'[e] = episodes[e]
                /\ IsPrefixOf(transitions[e], transitions'[e])
                /\ episodes'[e] # episodes[e] <=>
                     Len(transitions'[e]) = Len(transitions[e]) + 1
          ]_allVars
    BY TableCases, RecordStays, EpisodeIsKept DEF EpisodeInv
  <1>2. QED
    BY <1>1, EpisodeInvHolds, PTL DEF EpisodeSpec, EpisodesAreKept
=============================================================================
