------------------------- MODULE AttemptStore_proofs -------------------------
(***************************************************************************)
(* Proofs about AttemptStore, for all attempts, runs, traces, timestamps,  *)
(* events and outcomes, and about AttemptReader, for any number of readers *)
(* and whatever uses the store while they read.                            *)
(***************************************************************************)
EXTENDS AttemptReader, TLAPS

-----------------------------------------------------------------------------
(* What the helpers return.                                                *)

\* Redaction makes a plan of a plan, and leaves None alone.
LEMMA SanitizedType ==
  ASSUME NEW plan \in Plans \cup {None}
  PROVE  /\ Sanitized(plan) \in Plans \cup {None}
         /\ Sanitized(plan) # None => Sanitized(plan).text # "secret"
  BY DEF Sanitized, Plans

\* The record begin_attempt inserts is a record.
LEMMA OpenRecordType ==
  ASSUME NEW i \in Identities, NEW env \in Environments,
         NEW plan \in Plans \cup {None}
  PROVE  OpenRecord(i, env, plan) \in AttemptRecords
  BY DEF OpenRecord, AttemptRecords

\* The record a finalization would store is a record.
LEMMA CandidateType ==
  ASSUME NEW current \in AttemptRecords, NEW o \in Outcomes, NEW now \in Clock
  PROVE  /\ Candidate(current, o, now) \in AttemptRecords
         /\ Candidate(current, o, now).status = "finalized"
         /\ Candidate(current, o, now).identity = current.identity
         /\ Candidate(current, o, now).environment = current.environment
         /\ Candidate(current, o, now).plan =
              IF current.plan # None THEN current.plan ELSE Sanitized(o.plan)
  <1>1. Sanitized(o.plan) \in Plans \cup {None}
    BY SanitizedType DEF Outcomes
  <1>2. QED
    BY <1>1 DEF Candidate, AttemptRecords, Outcomes

\* The events the store appends itself are trace events.
LEMMA TerminalEventsType ==
  ASSUME NEW a \in Attempts, NEW events \in Seq(TraceEvents),
         NEW r \in AttemptRecords, EndsVerified(events)
  PROVE  /\ TerminalEvents(a, events, r) \in Seq(TraceEvents)
         /\ Len(TerminalEvents(a, events, r)) = 2
  <1>1. events[Len(events)] \in TraceEvents
    BY DEF EndsVerified, TransitionsIn
  <1>2. events[Len(events)].sequence \in Nat
    BY <1>1 DEF TraceEvents
  <1>3. \A n \in Nat, s, t \in TaskStates :
          TransitionEvent(a, r.identity, Store, n, s, t) \in TraceEvents
    BY DEF TransitionEvent, TraceEvents, EventTypes, AttemptRecords
  <1>4. /\ TransitionEvent(a, r.identity, Store, events[Len(events)].sequence + 1,
                           "verified", "recorded") \in TraceEvents
        /\ TransitionEvent(a, r.identity, Store, events[Len(events)].sequence + 1 + 1,
                           "recorded", "completed") \in TraceEvents
    BY <1>2, <1>3 DEF TaskStates
  <1>5. QED
    BY <1>4 DEF TerminalEvents

-----------------------------------------------------------------------------
(* Type correctness.                                                       *)

\* A committed finalization keeps the types.
LEMMA CommitType ==
  ASSUME StoreTypeOK, NEW a \in Attempts, NEW r \in AttemptRecords,
         NEW now \in Clock,
         r.final = "completed" => EndsVerified(journal[a]),
         CommitFinalization(a, r, now)
  PROVE  StoreTypeOK'
  <1>1. JournalAtFinalization(a, r) \in Seq(TraceEvents)
    BY TerminalEventsType DEF JournalAtFinalization, StoreTypeOK
  <1>2. journal' \in [Attempts -> Seq(TraceEvents)]
    BY <1>1 DEF CommitFinalization, StoreTypeOK
  <1>3. attempts' \in [Attempts -> AttemptRecords \cup {None}]
    BY DEF CommitFinalization, StoreTypeOK
  <1>4. evidence' \in [Runs -> Attempts \cup {None}]
    BY DEF CommitFinalization, StoreTypeOK
  <1>5. [identity |-> r.identity, document |-> r, transaction |-> now] \in Receipts
    BY DEF Receipts, AttemptRecords
  <1>6. receipts' \in [Attempts -> Receipts \cup {None}]
    BY <1>5 DEF CommitFinalization, StoreTypeOK
  <1>7. QED
    BY <1>2, <1>3, <1>4, <1>6 DEF StoreTypeOK

\* Every step keeps the types.
LEMMA StoreTypeStep == StoreTypeOK /\ [StoreNext]_storeVars => StoreTypeOK'
  <1> SUFFICES ASSUME StoreTypeOK, [StoreNext]_storeVars
               PROVE  StoreTypeOK'
    OBVIOUS
  <1> USE StoreAssumptions
  <1>1. ASSUME NEW a \in Attempts, NEW i \in Identities, NEW env \in Environments,
               NEW plan \in {o.plan : o \in CallerOutcomes} \cup {None},
               BeginAttempt(a, i, env, plan)
        PROVE  StoreTypeOK'
    <2>1. plan \in Plans \cup {None}
      BY DEF Outcomes
    <2>2. OpenRecord(i, env, Sanitized(plan)) \in AttemptRecords
      BY <2>1, SanitizedType, OpenRecordType
    <2>3. QED
      BY <1>1, <2>2 DEF BeginAttempt, StoreTypeOK
  <1>2. ASSUME NEW e \in CallerEvents, AppendTrace(e)
        PROVE  StoreTypeOK'
    <2>1. e \in TraceEvents /\ e.attempt \in Attempts
      BY DEF TraceEvents
    <2>2. journal' \in [Attempts -> Seq(TraceEvents)]
      BY <1>2, <2>1 DEF AppendTrace, StoreTypeOK
    <2>3. QED
      BY <1>2, <2>2 DEF AppendTrace, StoreTypeOK
  <1>3. ASSUME NEW id \in Runs, NEW a \in Attempts, AppendEvidence(id, a)
        PROVE  StoreTypeOK'
    BY <1>3 DEF AppendEvidence, StoreTypeOK
  <1>4. ASSUME NEW a \in Attempts, NEW o \in CallerOutcomes, NEW now \in Clock,
               FinalizeAttempt(a, o, now)
        PROVE  StoreTypeOK'
    <2> DEFINE r == Candidate(attempts[a], o, now)
    <2>1. CASE attempts[a].status = "finalized"
      BY <1>4, <2>1 DEF FinalizeAttempt, storeVars, StoreTypeOK
    <2>2. CASE attempts[a].status # "finalized"
      <3>1. attempts[a] \in AttemptRecords
        BY <1>4 DEF FinalizeAttempt, FinalizeAccepts, StoreTypeOK
      <3>2. r \in AttemptRecords
        BY <3>1, CandidateType
      <3>3. /\ FirstFinalizationAccepts(a, r)
            /\ CommitFinalization(a, r, now)
        BY <1>4, <2>2 DEF FinalizeAttempt, FinalizeAccepts
      <3>4. QED
        BY <3>2, <3>3, CommitType DEF FirstFinalizationAccepts
    <2>3. QED
      BY <2>1, <2>2
  <1>5. CASE UNCHANGED storeVars
    BY <1>5 DEF storeVars, StoreTypeOK
  <1>6. QED
    BY <1>1, <1>2, <1>3, <1>4, <1>5 DEF StoreNext

\* Every row, event, evidence link and receipt stays well formed, whatever the
\* callers do.
THEOREM StoreTypeCorrect == StoreSpec => []StoreTypeOK
  <1>1. StoreInit => StoreTypeOK
    BY DEF StoreInit, StoreTypeOK
  <1>2. QED
    BY <1>1, StoreTypeStep, PTL DEF StoreSpec

-----------------------------------------------------------------------------
(* Finalization commits whole.                                             *)

\* The row, the receipt, the evidence and the journal of one attempt agree:
\* FinalizationIsAtomic at a.
AgreesAt(a) ==
  /\ Finalized(a) <=> receipts[a] # None
  /\ Finalized(a) =>
       /\ receipts[a].document = attempts[a]
       /\ receipts[a].identity = attempts[a].identity
       /\ \A id \in EvidenceOf(attempts[a]) : evidence[id] = a
  /\ (\E i \in DOMAIN journal[a] : journal[a][i].run = Store) =>
       Finalized(a) /\ attempts[a].final = "completed"

LEMMA AtomicByAttempt == FinalizationIsAtomic <=> \A a \in Attempts : AgreesAt(a)
  BY DEF FinalizationIsAtomic, AgreesAt

\* What a first finalization commits, and under which conditions.
LEMMA FinalizeCases ==
  ASSUME StoreTypeOK, NEW a \in Attempts, NEW o \in CallerOutcomes,
         NEW now \in Clock, FinalizeAttempt(a, o, now)
  PROVE  /\ attempts[a] \in AttemptRecords
         /\ \/ UNCHANGED storeVars
            \/ LET r == Candidate(attempts[a], o, now) IN
                 /\ attempts[a].status # "finalized"
                 /\ r \in AttemptRecords /\ r.status = "finalized"
                 /\ r.identity = attempts[a].identity
                 /\ r.environment = attempts[a].environment
                 /\ ValidRecord(a, r)
                 /\ FirstFinalizationAccepts(a, r)
                 /\ CommitFinalization(a, r, now)
  <1>1. attempts[a] \in AttemptRecords
    BY DEF FinalizeAttempt, FinalizeAccepts, StoreTypeOK
  <1>2. o \in Outcomes
    BY StoreAssumptions
  <1>3. CASE attempts[a].status = "finalized"
    BY <1>1, <1>3 DEF FinalizeAttempt
  <1>4. CASE attempts[a].status # "finalized"
    <2>1. /\ ValidRecord(a, Candidate(attempts[a], o, now))
          /\ FirstFinalizationAccepts(a, Candidate(attempts[a], o, now))
          /\ CommitFinalization(a, Candidate(attempts[a], o, now), now)
      BY <1>4 DEF FinalizeAttempt, FinalizeAccepts
    <2>2. QED
      BY <1>1, <1>2, <1>4, <2>1, CandidateType
  <1>5. QED
    BY <1>3, <1>4

\* The evidence a record names is an identifier of the evidence table.
LEMMA EvidenceOfType ==
  ASSUME NEW r \in AttemptRecords
  PROVE  EvidenceOf(r) \subseteq Runs
  BY DEF EvidenceOf, AttemptRecords, VerificationReports

\* The store's own events enter a journal only with a completed record.
LEMMA JournalOfStore ==
  ASSUME StoreTypeOK, NEW a \in Attempts, NEW r \in AttemptRecords,
         FirstFinalizationAccepts(a, r),
         \A i \in DOMAIN journal[a] : journal[a][i].run # Store
  PROVE  (\E i \in DOMAIN JournalAtFinalization(a, r) :
             JournalAtFinalization(a, r)[i].run = Store) => r.final = "completed"
  BY DEF JournalAtFinalization

\* A committed finalization establishes the agreement at its attempt and keeps
\* it at the others: no evidence is taken from them.
LEMMA CommitAtomic ==
  ASSUME StoreTypeOK, FinalizationIsAtomic, NEW a \in Attempts,
         NEW r \in AttemptRecords, NEW now \in Clock,
         attempts[a] \in AttemptRecords,
         attempts[a].status # "finalized", r.status = "finalized",
         FirstFinalizationAccepts(a, r), CommitFinalization(a, r, now)
  PROVE  FinalizationIsAtomic'
  <1> USE StoreAssumptions
  <1>1. /\ attempts' = [attempts EXCEPT ![a] = r]
        /\ receipts' = [receipts EXCEPT ![a] = [identity |-> r.identity,
                                                document |-> r, transaction |-> now]]
        /\ journal' = [journal EXCEPT ![a] = JournalAtFinalization(a, r)]
        /\ evidence' = [id \in DOMAIN evidence |->
                          IF id \in EvidenceOf(r) THEN a ELSE evidence[id]]
    BY DEF CommitFinalization
  <1>2. DOMAIN evidence = Runs /\ DOMAIN attempts = Attempts
        /\ DOMAIN receipts = Attempts /\ DOMAIN journal = Attempts
    BY DEF StoreTypeOK
  <1>3. ~Finalized(a)
    BY DEF Finalized
  <1>4. \A i \in DOMAIN journal[a] : journal[a][i].run # Store
    BY <1>3 DEF FinalizationIsAtomic
  <1>5. AgreesAt(a)'
    <2>1. attempts'[a] = r /\ r # None
      BY <1>1, <1>2
    <2>2. Finalized(a)'
      BY <2>1 DEF Finalized
    <2>3. /\ [identity |-> r.identity, document |-> r, transaction |-> now] \in Receipts
          /\ receipts'[a] = [identity |-> r.identity, document |-> r, transaction |-> now]
      BY <1>1, <1>2 DEF Receipts, AttemptRecords
    <2>4. \A id \in EvidenceOf(r) : evidence'[id] = a
      BY <1>1, <1>2, EvidenceOfType
    <2>5. (\E i \in DOMAIN journal'[a] : journal'[a][i].run = Store)
             => r.final = "completed"
      BY <1>1, <1>2, <1>4, JournalOfStore
    <2>6. EvidenceOf(attempts[a])' = EvidenceOf(r)
      BY <2>1 DEF EvidenceOf
    <2>7. QED
      BY <2>1, <2>2, <2>3, <2>4, <2>5, <2>6 DEF AgreesAt
  <1>6. ASSUME NEW b \in Attempts, b # a PROVE AgreesAt(b)'
    <2>1. /\ attempts'[b] = attempts[b] /\ receipts'[b] = receipts[b]
          /\ journal'[b] = journal[b]
      BY <1>1, <1>2, <1>6
    <2>2. AgreesAt(b)
      BY AtomicByAttempt
    <2>3. (Finalized(b) <=> Finalized(b)') /\ EvidenceOf(attempts[b])' = EvidenceOf(attempts[b])
      BY <2>1 DEF Finalized, EvidenceOf
    <2>4. ASSUME Finalized(b), NEW id \in EvidenceOf(attempts[b])
          PROVE  evidence'[id] = b
      <3>1. attempts[b] \in AttemptRecords
        BY <2>4 DEF Finalized, StoreTypeOK
      <3>2. id \in Runs /\ evidence[id] = b
        BY <2>2, <2>4, <3>1, EvidenceOfType DEF AgreesAt
      <3>3. id \notin EvidenceOf(r)
        BY <3>2, <1>6 DEF FirstFinalizationAccepts, EvidenceFits
      <3>4. QED
        BY <1>1, <1>2, <3>2, <3>3
    <2>5. QED
      BY <2>1, <2>2, <2>3, <2>4 DEF AgreesAt
  <1>7. \A b \in Attempts : AgreesAt(b)'
    BY <1>5, <1>6
  <1>8. QED
    BY <1>7 DEF FinalizationIsAtomic, AgreesAt

\* Every step keeps finalization atomic.
LEMMA AtomicStep ==
  StoreTypeOK /\ FinalizationIsAtomic /\ [StoreNext]_storeVars => FinalizationIsAtomic'
  <1> SUFFICES ASSUME StoreTypeOK, FinalizationIsAtomic, [StoreNext]_storeVars
               PROVE  FinalizationIsAtomic'
    OBVIOUS
  <1> USE StoreAssumptions
  <1>1. ASSUME NEW a \in Attempts, NEW i \in Identities, NEW env \in Environments,
               NEW plan \in {o.plan : o \in CallerOutcomes} \cup {None},
               BeginAttempt(a, i, env, plan)
        PROVE  FinalizationIsAtomic'
    <2>1. CASE attempts[a] # None
      BY <1>1, <2>1 DEF BeginAttempt, FinalizationIsAtomic, Finalized, EvidenceOf
    <2>2. CASE attempts[a] = None
      <3> DEFINE opened == OpenRecord(i, env, Sanitized(plan))
      <3>1. attempts' = [attempts EXCEPT ![a] = opened] /\ DOMAIN attempts = Attempts
        BY <1>1, <2>2 DEF BeginAttempt, StoreTypeOK
      <3>2. opened.status = "open"
        BY DEF OpenRecord
      <3>3. \A b \in Attempts : (Finalized(b) <=> Finalized(b)')
                                /\ (b # a => attempts'[b] = attempts[b])
        BY <2>2, <3>1, <3>2 DEF Finalized
      <3>4. ~Finalized(a)
        BY <2>2 DEF Finalized
      <3>5. \A b \in Attempts :
               b # a => EvidenceOf(attempts[b])' = EvidenceOf(attempts[b])
        BY <3>3 DEF EvidenceOf
      <3>6. QED
        BY <1>1, <3>3, <3>4, <3>5 DEF FinalizationIsAtomic, BeginAttempt
    <2>3. QED
      BY <2>1, <2>2
  <1>2. ASSUME NEW e \in CallerEvents, AppendTrace(e)
        PROVE  FinalizationIsAtomic'
    <2>1. e.attempt \in Attempts /\ e \in TraceEvents /\ e.run # Store
      BY DEF TraceEvents
    <2>2. \A b \in Attempts : (Finalized(b) <=> Finalized(b)')
                              /\ EvidenceOf(attempts[b])' = EvidenceOf(attempts[b])
      BY <1>2 DEF AppendTrace, Finalized, EvidenceOf
    <2>3. ASSUME NEW b \in Attempts, NEW k \in DOMAIN journal'[b],
                 journal'[b][k].run = Store
          PROVE  \E j \in DOMAIN journal[b] : journal[b][j].run = Store
      <3>1. journal[b] \in Seq(TraceEvents)
        BY DEF StoreTypeOK
      <3>2. journal'[b] = journal[b] \/ journal'[b] = Append(journal[b], e)
        BY <1>2, <2>1 DEF AppendTrace, StoreTypeOK
      <3>3. QED
        BY <2>1, <2>3, <3>1, <3>2
    <2>4. QED
      BY <1>2, <2>2, <2>3 DEF FinalizationIsAtomic, AppendTrace
  <1>3. ASSUME NEW id \in Runs, NEW a \in Attempts, AppendEvidence(id, a)
        PROVE  FinalizationIsAtomic'
    <2>1. \A b \in Attempts : (Finalized(b) <=> Finalized(b)')
                              /\ EvidenceOf(attempts[b])' = EvidenceOf(attempts[b])
      BY <1>3 DEF AppendEvidence, Finalized, EvidenceOf
    <2>2. \A x \in Runs : evidence[x] # None => evidence'[x] = evidence[x]
      BY <1>3 DEF AppendEvidence, StoreTypeOK
    <2>3. ASSUME NEW b \in Attempts, Finalized(b), NEW x \in EvidenceOf(attempts[b])
          PROVE  evidence'[x] = b
      <3>1. x \in Runs
        BY <2>3, EvidenceOfType DEF Finalized, StoreTypeOK
      <3>2. QED
        BY <2>2, <2>3, <3>1 DEF FinalizationIsAtomic
    <2>4. QED
      BY <1>3, <2>1, <2>3 DEF FinalizationIsAtomic, AppendEvidence
  <1>4. ASSUME NEW a \in Attempts, NEW o \in CallerOutcomes, NEW now \in Clock,
               FinalizeAttempt(a, o, now)
        PROVE  FinalizationIsAtomic'
    <2>1. CASE UNCHANGED storeVars
      BY <2>1 DEF storeVars, FinalizationIsAtomic, Finalized, EvidenceOf
    <2>2. QED
      BY <1>4, <2>1, FinalizeCases, CommitAtomic
  <1>5. CASE UNCHANGED storeVars
    BY <1>5 DEF storeVars, FinalizationIsAtomic, Finalized, EvidenceOf
  <1>6. QED
    BY <1>1, <1>2, <1>3, <1>4, <1>5 DEF StoreNext

\* A finalization is all or nothing whatever the callers do: StoreTypeOK and
\* FinalizationIsAtomic are inductive together.
THEOREM AtomicFinalization == StoreSpec => []FinalizationIsAtomic
  <1>1. StoreInit => FinalizationIsAtomic
    BY DEF StoreInit, FinalizationIsAtomic, Finalized
  <1>2. QED
    BY <1>1, StoreTypeCorrect, AtomicStep, PTL DEF StoreSpec

-----------------------------------------------------------------------------
(* Nothing recorded changes.                                               *)

\* A sequence is a prefix of its extensions.
LEMMA PrefixOfConcatenation ==
  ASSUME NEW s \in Seq(TraceEvents), NEW t \in Seq(TraceEvents)
  PROVE  IsPrefixOf(s, s \o t)
  <1>1. Len(s \o t) = Len(s) + Len(t) /\ Len(s) \in Nat /\ Len(t) \in Nat
    OBVIOUS
  <1>2. \A i \in DOMAIN s : (s \o t)[i] = s[i]
    OBVIOUS
  <1>3. QED
    BY <1>1, <1>2 DEF IsPrefixOf

\* The elements of a concatenation.
LEMMA Concatenation ==
  ASSUME NEW s \in Seq(TraceEvents), NEW t \in Seq(TraceEvents)
  PROVE  /\ Len(s) \in Nat
         /\ DOMAIN (s \o t) = 1 .. Len(s) + Len(t)
         /\ \A i \in 1 .. Len(s) + Len(t) :
              (s \o t)[i] = IF i <= Len(s) THEN s[i] ELSE t[i - Len(s)]
  OBVIOUS

\* A sequence followed by two elements.
LEMMA ConcatenationOfTwo ==
  ASSUME NEW s \in Seq(TraceEvents), NEW t \in Seq(TraceEvents),
         Len(t) = 2, Len(s) \in 1 .. Len(s)
  PROVE  /\ DOMAIN (s \o t) = 1 .. Len(s) + 2
         /\ (s \o t)[Len(s)] = s[Len(s)]
         /\ (s \o t)[Len(s) + 1] = t[1]
         /\ (s \o t)[Len(s) + 2] = t[2]
  <1>1. /\ Len(s) \in Nat
        /\ DOMAIN (s \o t) = 1 .. Len(s) + 2
        /\ \A i \in 1 .. Len(s) + 2 :
              (s \o t)[i] = IF i <= Len(s) THEN s[i] ELSE t[i - Len(s)]
    BY Concatenation
  <1>2. /\ Len(s) \in 1 .. Len(s) + 2 /\ Len(s) <= Len(s)
        /\ Len(s) + 1 \in 1 .. Len(s) + 2 /\ ~(Len(s) + 1 <= Len(s))
        /\ Len(s) + 2 \in 1 .. Len(s) + 2 /\ ~(Len(s) + 2 <= Len(s))
        /\ Len(s) + 1 - Len(s) = 1 /\ Len(s) + 2 - Len(s) = 2
    BY <1>1
  <1>3. QED
    BY <1>1, <1>2

\* A journal is only appended to.
LEMMA JournalGrows ==
  ASSUME StoreTypeOK, [StoreNext]_storeVars, NEW b \in Attempts
  PROVE  /\ journal'[b] \in Seq(TraceEvents)
         /\ IsPrefixOf(journal[b], journal'[b])
  <1> USE StoreAssumptions
  <1>1. journal[b] \in Seq(TraceEvents)
    BY DEF StoreTypeOK
  <1>2. journal'[b] = journal[b] => IsPrefixOf(journal[b], journal'[b])
    BY <1>1 DEF IsPrefixOf
  <1>3. ASSUME NEW e \in CallerEvents, AppendTrace(e)
        PROVE  IsPrefixOf(journal[b], journal'[b])
    <2>1. e \in TraceEvents /\ e.attempt \in Attempts
      BY DEF TraceEvents
    <2>2. journal'[b] = journal[b] \/ journal'[b] = Append(journal[b], e)
      BY <1>3, <2>1 DEF AppendTrace, StoreTypeOK
    <2>3. IsPrefixOf(journal[b], Append(journal[b], e))
      BY <1>1, <2>1 DEF IsPrefixOf
    <2>4. QED
      BY <1>2, <2>2, <2>3
  <1>4. ASSUME NEW a \in Attempts, NEW o \in CallerOutcomes, NEW now \in Clock,
               FinalizeAttempt(a, o, now)
        PROVE  IsPrefixOf(journal[b], journal'[b])
    <2>1. CASE UNCHANGED storeVars
      BY <1>2, <2>1 DEF storeVars
    <2>2. ASSUME NEW r \in AttemptRecords, FirstFinalizationAccepts(a, r),
                 CommitFinalization(a, r, now)
          PROVE  IsPrefixOf(journal[b], journal'[b])
      <3>1. CASE b # a \/ r.final # "completed"
        BY <1>2, <2>2, <3>1 DEF CommitFinalization, JournalAtFinalization, StoreTypeOK
      <3>2. CASE b = a /\ r.final = "completed"
        <4>1. journal'[b] = journal[b] \o TerminalEvents(a, journal[a], r)
          BY <2>2, <3>2 DEF CommitFinalization, JournalAtFinalization, StoreTypeOK
        <4>2. TerminalEvents(a, journal[a], r) \in Seq(TraceEvents)
          BY <1>1, <2>2, <3>2, TerminalEventsType DEF FirstFinalizationAccepts
        <4>3. QED
          BY <1>1, <4>1, <4>2, PrefixOfConcatenation
      <3>3. QED
        BY <3>1, <3>2
    <2>3. QED
      BY <1>4, <2>1, <2>2, FinalizeCases
  <1>5. ASSUME UNCHANGED journal
        PROVE  IsPrefixOf(journal[b], journal'[b])
    BY <1>2, <1>5
  <1>6. IsPrefixOf(journal[b], journal'[b])
    BY <1>3, <1>4, <1>5 DEF StoreNext, BeginAttempt, AppendEvidence, storeVars
  <1>7. journal'[b] \in Seq(TraceEvents)
    BY StoreTypeStep DEF StoreTypeOK
  <1>8. QED
    BY <1>6, <1>7

\* A finalized row stays, and an evidence link stays.
LEMMA RowsStay ==
  ASSUME StoreTypeOK, FinalizationIsAtomic, [StoreNext]_storeVars
  PROVE  /\ \A a \in Attempts : Finalized(a) => attempts'[a] = attempts[a]
         /\ \A a \in Attempts : receipts[a] # None => receipts'[a] = receipts[a]
         /\ \A id \in Runs : evidence[id] # None => evidence'[id] = evidence[id]
  <1>1. ASSUME NEW a \in Attempts, NEW i \in Identities, NEW env \in Environments,
               NEW plan \in {o.plan : o \in CallerOutcomes} \cup {None},
               BeginAttempt(a, i, env, plan)
        PROVE  /\ \A b \in Attempts : Finalized(b) => attempts'[b] = attempts[b]
               /\ UNCHANGED <<receipts, evidence>>
    BY <1>1 DEF BeginAttempt, Finalized, StoreTypeOK
  <1>2. ASSUME NEW id \in Runs, NEW a \in Attempts, AppendEvidence(id, a)
        PROVE  /\ \A x \in Runs : evidence[x] # None => evidence'[x] = evidence[x]
               /\ UNCHANGED <<attempts, receipts>>
    BY <1>2 DEF AppendEvidence, StoreTypeOK
  <1>3. ASSUME NEW a \in Attempts, NEW o \in CallerOutcomes, NEW now \in Clock,
               FinalizeAttempt(a, o, now)
        PROVE  /\ \A b \in Attempts : Finalized(b) => attempts'[b] = attempts[b]
               /\ \A b \in Attempts : receipts[b] # None => receipts'[b] = receipts[b]
               /\ \A x \in Runs : evidence[x] # None => evidence'[x] = evidence[x]
    <2>1. CASE UNCHANGED storeVars
      BY <2>1 DEF storeVars
    <2>2. ASSUME NEW r \in AttemptRecords, attempts[a].status # "finalized",
                 FirstFinalizationAccepts(a, r), CommitFinalization(a, r, now)
          PROVE  /\ \A b \in Attempts : Finalized(b) => attempts'[b] = attempts[b]
                 /\ \A b \in Attempts :
                      receipts[b] # None => receipts'[b] = receipts[b]
                 /\ \A x \in Runs : evidence[x] # None => evidence'[x] = evidence[x]
      <3>1. ~Finalized(a) /\ receipts[a] = None
        BY <2>2 DEF Finalized, FinalizationIsAtomic
      <3>2. \A x \in Runs : evidence[x] # None => evidence'[x] = evidence[x]
        BY <2>2 DEF CommitFinalization, StoreTypeOK, FirstFinalizationAccepts,
                    EvidenceFits
      <3>3. QED
        BY <2>2, <3>1, <3>2 DEF CommitFinalization, StoreTypeOK
    <2>3. QED
      BY <1>3, <2>1, <2>2, FinalizeCases
  <1>4. QED
    BY <1>1, <1>2, <1>3 DEF StoreNext, AppendTrace, storeVars

\* Journals only grow, and rows, receipts and links never change once final.
THEOREM KeepsHistory == StoreSpec => HistoryIsKept
  <1>1. StoreTypeOK /\ FinalizationIsAtomic /\ [StoreNext]_storeVars =>
          [/\ \A a \in Attempts :
                /\ IsPrefixOf(journal[a], journal'[a])
                /\ Finalized(a) => attempts'[a] = attempts[a]
                /\ receipts[a] # None => receipts'[a] = receipts[a]
           /\ \A id \in Runs : evidence[id] # None => evidence'[id] = evidence[id]
          ]_storeVars
    BY JournalGrows, RowsStay
  <1>2. QED
    BY <1>1, StoreTypeCorrect, AtomicFinalization, PTL DEF StoreSpec, HistoryIsKept

-----------------------------------------------------------------------------
(* No stored plan is unredacted.                                           *)

LEMMA RedactedStep ==
  StoreTypeOK /\ StoredPlansAreRedacted /\ [StoreNext]_storeVars
    => StoredPlansAreRedacted'
  <1> SUFFICES ASSUME StoreTypeOK, StoredPlansAreRedacted, [StoreNext]_storeVars
               PROVE  StoredPlansAreRedacted'
    OBVIOUS
  <1> USE StoreAssumptions
  <1>1. ASSUME NEW a \in Attempts, NEW i \in Identities, NEW env \in Environments,
               NEW plan \in {o.plan : o \in CallerOutcomes} \cup {None},
               BeginAttempt(a, i, env, plan)
        PROVE  StoredPlansAreRedacted'
    <2>1. OpenRecord(i, env, Sanitized(plan)).plan = Sanitized(plan)
      BY DEF OpenRecord
    <2>2. plan \in Plans \cup {None}
      BY DEF Outcomes
    <2>3. Sanitized(plan) # None => Sanitized(plan).text # "secret"
      BY <2>2, SanitizedType
    <2>4. QED
      BY <1>1, <2>1, <2>3 DEF BeginAttempt, StoredPlansAreRedacted, StoreTypeOK
  <1>2. ASSUME NEW a \in Attempts, NEW o \in CallerOutcomes, NEW now \in Clock,
               FinalizeAttempt(a, o, now)
        PROVE  StoredPlansAreRedacted'
    <2> DEFINE r == Candidate(attempts[a], o, now)
    <2>1. CASE UNCHANGED storeVars
      BY <2>1 DEF storeVars, StoredPlansAreRedacted
    <2>2. CASE CommitFinalization(a, r, now)
      <3>1. attempts[a] \in AttemptRecords /\ attempts[a] # None
        BY <1>2 DEF FinalizeAttempt, FinalizeAccepts, StoreTypeOK
      <3>2. o \in Outcomes /\ o.plan \in Plans \cup {None}
        BY DEF Outcomes
      <3>3. r.plan = IF attempts[a].plan # None THEN attempts[a].plan
                     ELSE Sanitized(o.plan)
        BY <3>1, <3>2, CandidateType
      <3>4. r.plan # None => r.plan.text # "secret"
        BY <3>1, <3>2, <3>3, SanitizedType DEF StoredPlansAreRedacted
      <3>5. attempts' = [attempts EXCEPT ![a] = r]
        BY <2>2 DEF CommitFinalization
      <3>6. QED
        BY <3>4, <3>5 DEF StoredPlansAreRedacted, StoreTypeOK
    <2>3. QED
      BY <1>2, <2>1, <2>2, FinalizeCases
  <1>3. CASE UNCHANGED attempts
    BY <1>3 DEF StoredPlansAreRedacted
  <1>4. QED
    BY <1>1, <1>2, <1>3 DEF StoreNext, AppendTrace, AppendEvidence, storeVars

\* Whatever plans callers hand over, no secret text reaches a stored row.
THEOREM StoresRedactedPlans == StoreSpec => []StoredPlansAreRedacted
  <1>1. StoreInit => StoredPlansAreRedacted
    BY DEF StoreInit, StoredPlansAreRedacted
  <1>2. QED
    BY <1>1, StoreTypeCorrect, RedactedStep, PTL DEF StoreSpec

-----------------------------------------------------------------------------
(* A completed attempt was verified first.                                 *)

\* CompletedIsVerified at a.
CompletionAt(a) ==
  Finalized(a) /\ attempts[a].final = "completed" =>
    /\ attempts[a].execution # None /\ attempts[a].execution.success
    /\ attempts[a].verification # None
    /\ attempts[a].verification.verdict = "passed"
    /\ attempts[a].verification.attempt = a
    /\ CompletionIsProved(journal[a], attempts[a])

\* A journal that shows a completion still shows it when it has grown.
LEMMA CompletionStays ==
  ASSUME NEW s \in Seq(TraceEvents), NEW t \in Seq(TraceEvents), IsPrefixOf(s, t),
         NEW r, CompletionIsProved(s, r)
  PROVE  CompletionIsProved(t, r)
  <1>1. \A i \in DOMAIN s : i \in DOMAIN t /\ t[i] = s[i]
    BY DEF IsPrefixOf
  <1>2. QED
    BY <1>1 DEF CompletionIsProved

\* The journal the store accepts and extends for a completed attempt shows the
\* report, "verified", "recorded" and "completed" in this order.
LEMMA CompletionIsShown ==
  ASSUME NEW a \in Attempts, journal[a] \in Seq(TraceEvents),
         NEW r \in AttemptRecords, r.final = "completed",
         FirstFinalizationAccepts(a, r)
  PROVE  CompletionIsProved(JournalAtFinalization(a, r), r)
  <1> DEFINE s == journal[a]
             t == TerminalEvents(a, s, r)
             whole == s \o t
  <1>1. EndsVerified(s) /\ ValidLifecycle(whole, r)
    BY DEF FirstFinalizationAccepts, JournalAtFinalization
  <1>2. t \in Seq(TraceEvents) /\ Len(t) = 2
    BY <1>1, TerminalEventsType
  <1>3. /\ t[1].run = Store /\ t[1].to = "recorded"
        /\ t[2].run = Store /\ t[2].to = "completed"
    BY DEF TerminalEvents, TransitionEvent
  <1> HIDE DEF t
  <1>4. /\ Len(s) \in 1 .. Len(s)
        /\ s[Len(s)].type = "orchestrator.transition"
        /\ s[Len(s)].to = "verified"
    BY <1>1 DEF EndsVerified, TransitionsIn
  <1>5. /\ DOMAIN whole = 1 .. Len(s) + 2
        /\ whole[Len(s)] = s[Len(s)]
        /\ whole[Len(s) + 1] = t[1]
        /\ whole[Len(s) + 2] = t[2]
    BY <1>2, <1>4, ConcatenationOfTwo
  <1> HIDE DEF whole
  <1>6. Len(s) \in {i \in TransitionsIn(whole) : whole[i].to = "verified"}
    BY <1>4, <1>5 DEF TransitionsIn
  <1>7. PICK p \in DOMAIN whole :
               /\ whole[p].type = "verification.completed"
               /\ whole[p].report = r.verification.run
               /\ p < Len(s)
    BY <1>1, <1>6 DEF ValidLifecycle
  <1>8. /\ Len(s) \in DOMAIN whole /\ Len(s) + 1 \in DOMAIN whole
        /\ Len(s) + 2 \in DOMAIN whole
    BY <1>4, <1>5
  <1>9. Len(s) < Len(s) + 1 /\ Len(s) + 1 < Len(s) + 2
    BY <1>4
  <1>10. CompletionIsProved(whole, r)
    BY <1>3, <1>4, <1>5, <1>7, <1>8, <1>9 DEF CompletionIsProved
  <1>11. QED
    BY <1>10 DEF JournalAtFinalization, whole, t

\* A row becomes final only by a committed finalization of its attempt.
LEMMA FirstFinalization ==
  ASSUME StoreTypeOK, [StoreNext]_storeVars, NEW b \in Attempts,
         ~Finalized(b), Finalized(b)'
  PROVE  \E r \in AttemptRecords :
           /\ attempts[b] # None
           /\ attempts'[b] = r
           /\ r.identity = attempts[b].identity
           /\ r.environment = attempts[b].environment
           /\ ValidRecord(b, r)
           /\ FirstFinalizationAccepts(b, r)
           /\ journal'[b] = JournalAtFinalization(b, r)
           /\ \A a \in Attempts : a # b => attempts'[a] = attempts[a]
  <1>1. attempts' # attempts
    BY DEF Finalized
  <1>2. ASSUME NEW a \in Attempts, NEW i \in Identities, NEW env \in Environments,
               NEW plan \in {o.plan : o \in CallerOutcomes} \cup {None},
               BeginAttempt(a, i, env, plan)
        PROVE  FALSE
    <2>1. OpenRecord(i, env, Sanitized(plan)).status = "open"
      BY DEF OpenRecord
    <2>2. QED
      BY <1>2, <2>1 DEF BeginAttempt, Finalized, StoreTypeOK
  <1>3. PICK a \in Attempts, o \in CallerOutcomes, now \in Clock :
               FinalizeAttempt(a, o, now)
    BY <1>1, <1>2 DEF StoreNext, AppendTrace, AppendEvidence, storeVars
  <1> DEFINE r == Candidate(attempts[a], o, now)
  <1>4. /\ attempts[a] \in AttemptRecords
        /\ r \in AttemptRecords
        /\ r.identity = attempts[a].identity
        /\ r.environment = attempts[a].environment
        /\ ValidRecord(a, r)
        /\ FirstFinalizationAccepts(a, r)
        /\ CommitFinalization(a, r, now)
    BY <1>1, <1>3, FinalizeCases DEF storeVars
  <1> HIDE DEF r
  <1>5. /\ attempts' = [attempts EXCEPT ![a] = r]
        /\ journal' = [journal EXCEPT ![a] = JournalAtFinalization(a, r)]
    BY <1>4 DEF CommitFinalization
  <1>6. a = b
    BY <1>5 DEF Finalized, StoreTypeOK
  <1>7. QED
    BY <1>4, <1>5, <1>6, StoreAssumptions DEF StoreTypeOK

LEMMA CompletedStep ==
  ASSUME StoreTypeOK, FinalizationIsAtomic, CompletedIsVerified,
         [StoreNext]_storeVars
  PROVE  CompletedIsVerified'
  <1>1. ASSUME NEW b \in Attempts PROVE CompletionAt(b)'
    <2>1. CASE Finalized(b)
      <3>1. attempts'[b] = attempts[b]
        BY <2>1, RowsStay
      <3>2. /\ journal[b] \in Seq(TraceEvents) /\ journal'[b] \in Seq(TraceEvents)
            /\ IsPrefixOf(journal[b], journal'[b])
        BY JournalGrows DEF StoreTypeOK
      <3>3. CompletionAt(b)
        BY DEF CompletedIsVerified, CompletionAt
      <3>4. QED
        BY <2>1, <3>1, <3>2, <3>3, CompletionStays DEF CompletionAt
    <2>2. CASE ~Finalized(b) /\ Finalized(b)'
      <3>1. PICK r \in AttemptRecords :
                   /\ attempts'[b] = r
                   /\ ValidRecord(b, r)
                   /\ FirstFinalizationAccepts(b, r)
                   /\ journal'[b] = JournalAtFinalization(b, r)
        BY <2>2, FirstFinalization
      <3>2. ASSUME r.final = "completed"
            PROVE  /\ r.execution # None /\ r.execution.success
                   /\ r.verification # None /\ r.verification.verdict = "passed"
                   /\ r.verification.attempt = b
        BY <3>1, <3>2 DEF ValidRecord
      <3>3. journal[b] \in Seq(TraceEvents)
        BY DEF StoreTypeOK
      <3>4. QED
        BY <3>1, <3>2, <3>3, CompletionIsShown DEF CompletionAt
    <2>3. CASE ~Finalized(b)'
      BY <2>3 DEF CompletionAt
    <2>4. QED
      BY <2>1, <2>2, <2>3
  <1>2. QED
    BY <1>1 DEF CompletedIsVerified, CompletionAt

\* Whoever calls the store, a completed attempt executed, passed verification
\* and has a journal that shows it.
THEOREM CompletesVerified == StoreSpec => []CompletedIsVerified
  <1>1. StoreInit => CompletedIsVerified
    BY DEF StoreInit, CompletedIsVerified, Finalized
  <1>2. StoreTypeOK /\ FinalizationIsAtomic /\ CompletedIsVerified
          /\ [StoreNext]_storeVars => CompletedIsVerified'
    BY CompletedStep
  <1>3. QED
    BY <1>1, <1>2, StoreTypeCorrect, AtomicFinalization, PTL DEF StoreSpec

-----------------------------------------------------------------------------
(* The tables implement AttemptPromise.                                    *)

\* What AttemptPromise sees of the tables.
EnvelopeSeen ==
  [a \in Attempts |-> IF attempts[a] = None THEN None
                      ELSE <<attempts[a].identity, attempts[a].environment>>]

OutcomeSeen == [a \in Attempts |-> IF Finalized(a) THEN attempts[a] ELSE None]

\* Every step of the tables opens one attempt, answers one, or is not seen.
LEMMA PromiseStep ==
  ASSUME StoreTypeOK, FinalizationIsAtomic, [StoreNext]_storeVars
  PROVE  [Promise!Next]_<<EnvelopeSeen, OutcomeSeen>>
  <1> USE StoreAssumptions
  <1>1. ASSUME NEW a \in Attempts, NEW i \in Identities, NEW env \in Environments,
               NEW plan \in {o.plan : o \in CallerOutcomes} \cup {None},
               BeginAttempt(a, i, env, plan), attempts[a] = None
        PROVE  Promise!Open(a)
    <2> DEFINE opened == OpenRecord(i, env, Sanitized(plan))
    <2>1. attempts' = [attempts EXCEPT ![a] = opened]
      BY <1>1 DEF BeginAttempt
    <2>2. /\ opened.status = "open" /\ opened.identity = i
          /\ opened.environment = env
      BY DEF OpenRecord
    <2>3. opened # None
      <3>1. plan \in Plans \cup {None}
        BY DEF Outcomes
      <3>2. opened \in AttemptRecords
        BY <3>1, SanitizedType, OpenRecordType
      <3>3. QED
        BY <3>2
    <2> HIDE DEF opened
    <2>4. attempts'[a] = opened /\ \A b \in Attempts : b # a => attempts'[b] = attempts[b]
      BY <2>1 DEF StoreTypeOK
    <2>5. \A b \in Attempts : Finalized(b)' = Finalized(b)
      BY <1>1, <2>2, <2>3, <2>4 DEF Finalized
    <2>6. OutcomeSeen' = OutcomeSeen
      BY <2>4, <2>5, <1>1 DEF OutcomeSeen, Finalized
    <2>7. /\ EnvelopeSeen[a] = None
          /\ EnvelopeSeen'[a] = <<i, env>>
          /\ EnvelopeSeen' = [EnvelopeSeen EXCEPT ![a] = EnvelopeSeen'[a]]
      <3>1. EnvelopeSeen[a] = None
        BY <1>1 DEF EnvelopeSeen
      <3>2. EnvelopeSeen'[a] = <<i, env>>
        BY <2>2, <2>3, <2>4 DEF EnvelopeSeen
      <3>3. \A b \in Attempts : b # a => EnvelopeSeen'[b] = EnvelopeSeen[b]
        BY <2>4 DEF EnvelopeSeen
      <3>4. QED
        BY <3>1, <3>2, <3>3 DEF EnvelopeSeen
    <2>8. QED
      BY <2>6, <2>7 DEF Promise!Open, EnvelopeSeen, OutcomeSeen
  <1>2. ASSUME NEW a \in Attempts, ~Finalized(a), Finalized(a)'
        PROVE  Promise!Answer(a)
    <2>1. PICK r \in AttemptRecords :
                 /\ attempts[a] # None
                 /\ attempts'[a] = r
                 /\ r.identity = attempts[a].identity
                 /\ r.environment = attempts[a].environment
                 /\ ValidRecord(a, r)
                 /\ \A b \in Attempts : b # a => attempts'[b] = attempts[b]
      BY <1>2, FirstFinalization
    <2>2. attempts[a] \in AttemptRecords /\ r # None
      BY <2>1 DEF StoreTypeOK
    <2>3. EnvelopeSeen' = EnvelopeSeen
      BY <2>1, <2>2 DEF EnvelopeSeen
    <2>4. EnvelopeSeen[a] # None
      BY <2>1, <2>2 DEF EnvelopeSeen, AttemptRecords
    <2>5. /\ OutcomeSeen[a] = None
          /\ OutcomeSeen'[a] = r
          /\ OutcomeSeen' = [OutcomeSeen EXCEPT ![a] = OutcomeSeen'[a]]
      BY <1>2, <2>1 DEF OutcomeSeen, Finalized
    <2>6. r.final = "completed" =>
            /\ r.execution # None /\ r.execution.success
            /\ r.verification # None /\ r.verification.verdict = "passed"
      BY <2>1 DEF ValidRecord
    <2>7. QED
      BY <2>3, <2>4, <2>5, <2>6 DEF Promise!Answer, EnvelopeSeen, OutcomeSeen
  <1>3. ASSUME UNCHANGED attempts
        PROVE  UNCHANGED <<EnvelopeSeen, OutcomeSeen>>
    BY <1>3 DEF EnvelopeSeen, OutcomeSeen, Finalized
  <1>4. ASSUME NEW a \in Attempts, NEW o \in CallerOutcomes, NEW now \in Clock,
               FinalizeAttempt(a, o, now), ~UNCHANGED attempts
        PROVE  ~Finalized(a) /\ Finalized(a)'
    BY <1>4, FinalizeCases
       DEF Finalized, CommitFinalization, StoreTypeOK, storeVars
  <1>5. QED
    BY <1>1, <1>2, <1>3, <1>4
       DEF StoreNext, BeginAttempt, AppendTrace, AppendEvidence, storeVars,
           Promise!Next

\* The tables implement the abstract specification: an attempt is opened once,
\* and answered once with an acceptable outcome.
THEOREM KeepsPromise == StoreSpec => PromiseKept
  <1>1. StoreInit => Promise!Init
    BY DEF StoreInit, Promise!Init, Finalized
  <1>2. StoreTypeOK /\ FinalizationIsAtomic /\ [StoreNext]_storeVars
          => [Promise!Next]_<<EnvelopeSeen, OutcomeSeen>>
    BY PromiseStep
  <1>3. QED
    BY <1>1, <1>2, StoreTypeCorrect, AtomicFinalization, PTL
       DEF StoreSpec, PromiseKept, Promise!Spec, EnvelopeSeen, OutcomeSeen

-----------------------------------------------------------------------------
(* Readers, whatever uses the store while they read: first the store under *)
(* them.                                                                   *)

\* What events prove of a final row.
ShowsFinal(events, row) ==
  /\ \E i \in DOMAIN events : events[i].to = row.final
  /\ row.final = "completed" => CompletionIsProved(events, row)

\* The journal of a final row shows how it came to be.
FinalIsShown ==
  \A a \in Attempts :
    Finalized(a) => \E i \in DOMAIN journal[a] : journal[a][i].to = attempts[a].final

StoreInv ==
  /\ StoreTypeOK /\ FinalizationIsAtomic /\ CompletedIsVerified
  /\ StoredPlansAreRedacted /\ FinalIsShown

LEMMA StoreInvInit == StoreInit => StoreInv
  <1> SUFFICES ASSUME StoreInit PROVE StoreInv
    OBVIOUS
  <1>1. StoreTypeOK
    BY DEF StoreInit, StoreTypeOK
  <1>2. FinalizationIsAtomic
    BY DEF StoreInit, FinalizationIsAtomic, Finalized
  <1>3. CompletedIsVerified /\ StoredPlansAreRedacted /\ FinalIsShown
    BY DEF StoreInit, CompletedIsVerified, StoredPlansAreRedacted, FinalIsShown,
           Finalized
  <1>4. QED
    BY <1>1, <1>2, <1>3 DEF StoreInv

LEMMA FinalShownStep ==
  ASSUME StoreInv, [StoreNext]_storeVars
  PROVE  FinalIsShown'
  <1>1. ASSUME NEW a \in Attempts, Finalized(a)'
        PROVE  \E i \in DOMAIN journal'[a] : journal'[a][i].to = attempts'[a].final
    <2>1. /\ journal[a] \in Seq(TraceEvents) /\ journal'[a] \in Seq(TraceEvents)
          /\ IsPrefixOf(journal[a], journal'[a])
      BY JournalGrows DEF StoreInv, StoreTypeOK
    <2>2. CASE Finalized(a)
      <3>1. attempts'[a] = attempts[a]
        BY <2>2, RowsStay DEF StoreInv
      <3>2. PICK i \in DOMAIN journal[a] : journal[a][i].to = attempts[a].final
        BY <2>2 DEF StoreInv, FinalIsShown
      <3>3. i \in DOMAIN journal'[a] /\ journal'[a][i] = journal[a][i]
        BY <2>1 DEF IsPrefixOf
      <3>4. QED
        BY <3>1, <3>2, <3>3
    <2>3. CASE ~Finalized(a)
      <3>1. PICK r \in AttemptRecords :
                   /\ attempts'[a] = r
                   /\ FirstFinalizationAccepts(a, r)
                   /\ journal'[a] = JournalAtFinalization(a, r)
        BY <1>1, <2>3, FirstFinalization DEF StoreInv
      <3>2. ValidLifecycle(journal'[a], r)
        BY <3>1 DEF FirstFinalizationAccepts
      <3>3. Len(journal'[a]) \in DOMAIN journal'[a]
            /\ journal'[a][Len(journal'[a])].to = r.final
        BY <3>2 DEF ValidLifecycle, TransitionsIn
      <3>4. QED
        BY <3>1, <3>3
    <2>4. QED
      BY <2>2, <2>3
  <1>2. QED
    BY <1>1 DEF FinalIsShown

LEMMA StoreInvStep == StoreInv /\ [StoreNext]_storeVars => StoreInv'
  BY StoreTypeStep, AtomicStep, CompletedStep, RedactedStep, FinalShownStep DEF StoreInv

\* A row keeps its envelope, whoever calls the store.
LEMMA EnvelopeIsKept ==
  ASSUME StoreTypeOK, [StoreNext]_storeVars, NEW b \in Attempts, attempts[b] # None
  PROVE  /\ attempts'[b] # None
         /\ attempts'[b].identity = attempts[b].identity
         /\ attempts'[b].environment = attempts[b].environment
  <1>1. ASSUME NEW a \in Attempts, NEW i \in Identities, NEW env \in Environments,
               NEW plan, BeginAttempt(a, i, env, plan)
        PROVE  attempts'[b] = attempts[b]
    BY <1>1 DEF BeginAttempt, StoreTypeOK
  <1>2. ASSUME NEW a \in Attempts, NEW o \in CallerOutcomes, NEW now \in Clock,
               FinalizeAttempt(a, o, now)
        PROVE  /\ attempts'[b] # None
               /\ attempts'[b].identity = attempts[b].identity
               /\ attempts'[b].environment = attempts[b].environment
    <2>1. CASE UNCHANGED storeVars
      BY <2>1 DEF storeVars
    <2>2. ASSUME NEW r \in AttemptRecords, r.identity = attempts[a].identity,
                 r.environment = attempts[a].environment, CommitFinalization(a, r, now)
          PROVE  /\ attempts'[b] # None
                 /\ attempts'[b].identity = attempts[b].identity
                 /\ attempts'[b].environment = attempts[b].environment
      <3>1. r # None
        BY StoreAssumptions
      <3>2. QED
        BY <2>2, <3>1 DEF CommitFinalization, StoreTypeOK
    <2>3. QED
      BY <1>2, <2>1, <2>2, FinalizeCases
  <1>3. CASE attempts' = attempts
    BY <1>3
  <1>4. QED
    BY <1>1, <1>2, <1>3 DEF StoreNext, AppendTrace, AppendEvidence, storeVars

-----------------------------------------------------------------------------
(* What a reader has read so far.                                          *)

Views ==
  [attempt : Attempts \cup {None}, read : 0 .. 3, row : AttemptRecords \cup {None},
   events : Seq(TraceEvents), evidence : SUBSET Runs]

LinkedTo(a) == {id \in Runs : evidence[id] = a}

\* Where the reader is in its order, and how what it has read relates to what
\* the store holds now.
ViewFits(a, read, row, events, linked) ==
  /\ read = 0 => row = None
  /\ read < 2 => events = <<>>
  /\ read < 3 => linked = {}
  /\ a = None => read = 0
  /\ row # None =>
       /\ attempts[a] # None
       /\ attempts[a].identity = row.identity
       /\ attempts[a].environment = row.environment
       /\ row.status = "finalized" =>
            /\ attempts[a] = row
            /\ read >= 2 => ShowsFinal(events, row)
            /\ read = 3 => EvidenceOf(row) \subseteq linked
  /\ a # None => IsPrefixOf(events, journal[a]) /\ linked \subseteq LinkedTo(a)

ViewsFit ==
  /\ views \in [Readers -> Views]
  /\ \A r \in Readers :
       ViewFits(views[r].attempt, views[r].read, views[r].row, views[r].events,
                views[r].evidence)

\* A reader becomes another view.
LEMMA ViewBecomes ==
  ASSUME views \in [Readers -> Views], NEW r \in Readers, NEW v \in Views,
         views' = [views EXCEPT ![r] = v]
  PROVE  /\ views' \in [Readers -> Views]
         /\ views'[r] = v
         /\ \A q \in Readers : q # r => views'[q] = views[q]
  OBVIOUS

LEMMA ViewReads ==
  ASSUME views \in [Readers -> Views], NEW r \in Readers,
         NEW read \in 0 .. 3, NEW row \in AttemptRecords \cup {None},
         NEW events \in Seq(TraceEvents), NEW linked \in SUBSET Runs,
         views' = [views EXCEPT ![r].read = read, ![r].row = row,
                                ![r].events = events, ![r].evidence = linked]
  PROVE  /\ views' \in [Readers -> Views]
         /\ views'[r].attempt = views[r].attempt /\ views'[r].read = read
         /\ views'[r].row = row /\ views'[r].events = events
         /\ views'[r].evidence = linked
         /\ \A q \in Readers : q # r => views'[q] = views[q]
  <1>1. ASSUME NEW x \in Views
        PROVE  [x EXCEPT !.read = read, !.row = row, !.events = events,
                         !.evidence = linked] \in Views
    BY DEF Views
  <1>2. views' = [views EXCEPT ![r] = [views[r] EXCEPT !.read = read, !.row = row,
                                         !.events = events, !.evidence = linked]]
    BY DEF Views
  <1>3. /\ views' \in [Readers -> Views]
        /\ views'[r] = [views[r] EXCEPT !.read = read, !.row = row,
                                        !.events = events, !.evidence = linked]
        /\ \A q \in Readers : q # r => views'[q] = views[q]
    BY <1>1, <1>2, ViewBecomes
  <1>4. QED
    BY <1>3 DEF Views

\* What was read of the store stays true of it.
LEMMA ViewStays ==
  ASSUME StoreInv, [StoreNext]_storeVars,
         NEW a \in Attempts \cup {None}, NEW read \in 0 .. 3,
         NEW row \in AttemptRecords \cup {None}, NEW events \in Seq(TraceEvents),
         NEW linked \in SUBSET Runs, ViewFits(a, read, row, events, linked)
  PROVE  ViewFits(a, read, row, events, linked)'
  <1>1. CASE a = None
    BY <1>1 DEF ViewFits
  <1>2. CASE a # None
    <2>1. a \in Attempts
      BY <1>2
    <2>2. /\ journal[a] \in Seq(TraceEvents) /\ journal'[a] \in Seq(TraceEvents)
          /\ IsPrefixOf(journal[a], journal'[a])
      BY <2>1, JournalGrows DEF StoreInv, StoreTypeOK
    <2>3. IsPrefixOf(events, journal'[a])
      <3>1. IsPrefixOf(events, journal[a])
        BY <1>2 DEF ViewFits
      <3>2. Len(events) \in Nat /\ DOMAIN events = 1 .. Len(events)
            /\ Len(journal[a]) \in Nat /\ DOMAIN journal[a] = 1 .. Len(journal[a])
            /\ Len(journal'[a]) \in Nat
        BY <2>2
      <3>3. \A i \in DOMAIN events : i \in DOMAIN journal[a]
        BY <3>1, <3>2 DEF IsPrefixOf
      <3>4. QED
        BY <2>2, <3>1, <3>2, <3>3 DEF IsPrefixOf
    <2>4. linked \subseteq LinkedTo(a)'
      <3>1. \A id \in linked : evidence[id] = a
        BY <1>2 DEF ViewFits, LinkedTo
      <3>2. \A id \in linked : evidence'[id] = a
        BY <1>2, <3>1, RowsStay DEF StoreInv
      <3>3. QED
        BY <3>2 DEF LinkedTo
    <2>5. ASSUME row # None
          PROVE  /\ attempts'[a] # None
                 /\ attempts'[a].identity = row.identity
                 /\ attempts'[a].environment = row.environment
      BY <2>1, <2>5, EnvelopeIsKept DEF ViewFits, StoreInv
    <2>6. ASSUME row # None, row.status = "finalized"
          PROVE  attempts'[a] = row
      <3>1. Finalized(a) /\ attempts[a] = row
        BY <2>6 DEF ViewFits, Finalized
      <3>2. QED
        BY <2>1, <3>1, RowsStay DEF StoreInv
    <2>7. QED
      BY <1>2, <2>3, <2>4, <2>5, <2>6 DEF ViewFits
  <1>3. QED
    BY <1>1, <1>2

LEMMA ShowFits ==
  ASSUME StoreInv, ViewsFit, NEW r \in Readers, NEW a \in Attempts \cup {None},
         views' = [views EXCEPT ![r] = Nothing(a)], UNCHANGED storeVars
  PROVE  ViewsFit'
  <1>1. Nothing(a) \in Views
    BY DEF Nothing, Views
  <1>2. /\ views' \in [Readers -> Views] /\ views'[r] = Nothing(a)
        /\ \A q \in Readers : q # r => views'[q] = views[q]
    BY <1>1, ViewBecomes DEF ViewsFit
  <1>3. ViewFits(a, 0, None, <<>>, {})'
    <2>1. a # None => journal'[a] \in Seq(TraceEvents)
      BY DEF StoreInv, StoreTypeOK, storeVars
    <2>2. a # None => IsPrefixOf(<<>>, journal'[a])
      BY <2>1 DEF IsPrefixOf
    <2>3. QED
      BY <2>2 DEF ViewFits
  <1>4. /\ views'[r].attempt = a /\ views'[r].read = 0 /\ views'[r].row = None
        /\ views'[r].events = <<>> /\ views'[r].evidence = {}
    BY <1>2 DEF Nothing
  <1>5. ASSUME NEW q \in Readers
        PROVE  ViewFits(views[q].attempt, views[q].read, views[q].row, views[q].events,
                        views[q].evidence)'
    <2>1. CASE q = r
      BY <1>3, <1>4, <2>1
    <2>2. CASE q # r
      BY <1>2, <2>2 DEF ViewsFit, ViewFits, storeVars, LinkedTo
    <2>3. QED
      BY <2>1, <2>2
  <1>6. QED
    BY <1>2, <1>5 DEF ViewsFit

LEMMA ReadFits ==
  ASSUME StoreInv, ViewsFit, NEW r \in Readers, Read(r)
  PROVE  ViewsFit'
  <1> DEFINE a == views[r].attempt
             read == views[r].read + 1
             row == IF ReadingOrder[read] = "attempts" THEN attempts[a] ELSE views[r].row
             events == IF ReadingOrder[read] = "trace_events" THEN journal[a]
                       ELSE views[r].events
             linked == IF ReadingOrder[read] = "evidence" THEN LinkedTo(a)
                       ELSE views[r].evidence
  <1>1. views[r] \in Views /\ views \in [Readers -> Views]
    BY DEF ViewsFit
  <1>2. /\ a \in Attempts /\ views[r].read \in 0 .. 2 /\ read \in 1 .. 3
        /\ ~RowIsMissing(r) /\ UNCHANGED storeVars
    BY <1>1 DEF Read, Views, ReadingOrder
  <1>3. views' = [views EXCEPT ![r].read = read, ![r].row = row,
                               ![r].events = events, ![r].evidence = linked]
    BY DEF Read, LinkedTo
  <1>4. ViewFits(a, views[r].read, views[r].row, views[r].events, views[r].evidence)
    BY DEF ViewsFit
  <1>5. /\ views[r].row \in AttemptRecords \cup {None}
        /\ views[r].events \in Seq(TraceEvents) /\ views[r].evidence \in SUBSET Runs
    BY <1>1 DEF Views
  <1>6. /\ attempts[a] \in AttemptRecords \cup {None} /\ journal[a] \in Seq(TraceEvents)
        /\ LinkedTo(a) \in SUBSET Runs
    BY <1>2 DEF StoreInv, StoreTypeOK, LinkedTo
  <1>7. IsPrefixOf(journal[a], journal[a])
    BY <1>6 DEF IsPrefixOf
  <1>8. /\ row \in AttemptRecords \cup {None} /\ events \in Seq(TraceEvents)
        /\ linked \in SUBSET Runs /\ ViewFits(a, read, row, events, linked)
    <2>1. CASE read = 1
      <3>1. row = attempts[a] /\ events = views[r].events /\ linked = views[r].evidence
        BY <2>1 DEF ReadingOrder
      <3>2. views[r].read = 0
        BY <1>2, <2>1
      <3>3. events = <<>> /\ linked = {} /\ a # None
        BY <1>2, <1>4, <3>1, <3>2, StoreAssumptions DEF ViewFits
      <3>4. IsPrefixOf(events, journal[a]) /\ linked \subseteq LinkedTo(a)
        BY <1>4, <3>1, <3>3 DEF ViewFits
      <3> HIDE DEF row, events, linked
      <3>5. ViewFits(a, 1, row, events, linked)
        BY <3>1, <3>3, <3>4 DEF ViewFits
      <3>6. QED
        BY <1>5, <1>6, <2>1, <3>1, <3>5
    <2>2. CASE read = 2
      <3>1. row = views[r].row /\ events = journal[a] /\ linked = views[r].evidence
        BY <2>2 DEF ReadingOrder
      <3>2. views[r].read = 1
        BY <1>2, <2>2
      <3>3. ASSUME row # None, row.status = "finalized"
            PROVE  ShowsFinal(events, row)
        <4>1. attempts[a] = row /\ Finalized(a)
          BY <1>4, <3>1, <3>3 DEF ViewFits, Finalized
        <4>2. QED
          BY <1>2, <3>1, <4>1 DEF ShowsFinal, StoreInv, FinalIsShown, CompletedIsVerified
      <3> HIDE DEF row, events, linked
      <3>4. QED
        BY <1>2, <1>4, <1>5, <1>6, <1>7, <2>2, <3>1, <3>2, <3>3 DEF ViewFits
    <2>3. CASE read = 3
      <3>1. row = views[r].row /\ events = views[r].events /\ linked = LinkedTo(a)
        BY <2>3 DEF ReadingOrder
      <3>2. views[r].read = 2
        BY <1>2, <2>3
      <3>3. ASSUME row # None, row.status = "finalized"
            PROVE  EvidenceOf(row) \subseteq linked
        <4>1. attempts[a] = row /\ Finalized(a)
          BY <1>4, <3>1, <3>3 DEF ViewFits, Finalized
        <4>2. \A id \in EvidenceOf(row) : evidence[id] = a
          BY <1>2, <4>1 DEF StoreInv, FinalizationIsAtomic
        <4>3. EvidenceOf(row) \subseteq Runs
          BY <1>5, <3>1, <3>3, EvidenceOfType
        <4>4. QED
          BY <3>1, <4>2, <4>3 DEF LinkedTo
      <3> HIDE DEF row, events, linked
      <3>4. QED
        BY <1>2, <1>4, <1>5, <1>6, <2>3, <3>1, <3>2, <3>3 DEF ViewFits
    <2>4. QED
      BY <1>2, <2>1, <2>2, <2>3
  <1> HIDE DEF row, events, linked
  <1>9. /\ views' \in [Readers -> Views]
        /\ views'[r].attempt = a /\ views'[r].read = read
        /\ views'[r].row = row /\ views'[r].events = events
        /\ views'[r].evidence = linked
        /\ \A q \in Readers : q # r => views'[q] = views[q]
    <2>1. read \in 0 .. 3
      BY <1>2
    <2> HIDE DEF read
    <2>2. QED
      BY <1>1, <1>3, <1>8, <2>1, ViewReads
  <1>10. ASSUME NEW q \in Readers
         PROVE  ViewFits(views[q].attempt, views[q].read, views[q].row, views[q].events,
                         views[q].evidence)'
    <2>1. CASE q = r
      BY <1>2, <1>8, <1>9, <2>1 DEF ViewFits, storeVars, LinkedTo
    <2>2. CASE q # r
      BY <1>2, <1>9, <2>2 DEF ViewsFit, ViewFits, storeVars, LinkedTo
    <2>3. QED
      BY <2>1, <2>2
  <1>11. QED
    BY <1>9, <1>10 DEF ViewsFit

LEMMA ReaderStep ==
  StoreInv /\ ViewsFit /\ [ReaderNext]_readerVars => StoreInv' /\ ViewsFit'
  <1> SUFFICES ASSUME StoreInv, ViewsFit, [ReaderNext]_readerVars
               PROVE  StoreInv' /\ ViewsFit'
    OBVIOUS
  <1>1. CASE [StoreNext]_storeVars /\ UNCHANGED views
    <2>1. ASSUME NEW r \in Readers
          PROVE  ViewFits(views[r].attempt, views[r].read, views[r].row, views[r].events,
                          views[r].evidence)'
      <3>1. views'[r] = views[r] /\ views[r] \in Views
        BY <1>1 DEF ViewsFit
      <3>2. /\ views[r].attempt \in Attempts \cup {None} /\ views[r].read \in 0 .. 3
            /\ views[r].row \in AttemptRecords \cup {None}
            /\ views[r].events \in Seq(TraceEvents) /\ views[r].evidence \in SUBSET Runs
        BY <3>1 DEF Views
      <3>3. ViewFits(views[r].attempt, views[r].read, views[r].row, views[r].events,
                     views[r].evidence)
        BY DEF ViewsFit
      <3>4. QED
        BY <1>1, <3>1, <3>2, <3>3, ViewStays
    <2>2. QED
      BY <1>1, <2>1, StoreInvStep DEF ViewsFit
  <1>2. ASSUME UNCHANGED storeVars
        PROVE  StoreInv'
    BY <1>2, StoreInvStep
  <1>3. CASE \E r \in Readers, a \in Attempts : Show(r, a)
    BY <1>2, <1>3, ShowFits DEF Show
  <1>4. CASE \E r \in Readers : Read(r)
    BY <1>2, <1>4, ReadFits DEF Read
  <1>5. CASE \E r \in Readers : NotFound(r)
    BY <1>2, <1>5, ShowFits DEF NotFound
  <1>6. QED
    BY <1>1, <1>3, <1>4, <1>5 DEF ReaderNext, readerVars

LEMMA ReaderInitFits == ReaderInit => StoreInv /\ ViewsFit
  <1> SUFFICES ASSUME ReaderInit PROVE StoreInv /\ ViewsFit
    OBVIOUS
  <1>1. StoreInv
    BY StoreInvInit DEF ReaderInit
  <1>2. Nothing(None) \in Views
    BY DEF Nothing, Views
  <1>3. \A r \in Readers : views[r] = Nothing(None)
    BY DEF ReaderInit
  <1>4. ViewFits(None, 0, None, <<>>, {})
    BY DEF ViewFits
  <1>5. QED
    BY <1>1, <1>2, <1>3, <1>4 DEF ReaderInit, ViewsFit, Nothing

\* Whatever is written between its reads, what a reader shows as final is proved
\* by what it shows, and nothing it shows is taken back.
THEOREM ViewsStayFaithful == ReaderSpec => []ViewsAreFaithful
  <1>1. ASSUME StoreInv, ViewsFit, NEW r \in Readers
        PROVE  /\ Shown(r) /\ views[r].row.status = "finalized" =>
                    /\ ShowsFinal(views[r].events, views[r].row)
                    /\ EvidenceOf(views[r].row) \subseteq views[r].evidence
               /\ views[r].attempt # None =>
                    /\ IsPrefixOf(views[r].events, journal[views[r].attempt])
                    /\ views[r].evidence \subseteq LinkedTo(views[r].attempt)
                    /\ views[r].row # None =>
                         /\ attempts[views[r].attempt] # None
                         /\ SameEnvelope(views[r].attempt, views[r].row.identity,
                                         views[r].row.environment,
                                         attempts[views[r].attempt].plan)
                         /\ views[r].row.status = "finalized" =>
                              attempts[views[r].attempt] = views[r].row
    <2>1. ViewFits(views[r].attempt, views[r].read, views[r].row, views[r].events,
                   views[r].evidence)
      BY <1>1 DEF ViewsFit
    <2>2. Shown(r) => views[r].read = 3 /\ views[r].row # None
      BY DEF Shown, ReadingOrder
    <2>3. views[r].attempt \in Attempts \cup {None}
      BY <1>1 DEF ViewsFit, Views
    <2>4. ASSUME NEW a \in Attempts, attempts[a] # None
          PROVE  attempts[a].plan = Sanitized(attempts[a].plan)
      BY <1>1, <2>4 DEF StoreInv, StoredPlansAreRedacted, Sanitized
    <2>5. QED
      BY <2>1, <2>2, <2>3, <2>4 DEF ViewFits, SameEnvelope
  <1>2. StoreInv /\ ViewsFit => ViewsAreFaithful
    BY <1>1 DEF ViewsAreFaithful, FinalViewIsProved, ViewStaysTrue, ShowsFinal, LinkedTo
  <1>3. QED
    BY <1>2, ReaderInitFits, ReaderStep, PTL DEF ReaderSpec
=============================================================================
