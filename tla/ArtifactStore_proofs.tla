------------------------ MODULE ArtifactStore_proofs ------------------------
(***************************************************************************)
(* Proofs about ArtifactStore, for all payloads, threads, processes,       *)
(* quotas and failures.                                                    *)
(***************************************************************************)
EXTENDS ArtifactStore, FiniteSetTheorems, TLAPS

-----------------------------------------------------------------------------
(* The inductive invariant: beside what FilesAreSound says, a put that goes  *)
(* on has a payload that passed the checks, and what replaces the payload is *)
(* whole.                                                                    *)

PutsAreSound ==
  \A t \in Threads :
    /\ puts[t].pc \notin {"idle", "raised"} =>
         puts[t].payload \in Payloads /\ Fits(puts[t].payload)
    /\ puts[t].pc = "replacing" => puts[t].temp = SizeOf[puts[t].payload]
    /\ puts[t].pc = "writing" => puts[t].temp = 0

Inv == FilesAreSound /\ PutsAreSound

Points == Inside \cup {"idle", "waiting", "verifying", "stored", "raised"}

\* The call of t at another point with another temporary file.
CallAt(t, pc, temp) ==
  [pc |-> pc, payload |-> puts[t].payload, temp |-> temp, calls |-> puts[t].calls]

\* What replacing a field of a call leaves.
LEMMA OnePoint ==
  ASSUME NEW A, NEW B, NEW C, NEW D,
         NEW r \in [pc : A, payload : B, temp : C, calls : D], NEW x \in A
  PROVE  [r EXCEPT !.pc = x] =
           [pc |-> x, payload |-> r.payload, temp |-> r.temp, calls |-> r.calls]
  OBVIOUS

LEMMA OneTemporary ==
  ASSUME NEW A, NEW B, NEW C, NEW D,
         NEW r \in [pc : A, payload : B, temp : C, calls : D], NEW y \in C
  PROVE  [r EXCEPT !.temp = y] =
           [pc |-> r.pc, payload |-> r.payload, temp |-> y, calls |-> r.calls]
  OBVIOUS

LEMMA BothFields ==
  ASSUME NEW r \in Calls, NEW x \in Points, NEW y \in Nat \cup {None}
  PROVE  [[r EXCEPT !.pc = x] EXCEPT !.temp = y] =
           [pc |-> x, payload |-> r.payload, temp |-> y, calls |-> r.calls]
  <1> DEFINE s == [pc |-> x, payload |-> r.payload, temp |-> r.temp, calls |-> r.calls]
  <1>1. /\ s \in Calls
        /\ s.pc = x /\ s.payload = r.payload /\ s.calls = r.calls
    BY DEF Calls, Points
  <1>2. [r EXCEPT !.pc = x] = s
    BY OnePoint DEF Calls, Points
  <1> HIDE DEF s
  <1>3. [s EXCEPT !.temp = y] =
          [pc |-> s.pc, payload |-> s.payload, temp |-> y, calls |-> s.calls]
    BY <1>1, OneTemporary DEF Calls
  <1>4. [[r EXCEPT !.pc = x] EXCEPT !.temp = y] = [s EXCEPT !.temp = y]
    BY <1>2, Zenon
  <1>5. QED
    BY <1>1, <1>3, <1>4

\* What the steps assign to the call of a thread is a call.
LEMMA Moved ==
  ASSUME ArtifactTypeOK, NEW t \in Threads, NEW pc \in Points, NEW temp \in Nat \cup {None},
         puts' = [puts EXCEPT ![t].pc = pc, ![t].temp = temp]
  PROVE  /\ CallAt(t, pc, temp) \in Calls
         /\ puts' = [puts EXCEPT ![t] = CallAt(t, pc, temp)]
         /\ puts' \in [Threads -> Calls]
  <1>1. puts[t] \in Calls
    BY DEF ArtifactTypeOK
  <1>2. CallAt(t, pc, temp) \in Calls
    BY <1>1 DEF Calls, CallAt, Points
  <1>3. [[puts[t] EXCEPT !.pc = pc] EXCEPT !.temp = temp] = CallAt(t, pc, temp)
    BY <1>1, BothFields, Zenon DEF CallAt
  <1>4. puts' = [puts EXCEPT ![t] = CallAt(t, pc, temp)]
    BY <1>3 DEF ArtifactTypeOK
  <1>5. QED
    BY <1>2, <1>4 DEF ArtifactTypeOK

\* A put that moves on without touching the lock stays inside, or outside.
LEMMA GoingOn ==
  ASSUME Inv, NEW t \in Threads, NEW call \in Calls,
         puts' = [puts EXCEPT ![t] = call],
         call.payload = puts[t].payload,
         call.temp # None <=> call.pc \in {"writing", "replacing", "cleaning"},
         call.pc \in Inside <=> puts[t].pc \in Inside,
         puts[t].pc \notin {"idle", "raised"},
         call.pc = "replacing" => call.temp = SizeOf[call.payload],
         call.pc = "writing" => call.temp = 0,
         leaked' = leaked, lock' = lock, files' = files
  PROVE  Inv'
  <1>1. ArtifactTypeOK'
    BY DEF Inv, FilesAreSound, ArtifactTypeOK, Held
  <1>2. StoredIsWhole'
    BY DEF Inv, FilesAreSound, StoredIsWhole, Present
  <1>3. PutsAreSound'
    BY DEF Inv, FilesAreSound, ArtifactTypeOK, PutsAreSound
  <1>4. QED
    BY <1>1, <1>2, <1>3 DEF Inv, FilesAreSound

\* A put that leaves releases the lock of its process and nobody else's.
LEMMA Leaving ==
  ASSUME Inv, NEW t \in Threads, puts[t].pc \in Inside,
         NEW pc \in {"stored", "raised", "verifying"}, Leave(t, pc),
         leaked' \in Nat, files' = files
  PROVE  Inv'
  <1>1. /\ puts' = [puts EXCEPT ![t] = [puts[t] EXCEPT !.pc = pc, !.temp = None]]
        /\ lock' = [lock EXCEPT ![ProcessOf[t]] = None]
        /\ ProcessOf[t] \in Processes
    BY DEF Leave, Processes, Inv, FilesAreSound, ArtifactTypeOK
  <1>2. puts' \in [Threads -> Calls] /\ lock' \in [Processes -> Threads \cup {None}]
    BY <1>1 DEF Inv, FilesAreSound, ArtifactTypeOK, Calls
  <1>3. ASSUME NEW u \in Threads
        PROVE  /\ puts'[u].temp # None <=> puts'[u].pc \in {"writing", "replacing", "cleaning"}
               /\ puts'[u].pc \in Inside <=> Held(u)'
    <2>1. ProcessOf[u] \in Processes /\ None \notin Threads
      BY ArtifactAssumptions DEF Processes
    <2>2. CASE u = t
      BY <1>1, <2>1, <2>2 DEF Held, Inside, Inv, FilesAreSound, ArtifactTypeOK, Calls
    <2>3. CASE u # t
      BY <1>1, <2>1, <2>3 DEF Held, Inv, FilesAreSound, ArtifactTypeOK
    <2>4. QED
      BY <2>2, <2>3
  <1>4. ArtifactTypeOK'
    BY <1>2, <1>3 DEF Inv, FilesAreSound, ArtifactTypeOK
  <1>5. StoredIsWhole'
    BY DEF Inv, FilesAreSound, StoredIsWhole, Present
  <1>6. PutsAreSound'
    BY <1>1 DEF Inv, FilesAreSound, ArtifactTypeOK, PutsAreSound, Calls, Inside
  <1>7. QED
    BY <1>4, <1>5, <1>6 DEF Inv, FilesAreSound

-----------------------------------------------------------------------------
LEMMA InitSound == Init => Inv
  <1> SUFFICES ASSUME Init PROVE Inv
    OBVIOUS
  <1>1. ArtifactTypeOK
    BY ArtifactAssumptions
       DEF Init, ArtifactTypeOK, NoCall, Calls, Inside, Held, Processes
  <1>2. StoredIsWhole /\ PutsAreSound
    BY DEF Init, StoredIsWhole, Present, PutsAreSound, NoCall
  <1>3. QED
    BY <1>1, <1>2 DEF Inv, FilesAreSound

\* Every step of a put, every call, failure and crash keeps the invariant.
LEMMA StepSound == Inv /\ [Next]_vars => Inv'
  <1> SUFFICES ASSUME Inv, [Next]_vars PROVE Inv'
    OBVIOUS
  <1> USE DEF Inv, FilesAreSound
  <1>1. ASSUME NEW t \in Threads, NEW b \in Payloads, Call(t, b)
        PROVE  Inv'
    <2>1. puts' \in [Threads -> Calls]
      BY <1>1 DEF Call, ArtifactTypeOK, Calls
    <2>2. ArtifactTypeOK'
      BY <1>1, <2>1, ArtifactAssumptions
         DEF Call, ArtifactTypeOK, Calls, Inside, Held, Processes
    <2>3. StoredIsWhole'
      BY <1>1 DEF Call, StoredIsWhole, Present
    <2>4. PutsAreSound'
      BY <1>1 DEF Call, ArtifactTypeOK, PutsAreSound
    <2>5. QED
      BY <2>2, <2>3, <2>4
  <1>2. ASSUME NEW t \in Threads, Lock(t)
        PROVE  Inv'
    <2>1. /\ puts' = [puts EXCEPT ![t].pc = "looking"]
          /\ lock' = [lock EXCEPT ![ProcessOf[t]] = t]
          /\ lock' \in [Processes -> Threads \cup {None}]
      BY <1>2 DEF Lock, GoTo, ArtifactTypeOK
    <2> puts' \in [Threads -> Calls]
      <3>1. [puts[t] EXCEPT !.pc = "looking"] \in Calls
        BY DEF ArtifactTypeOK, Calls, Inside
      <3>2. QED
        BY <2>1, <3>1 DEF ArtifactTypeOK
    <2>2. ASSUME NEW u \in Threads
          PROVE  puts'[u].pc \in Inside <=> Held(u)'
      BY <1>2, <2>1, ArtifactAssumptions
         DEF Lock, At, ArtifactTypeOK, Inside, Held, Processes, Calls
    <2>3. ArtifactTypeOK'
      BY <1>2, <2>1, <2>2 DEF Lock, At, ArtifactTypeOK, Calls
    <2>4. StoredIsWhole'
      BY <1>2 DEF Lock, StoredIsWhole, Present
    <2>5. PutsAreSound'
      BY <1>2, <2>1 DEF Lock, At, ArtifactTypeOK, PutsAreSound, Calls
    <2>6. QED
      BY <2>3, <2>4, <2>5
  <1>3. ASSUME NEW t \in Threads, Look(t)
        PROVE  Inv'
    <2>1. CASE GoTo(t, "counting") /\ UNCHANGED lock
      <3>1. [puts[t] EXCEPT !.pc = "counting"] \in Calls
        BY DEF ArtifactTypeOK, Calls, Inside
      <3>2. puts' = [puts EXCEPT ![t] = [puts[t] EXCEPT !.pc = "counting"]]
        BY <2>1 DEF GoTo
      <3>3. QED
        BY <1>3, <2>1, <3>1, <3>2, GoingOn
           DEF Look, At, ArtifactTypeOK, Calls, Inside
    <2>2. ASSUME NEW pc \in {"stored", "raised", "verifying"}, Leave(t, pc)
          PROVE  Inv'
      BY <1>3, <2>2, Leaving DEF Look, At, ArtifactTypeOK, Inside
    <2>3. Verified(t) \in {"stored", "raised", "verifying"}
      BY DEF Verified
    <2>4. QED
      BY <1>3, <2>1, <2>2, <2>3 DEF Look
  <1>4. ASSUME NEW t \in Threads, Count(t)
        PROVE  Inv'
    <2>1. CASE Leave(t, "raised")
      BY <1>4, <2>1, Leaving DEF Count, At, ArtifactTypeOK, Inside
    <2>2. CASE GoTo(t, "creating") /\ UNCHANGED lock
      <3>1. [puts[t] EXCEPT !.pc = "creating"] \in Calls
        BY DEF ArtifactTypeOK, Calls, Inside
      <3>2. QED
        BY <1>4, <2>2, <3>1, GoingOn
           DEF Count, GoTo, At, ArtifactTypeOK, Calls, Inside
    <2>3. QED
      BY <1>4, <2>1, <2>2 DEF Count
  <1>5. ASSUME NEW t \in Threads, Create(t)
        PROVE  Inv'
    <2>1. CASE Leave(t, "raised")
      BY <1>5, <2>1, Leaving DEF Create, At, ArtifactTypeOK, Inside
    <2>2. CASE /\ puts' = [puts EXCEPT ![t].pc = "writing", ![t].temp = 0]
               /\ UNCHANGED lock
      <3>1. /\ CallAt(t, "writing", 0) \in Calls
            /\ puts' = [puts EXCEPT ![t] = CallAt(t, "writing", 0)]
        BY <2>2, Moved DEF Points, Inside
      <3>2. 0 # None
        BY ArtifactAssumptions
      <3>3. QED
        BY <1>5, <2>2, <3>1, <3>2, GoingOn DEF Create, At, CallAt, Inside
    <2>3. QED
      BY <1>5, <2>1, <2>2 DEF Create
  <1>6. ASSUME NEW t \in Threads, Write(t)
        PROVE  Inv'
    <2>1. /\ puts[t].pc = "writing"
          /\ puts[t].payload \in Payloads
          /\ SizeOf[puts[t].payload] \in Nat
      BY <1>6, ArtifactAssumptions DEF Write, At, PutsAreSound
    <2>2. PICK pc \in {"replacing", "cleaning"}, n \in Nat :
            /\ puts' = [puts EXCEPT ![t].pc = pc, ![t].temp = n]
            /\ pc = "replacing" => n = SizeOf[puts[t].payload]
      BY <1>6, <2>1 DEF Write
    <2>3. /\ CallAt(t, pc, n) \in Calls
          /\ puts' = [puts EXCEPT ![t] = CallAt(t, pc, n)]
      BY <2>2, Moved DEF Points, Inside
    <2>4. n # None
      BY ArtifactAssumptions
    <2>5. QED
      BY <1>6, <2>1, <2>2, <2>3, <2>4, GoingOn DEF Write, CallAt, Inside
  <1>7. ASSUME NEW t \in Threads, Replace(t)
        PROVE  Inv'
    <2>1. CASE GoTo(t, "cleaning") /\ UNCHANGED files
      <3>1. [puts[t] EXCEPT !.pc = "cleaning"] \in Calls
        BY DEF ArtifactTypeOK, Calls, Inside
      <3>2. QED
        BY <1>7, <2>1, <3>1, GoingOn
           DEF Replace, GoTo, At, ArtifactTypeOK, Calls, Inside
    <2>2. CASE /\ files' = [files EXCEPT ![puts[t].payload] = puts[t].temp]
               /\ puts' = [puts EXCEPT ![t].pc = "syncing", ![t].temp = None]
      <3>1. /\ puts[t].payload \in Payloads /\ Fits(puts[t].payload)
            /\ puts[t].temp = SizeOf[puts[t].payload]
            /\ puts[t].temp \in Nat
        BY <1>7, ArtifactAssumptions DEF Replace, At, PutsAreSound
      <3>2. /\ puts' \in [Threads -> Calls]
            /\ files' \in [Payloads -> Nat \cup {None}]
        BY <2>2, <3>1, Moved DEF ArtifactTypeOK, Points, Inside
      <3>3. ArtifactTypeOK'
        BY <1>7, <2>2, <3>2
           DEF Replace, At, ArtifactTypeOK, Calls, Inside, Held
      <3>4. StoredIsWhole'
        BY <2>2, <3>1 DEF ArtifactTypeOK, StoredIsWhole, Present, Fits
      <3>5. PutsAreSound'
        BY <1>7, <2>2, <3>1 DEF ArtifactTypeOK, PutsAreSound, Calls, Fits
      <3>6. QED
        BY <3>3, <3>4, <3>5
    <2>3. QED
      BY <1>7, <2>1, <2>2 DEF Replace
  <1>8. ASSUME NEW t \in Threads, Sync(t)
        PROVE  Inv'
    BY <1>8, Leaving DEF Sync, At, ArtifactTypeOK, Inside
  <1>9. ASSUME NEW t \in Threads, CleanUp(t)
        PROVE  Inv'
    <2>1. leaked' \in Nat
      BY <1>9 DEF CleanUp, At, ArtifactTypeOK, Calls
    <2>2. QED
      BY <1>9, <2>1, Leaving DEF CleanUp, At, Inside
  <1>10. ASSUME NEW t \in Threads, Verify(t)
         PROVE  Inv'
    <2>1. PICK pc \in {"stored", "raised"} : puts' = [puts EXCEPT ![t].pc = pc]
      BY <1>10 DEF Verify, GoTo, Verified
    <2>2. [puts[t] EXCEPT !.pc = pc] \in Calls
      BY DEF ArtifactTypeOK, Calls, Inside
    <2>3. QED
      BY <1>10, <2>1, <2>2, GoingOn
         DEF Verify, At, ArtifactTypeOK, Calls, Inside
  <1>11. ASSUME NEW p \in Processes, Crash(p)
         PROVE  Inv'
    <2>1. leaked' \in Nat
      BY <1>11 DEF Crash, Unfinished, ArtifactTypeOK, Calls
    <2>2. /\ puts' \in [Threads -> Calls]
          /\ lock' \in [Processes -> Threads \cup {None}]
      BY <1>11 DEF Crash, NoCall, ArtifactTypeOK, Calls
    <2>3. ASSUME NEW t \in Threads
          PROVE  /\ puts'[t].temp # None <=>
                      puts'[t].pc \in {"writing", "replacing", "cleaning"}
                 /\ puts'[t].pc \in Inside <=> Held(t)'
      <3>1. ProcessOf[t] \in Processes /\ None \notin Threads
        BY ArtifactAssumptions DEF Processes
      <3>2. QED
        BY <1>11, <3>1 DEF Crash, NoCall, ArtifactTypeOK, Calls, Inside, Held
    <2>4. ArtifactTypeOK'
      BY <1>11, <2>1, <2>2, <2>3 DEF Crash, ArtifactTypeOK
    <2>5. StoredIsWhole'
      BY <1>11 DEF Crash, StoredIsWhole, Present
    <2>6. PutsAreSound'
      BY <1>11 DEF Crash, NoCall, PutsAreSound
    <2>7. QED
      BY <2>4, <2>5, <2>6
  <1>12. CASE UNCHANGED vars
    BY <1>12 DEF vars, ArtifactTypeOK, Held, StoredIsWhole, Present, PutsAreSound
  <1>13. QED
    BY <1>1, <1>2, <1>3, <1>4, <1>5, <1>6, <1>7, <1>8, <1>9, <1>10, <1>11, <1>12
       DEF Next, Step

\* Whatever fails or stops, no payload is torn, and every temporary file and
\* every lock belongs to the put that will remove or release it.
THEOREM FilesStaySound == Spec => []FilesAreSound
  <1>1. Spec => []Inv
    BY InitSound, StepSound, PTL DEF Spec
  <1>2. Inv => FilesAreSound
    BY DEF Inv
  <1>3. QED
    BY <1>1, <1>2, PTL

-----------------------------------------------------------------------------
(* The refinement of BlobPromise.                                            *)

\* A put that is not answered tells nobody anything.
LEMMA NothingTold ==
  ASSUME ArtifactTypeOK, NEW t \in Threads, NEW call,
         puts' = [puts EXCEPT ![t] = call],
         puts[t].pc # "stored", call.pc # "stored"
  PROVE  LastTold' = LastTold
  BY DEF ArtifactTypeOK, LastTold

LEMMA MovedUntold ==
  ASSUME ArtifactTypeOK, NEW t \in Threads, NEW pc \in Points, pc # "stored",
         NEW temp \in Nat \cup {None}, puts[t].pc # "stored",
         puts' = [puts EXCEPT ![t].pc = pc, ![t].temp = temp]
  PROVE  LastTold' = LastTold
  <1>1. /\ CallAt(t, pc, temp) \in Calls
        /\ puts' = [puts EXCEPT ![t] = CallAt(t, pc, temp)]
    BY Moved, Zenon
  <1>2. CallAt(t, pc, temp).pc = pc
    BY DEF CallAt
  <1>3. QED
    BY <1>1, <1>2, NothingTold

\* An answered put tells its thread that the payload is stored.
LEMMA Answered ==
  ASSUME Inv, NEW t \in Threads, NEW call, puts' = [puts EXCEPT ![t] = call],
         puts[t].pc \notin {"idle", "raised"},
         call.pc = "stored", call.payload = puts[t].payload,
         files[call.payload] = SizeOf[call.payload], files' = files
  PROVE  Promise!Next
  <1>1. puts[t].payload \in Readable /\ Fits(puts[t].payload)
    BY DEF Inv, PutsAreSound, Readable
  <1>2. LastTold' = [LastTold EXCEPT ![t] = puts[t].payload]
    BY DEF Inv, FilesAreSound, ArtifactTypeOK, LastTold
  <1>3. Promise!Tell(t, puts[t].payload)
    BY <1>1, <1>2 DEF Promise!Tell, Readable
  <1>4. QED
    BY <1>1, <1>3 DEF Promise!Next, Readable

\* Calling and dying forget, replacing keeps, answering tells, and every other
\* step is invisible.
LEMMA PromiseStep ==
  Inv /\ [Next]_vars => [Promise!Next]_<<Readable, LastTold>>
  <1> SUFFICES ASSUME Inv, [Next]_vars
               PROVE  Promise!Next \/ UNCHANGED <<Readable, LastTold>>
    OBVIOUS
  <1> USE DEF Inv, FilesAreSound
  <1>1. ASSUME NEW t \in Threads, NEW b \in Payloads, Call(t, b)
        PROVE  Promise!Next
    <2>1. Promise!Forget({t})
      BY <1>1 DEF Call, ArtifactTypeOK, Promise!Forget, Readable, LastTold
    <2>2. QED
      BY <2>1 DEF Promise!Next
  <1>2. ASSUME NEW t \in Threads, NEW pc \in Points \ {"stored"}, Leave(t, pc),
               puts[t].pc \in Inside
        PROVE  LastTold' = LastTold
    BY <1>2, MovedUntold DEF Leave, Inside
  <1>3. ASSUME NEW t \in Threads, NEW pc \in Points \ {"stored"}, GoTo(t, pc),
               puts[t].pc # "stored"
        PROVE  LastTold' = LastTold
    <2>1. [puts[t] EXCEPT !.pc = pc].pc = pc
      BY DEF ArtifactTypeOK, Calls
    <2>2. QED
      BY <1>3, <2>1, NothingTold DEF GoTo
  <1>4. ASSUME NEW t \in Threads, Lock(t)
        PROVE  UNCHANGED <<Readable, LastTold>>
    BY <1>3, <1>4 DEF Lock, At, Points, Inside, Readable
  <1>5. ASSUME NEW t \in Threads, Look(t)
        PROVE  Promise!Next \/ UNCHANGED <<Readable, LastTold>>
    <2>1. CASE GoTo(t, "counting")
      BY <1>3, <1>5, <2>1 DEF Look, At, Points, Inside, Readable
    <2>2. CASE Leave(t, "raised")
      BY <1>2, <1>5, <2>2 DEF Look, At, Points, Inside, Readable
    <2>3. CASE Leave(t, "stored") /\ Verified(t) = "stored"
      <3>1. /\ ArtifactTypeOK /\ "stored" \in Points /\ None \in Nat \cup {None}
            /\ puts' = [puts EXCEPT ![t].pc = "stored", ![t].temp = None]
        BY <2>3 DEF Leave, Points
      <3>2. files[puts[t].payload] = SizeOf[puts[t].payload]
        BY <2>3 DEF Verified
      <3>3. /\ CallAt(t, "stored", None) \in Calls
            /\ puts' = [puts EXCEPT ![t] = CallAt(t, "stored", None)]
        BY <3>1, Moved, Zenon
      <3>4. QED
        BY <1>5, <3>2, <3>3, Answered DEF Look, At, CallAt
    <2>4. QED
      BY <1>5, <2>1, <2>2, <2>3 DEF Look, Verified
  <1>6. ASSUME NEW t \in Threads, Count(t)
        PROVE  UNCHANGED <<Readable, LastTold>>
    <2>1. GoTo(t, "creating") \/ Leave(t, "raised")
      BY <1>6 DEF Count
    <2>2. QED
      BY <1>2, <1>3, <1>6, <2>1 DEF Count, At, Points, Inside, Readable
  <1>7. ASSUME NEW t \in Threads, Create(t)
        PROVE  UNCHANGED <<Readable, LastTold>>
    <2>1. CASE Leave(t, "raised")
      BY <1>2, <1>7, <2>1 DEF Create, At, Points, Inside, Readable
    <2>2. CASE puts' = [puts EXCEPT ![t].pc = "writing", ![t].temp = 0]
      <3>1. LastTold' = LastTold
        BY <1>7, <2>2, MovedUntold DEF Create, At, Points, Inside
      <3>2. QED
        BY <1>7, <3>1 DEF Create, Readable
    <2>3. QED
      BY <1>7, <2>1, <2>2 DEF Create
  <1>8. ASSUME NEW t \in Threads, Write(t)
        PROVE  UNCHANGED <<Readable, LastTold>>
    <2>1. SizeOf[puts[t].payload] \in Nat
      BY <1>8, ArtifactAssumptions DEF Write, At, PutsAreSound
    <2>2. PICK pc \in {"replacing", "cleaning"}, n \in Nat :
            puts' = [puts EXCEPT ![t].pc = pc, ![t].temp = n]
      BY <1>8, <2>1 DEF Write
    <2>3. LastTold' = LastTold
      BY <1>8, <2>2, MovedUntold DEF Write, At, Points, Inside
    <2>4. QED
      BY <1>8, <2>3 DEF Write, Readable
  <1>9. ASSUME NEW t \in Threads, Replace(t)
        PROVE  Promise!Next \/ UNCHANGED <<Readable, LastTold>>
    <2>1. CASE GoTo(t, "cleaning") /\ UNCHANGED files
      BY <1>3, <1>9, <2>1 DEF Replace, At, Points, Inside, Readable
    <2>2. CASE /\ files' = [files EXCEPT ![puts[t].payload] = puts[t].temp]
               /\ puts' = [puts EXCEPT ![t].pc = "syncing", ![t].temp = None]
      <3>1. /\ puts[t].payload \in Payloads /\ Fits(puts[t].payload)
            /\ puts[t].temp = SizeOf[puts[t].payload]
        BY <1>9 DEF Replace, At, PutsAreSound
      <3>2. LastTold' = LastTold
        BY <1>9, <2>2, MovedUntold DEF Replace, At, Points, Inside
      <3>3. Readable' = Readable \cup {puts[t].payload}
        BY <2>2, <3>1 DEF ArtifactTypeOK, Readable
      <3>4. Promise!Keep(puts[t].payload)
        BY <3>2, <3>3 DEF Promise!Keep
      <3>5. QED
        BY <3>1, <3>4 DEF Promise!Next
    <2>3. QED
      BY <1>9, <2>1, <2>2 DEF Replace
  <1>10. ASSUME NEW t \in Threads, Sync(t)
         PROVE  UNCHANGED <<Readable, LastTold>>
    BY <1>2, <1>10 DEF Sync, At, Points, Inside, Readable
  <1>11. ASSUME NEW t \in Threads, CleanUp(t)
         PROVE  UNCHANGED <<Readable, LastTold>>
    BY <1>2, <1>11 DEF CleanUp, At, Points, Inside, Readable
  <1>12. ASSUME NEW t \in Threads, Verify(t)
         PROVE  Promise!Next \/ UNCHANGED <<Readable, LastTold>>
    <2>1. CASE GoTo(t, "raised")
      BY <1>3, <1>12, <2>1 DEF Verify, At, Points, Inside, Readable
    <2>2. CASE GoTo(t, "stored") /\ Verified(t) = "stored"
      <3>1. files[puts[t].payload] = SizeOf[puts[t].payload]
        BY <2>2 DEF Verified
      <3>2. /\ [puts[t] EXCEPT !.pc = "stored"].pc = "stored"
            /\ [puts[t] EXCEPT !.pc = "stored"].payload = puts[t].payload
        BY DEF ArtifactTypeOK, Calls
      <3>3. QED
        BY <1>12, <2>2, <3>1, <3>2, Answered DEF Verify, GoTo, At
    <2>3. QED
      BY <1>12, <2>1, <2>2 DEF Verify, Verified
  <1>13. ASSUME NEW p \in Processes, Crash(p)
         PROVE  Promise!Next
    <2>1. Promise!Forget({t \in Threads : ProcessOf[t] = p})
      BY <1>13 DEF Crash, NoCall, ArtifactTypeOK, Promise!Forget, Readable, LastTold
    <2>2. QED
      BY <2>1 DEF Promise!Next
  <1>14. CASE UNCHANGED vars
    BY <1>14 DEF vars, Readable, LastTold
  <1>15. QED
    BY <1>1, <1>4, <1>5, <1>6, <1>7, <1>8, <1>9, <1>10, <1>11, <1>12, <1>13, <1>14
       DEF Next, Step

\* The store implements BlobPromise: what a put has answered stays readable,
\* whatever fails or stops afterwards.
THEOREM StoreKeepsPromise == Spec => PromiseKept
  <1>1. Init => Promise!Init
    BY ArtifactAssumptions DEF Init, NoCall, Promise!Init, Readable, LastTold
  <1>2. Spec => []Inv
    BY InitSound, StepSound, PTL DEF Spec
  <1>3. QED
    BY <1>1, <1>2, PromiseStep, PTL DEF Spec, PromiseKept, Promise!Spec

-----------------------------------------------------------------------------
(* Sums over finite sets.                                                  *)

\* The element SumFunctionOnSet takes first.
First(S) == CHOOSE x \in S : TRUE

\* g holds the sum of f over every subset of U.
Totals(f, U, g) ==
  g = [S \in SUBSET U |-> IF S = {} THEN 0 ELSE f[First(S)] + g[S \ {First(S)}]]

LEMMA SumIsTotal ==
  ASSUME NEW f, NEW U
  PROVE  SumFunctionOnSet(f, U) = (CHOOSE g : Totals(f, U, g))[U]
  BY DEF SumFunctionOnSet, FoldFunctionOnSet, MapThenFoldSet, Totals, First

\* Of the subsets of a finite set that have a property one has no part that has
\* it: the induction all lemmas on sums are proved by.
LEMMA SmallestSet ==
  ASSUME NEW U, IsFiniteSet(U), NEW Q, Q \subseteq SUBSET U, Q # {}
  PROVE  \E S \in Q : \A T \in Q : T \subseteq S => T = S
  <1>1. IsWellFoundedOn(StrictSubsetOrdering(U), SUBSET U)
    BY FS_StrictSubsetOrderingWellFounded, FS_FiniteSubsetsOfFinite
  <1>2. \E S \in Q : \A T \in Q : ~ (<<T, S>> \in StrictSubsetOrdering(U))
    BY <1>1, WFMin
  <1>3. QED
    BY <1>2 DEF StrictSubsetOrdering

LEMMA FirstIsIn ==
  ASSUME NEW S, S # {}
  PROVE  First(S) \in S
  BY DEF First

\* Totals over two finite sets agree on what both have.
LEMMA TotalsAgree ==
  ASSUME NEW f, NEW U, NEW V, IsFiniteSet(V), V \subseteq U,
         NEW g, Totals(f, U, g), NEW h, Totals(f, V, h)
  PROVE  \A S \in SUBSET V : g[S] = h[S]
  <1> DEFINE Bad == {S \in SUBSET V : g[S] # h[S]}
  <1> SUFFICES ASSUME Bad # {} PROVE FALSE
    OBVIOUS
  <1>1. PICK S \in Bad : \A T \in Bad : T \subseteq S => T = S
    <2>1. Bad \subseteq SUBSET V
      OBVIOUS
    <2> HIDE DEF Bad
    <2>2. QED
      BY <2>1, SmallestSet
  <1>2. \A T \in SUBSET V : T \subseteq S /\ T # S => g[T] = h[T]
    BY <1>1
  <1>3. g[S] = IF S = {} THEN 0 ELSE f[First(S)] + g[S \ {First(S)}]
    BY <1>1, S \in SUBSET U DEF Totals
  <1>4. h[S] = IF S = {} THEN 0 ELSE f[First(S)] + h[S \ {First(S)}]
    BY <1>1 DEF Totals
  <1>5. S # {} => g[S \ {First(S)}] = h[S \ {First(S)}]
    BY <1>1, <1>2, FirstIsIn
  <1>6. QED
    BY <1>1, <1>3, <1>4, <1>5

LEMMA TotalsExist ==
  ASSUME NEW f, NEW U, IsFiniteSet(U)
  PROVE  \E g : Totals(f, U, g)
  <1> DEFINE Bad == {V \in SUBSET U : ~ \E g : Totals(f, V, g)}
  <1> SUFFICES ASSUME Bad # {} PROVE FALSE
    OBVIOUS
  <1>1. PICK V \in Bad : \A T \in Bad : T \subseteq V => T = V
    <2>1. Bad \subseteq SUBSET U
      OBVIOUS
    <2> HIDE DEF Bad
    <2>2. QED
      BY <2>1, SmallestSet
  <1> DEFINE Rest(S) == S \ {First(S)}
             Part == [S \in SUBSET V |-> CHOOSE g : Totals(f, S, g)]
             h == [S \in SUBSET V |->
                     IF S = {} THEN 0 ELSE f[First(S)] + Part[Rest(S)][Rest(S)]]
  <1>2. ASSUME NEW S \in SUBSET V, S # {}
        PROVE  Rest(S) \in SUBSET V /\ Rest(S) # V /\ Rest(S) \subseteq S
    BY <1>2, FirstIsIn
  <1>3. ASSUME NEW T \in SUBSET V, T # V
        PROVE  Totals(f, T, Part[T])
    <2>1. \E g : Totals(f, T, g)
      BY <1>1, <1>3
    <2>2. Totals(f, T, CHOOSE g : Totals(f, T, g))
      BY <2>1, Zenon
    <2>3. Part[T] = CHOOSE g : Totals(f, T, g)
      OBVIOUS
    <2>4. QED
      BY <2>2, <2>3, Zenon
  <1>4. ASSUME NEW T \in SUBSET V, T # V
        PROVE  h[T] = Part[T][T]
    <2>1. Part[T][T] = IF T = {} THEN 0 ELSE f[First(T)] + Part[T][Rest(T)]
      <3> HIDE DEF Part, h
      <3> QED BY <1>3, <1>4 DEF Totals
    <2>2. CASE T = {}
      <3>1. h[T] = 0
        BY <2>2
      <3> HIDE DEF Part, h
      <3>2. QED
        BY <2>1, <2>2, <3>1
    <2>3. CASE T # {}
      <3>1. h[T] = f[First(T)] + Part[Rest(T)][Rest(T)]
        <4> HIDE DEF Part, Rest
        <4> QED BY <2>3
      <3>2. /\ Rest(T) \in SUBSET V /\ Rest(T) # V /\ Rest(T) \subseteq T
        BY <1>2, <2>3
      <3>3. Totals(f, T, Part[T]) /\ Totals(f, Rest(T), Part[Rest(T)])
        BY <1>3, <1>4, <3>2
      <3>4. IsFiniteSet(Rest(T))
        BY <3>2, FS_Subset, V \subseteq U
      <3>5. Part[T][Rest(T)] = Part[Rest(T)][Rest(T)]
        <4> HIDE DEF Part, Rest, h
        <4>1. ASSUME NEW R, R = Rest(T), NEW p, p = Part[T], NEW r, r = Part[R]
              PROVE  p[R] = r[R]
          <5>1. Totals(f, T, p) /\ Totals(f, R, r) /\ IsFiniteSet(R) /\ R \subseteq T
            BY <3>2, <3>3, <3>4, <4>1
          <5>2. \A S \in SUBSET R : p[S] = r[S]
            BY <5>1, TotalsAgree
          <5>3. QED
            BY <5>2
        <4>2. QED
          BY <4>1
      <3> HIDE DEF Part, Rest, h
      <3>6. QED
        BY <2>1, <2>3, <3>1, <3>5
    <2>4. QED
      BY <2>2, <2>3
  <1>5. ASSUME NEW S \in SUBSET V
        PROVE  h[S] = IF S = {} THEN 0 ELSE f[First(S)] + h[Rest(S)]
    <2>1. CASE S = {}
      BY <2>1
    <2>2. CASE S # {}
      <3>1. h[S] = f[First(S)] + Part[Rest(S)][Rest(S)]
        <4> HIDE DEF Part, Rest
        <4> QED BY <2>2
      <3>2. h[Rest(S)] = Part[Rest(S)][Rest(S)]
        <4>1. Rest(S) \in SUBSET V /\ Rest(S) # V
          BY <1>2, <2>2
        <4> HIDE DEF Part, Rest, h
        <4>2. QED
          BY <4>1, <1>4
      <3> HIDE DEF Part, Rest, h
      <3>3. QED
        BY <2>2, <3>1, <3>2
    <2>3. QED
      BY <2>1, <2>2
  <1>6. h = [S \in SUBSET V |-> h[S]]
    OBVIOUS
  <1>7. h = [S \in SUBSET V |-> IF S = {} THEN 0 ELSE f[First(S)] + h[S \ {First(S)}]]
    <2> HIDE DEF h
    <2> QED BY <1>5, <1>6
  <1>8. Totals(f, V, h)
    <2> HIDE DEF h
    <2> QED BY <1>7 DEF Totals
  <1>9. QED
    BY <1>1, <1>8

LEMMA SumUnfolds ==
  ASSUME NEW f, NEW U, IsFiniteSet(U)
  PROVE  SumFunctionOnSet(f, U) =
           IF U = {} THEN 0 ELSE f[First(U)] + SumFunctionOnSet(f, U \ {First(U)})
  <1>1. PICK V : V = U \ {First(U)}
    OBVIOUS
  <1>2. IsFiniteSet(V) /\ V \subseteq U
    BY <1>1, FS_Subset
  <1>3. PICK g : g = CHOOSE totals : Totals(f, U, totals)
    OBVIOUS
  <1>4. PICK h : h = CHOOSE totals : Totals(f, V, totals)
    OBVIOUS
  <1>5. Totals(f, U, g) /\ Totals(f, V, h) /\ IsFiniteSet(V) /\ V \subseteq U
    BY <1>2, <1>3, <1>4, TotalsExist, Zenon
  <1>6. g[V] = h[V]
    <2>1. \A S \in SUBSET V : g[S] = h[S]
      BY <1>5, TotalsAgree
    <2>2. QED
      BY <2>1
  <1>7. g[U] = IF U = {} THEN 0 ELSE f[First(U)] + g[V]
    BY <1>1, <1>5 DEF Totals
  <1>8. SumFunctionOnSet(f, U) = g[U] /\ SumFunctionOnSet(f, V) = h[V]
    BY <1>3, <1>4, SumIsTotal
  <1>9. QED
    BY <1>1, <1>6, <1>7, <1>8

LEMMA SumOfNone ==
  ASSUME NEW f
  PROVE  SumFunctionOnSet(f, {}) = 0
  BY SumUnfolds, FS_EmptySet

LEMMA SumIsNat ==
  ASSUME NEW f, NEW U, IsFiniteSet(U), \A x \in U : f[x] \in Nat
  PROVE  SumFunctionOnSet(f, U) \in Nat
  <1> DEFINE Bad == {S \in SUBSET U : SumFunctionOnSet(f, S) \notin Nat}
  <1> SUFFICES ASSUME Bad # {} PROVE FALSE
    OBVIOUS
  <1>1. PICK S \in Bad : \A T \in Bad : T \subseteq S => T = S
    <2>1. Bad \subseteq SUBSET U
      OBVIOUS
    <2> HIDE DEF Bad
    <2>2. QED
      BY <2>1, SmallestSet
  <1>2. S # {}
    <2>1. SumFunctionOnSet(f, {}) \in Nat
      BY SumOfNone
    <2>2. SumFunctionOnSet(f, S) \notin Nat
      BY <1>1
    <2>3. QED
      BY <2>1, <2>2
  <1>3. First(S) \in S /\ f[First(S)] \in Nat
    BY <1>1, <1>2, FirstIsIn
  <1>4. SumFunctionOnSet(f, S \ {First(S)}) \in Nat
    BY <1>1, <1>3
  <1>5. IsFiniteSet(S)
    BY <1>1, FS_Subset
  <1>6. SumFunctionOnSet(f, S) = f[First(S)] + SumFunctionOnSet(f, S \ {First(S)})
    BY <1>2, <1>5, SumUnfolds
  <1>7. SumFunctionOnSet(f, S) \in Nat
    BY <1>3, <1>4, <1>6
  <1>8. QED
    BY <1>1, <1>7

\* Any element may be taken first.
LEMMA SumRemoves ==
  ASSUME NEW f, NEW U, IsFiniteSet(U), \A x \in U : f[x] \in Nat, NEW x \in U
  PROVE  SumFunctionOnSet(f, U) = f[x] + SumFunctionOnSet(f, U \ {x})
  <1> DEFINE Splits(S) ==
               \A y \in S : SumFunctionOnSet(f, S) = f[y] + SumFunctionOnSet(f, S \ {y})
             Bad == {S \in SUBSET U : ~ Splits(S)}
  <1> SUFFICES ASSUME Bad # {} PROVE FALSE
    OBVIOUS
  <1>1. PICK S \in Bad : \A T \in Bad : T \subseteq S => T = S
    <2>1. Bad \subseteq SUBSET U
      OBVIOUS
    <2> HIDE DEF Bad
    <2>2. QED
      BY <2>1, SmallestSet
  <1>2. PICK y \in S : SumFunctionOnSet(f, S) # f[y] + SumFunctionOnSet(f, S \ {y})
    BY <1>1
  <1>3. ASSUME NEW T \in SUBSET S, T # S, NEW z \in T
        PROVE  SumFunctionOnSet(f, T) = f[z] + SumFunctionOnSet(f, T \ {z})
    BY <1>1, <1>3
  <1>4. PICK z : z = First(S)
    OBVIOUS
  <1>5. z \in S
    BY <1>2, <1>4, FirstIsIn
  <1>6. IsFiniteSet(S) /\ S \subseteq U
    BY <1>1, FS_Subset
  <1>7. SumFunctionOnSet(f, S) = f[z] + SumFunctionOnSet(f, S \ {z})
    BY <1>4, <1>5, <1>6, SumUnfolds
  <1>8. y # z
    BY <1>2, <1>7
  <1>9. SumFunctionOnSet(f, S \ {z}) = f[y] + SumFunctionOnSet(f, (S \ {z}) \ {y})
    BY <1>3, <1>5, <1>8
  <1>10. SumFunctionOnSet(f, S \ {y}) = f[z] + SumFunctionOnSet(f, (S \ {y}) \ {z})
    BY <1>3, <1>5, <1>8
  <1>11. (S \ {z}) \ {y} = (S \ {y}) \ {z}
    OBVIOUS
  <1>12. PICK rest : rest = SumFunctionOnSet(f, (S \ {y}) \ {z})
    OBVIOUS
  <1>13. rest \in Nat
    <2>1. IsFiniteSet((S \ {y}) \ {z})
      BY <1>6, FS_Subset
    <2>2. QED
      BY <1>6, <1>12, <2>1, SumIsNat
  <1>14. f[y] \in Nat /\ f[z] \in Nat
    BY <1>5, <1>6
  <1>15. SumFunctionOnSet(f, S) = f[z] + (f[y] + rest)
    BY <1>7, <1>9, <1>11, <1>12
  <1>16. f[y] + SumFunctionOnSet(f, S \ {y}) = f[y] + (f[z] + rest)
    BY <1>10, <1>12
  <1>17. f[z] + (f[y] + rest) = f[y] + (f[z] + rest)
    BY <1>13, <1>14
  <1>18. QED
    BY <1>2, <1>15, <1>16, <1>17

\* A sum is at most another when each of its terms is at most a term of its own
\* in the other.
LEMMA SumAlong ==
  ASSUME NEW f, NEW S, IsFiniteSet(S), \A x \in S : f[x] \in Nat,
         NEW g, NEW T, IsFiniteSet(T), \A y \in T : g[y] \in Nat,
         NEW m, \A x \in S : m[x] \in T /\ f[x] <= g[m[x]],
         \A x, y \in S : m[x] = m[y] => x = y
  PROVE  SumFunctionOnSet(f, S) <= SumFunctionOnSet(g, T)
  <1> DEFINE Below(V) ==
               \A W \in SUBSET T :
                 (\A x \in V : m[x] \in W) =>
                   SumFunctionOnSet(f, V) <= SumFunctionOnSet(g, W)
             Bad == {V \in SUBSET S : ~ Below(V)}
  <1> SUFFICES ASSUME Bad # {} PROVE FALSE
    OBVIOUS
  <1>1. PICK V \in Bad : \A R \in Bad : R \subseteq V => R = V
    <2>1. Bad \subseteq SUBSET S
      OBVIOUS
    <2> HIDE DEF Bad
    <2>2. QED
      BY <2>1, SmallestSet
  <1>2. PICK W \in SUBSET T : /\ \A x \in V : m[x] \in W
                              /\ ~ (SumFunctionOnSet(f, V) <= SumFunctionOnSet(g, W))
    BY <1>1
  <1>3. V \subseteq S /\ IsFiniteSet(V) /\ IsFiniteSet(W)
    BY <1>1, FS_Subset
  <1>4. SumFunctionOnSet(g, W) \in Nat
    BY <1>3, SumIsNat
  <1>5. V # {}
    BY <1>2, <1>4, SumOfNone
  <1>6. PICK x \in V : TRUE
    BY <1>5
  <1>7. PICK y : y = m[x] /\ y \in W
    BY <1>2
  <1>8. SumFunctionOnSet(f, V) = f[x] + SumFunctionOnSet(f, V \ {x})
    BY <1>3, SumRemoves
  <1>9. SumFunctionOnSet(g, W) = g[y] + SumFunctionOnSet(g, W \ {y})
    BY <1>3, <1>7, SumRemoves
  <1>10. SumFunctionOnSet(f, V \ {x}) <= SumFunctionOnSet(g, W \ {y})
    <2>1. V \ {x} \notin Bad
      BY <1>1
    <2>2. Below(V \ {x})
      BY <1>3, <2>1
    <2>3. \A z \in V \ {x} : m[z] \in W \ {y}
      BY <1>2, <1>3, <1>7
    <2>4. QED
      BY <2>2, <2>3
  <1>11. /\ SumFunctionOnSet(f, V \ {x}) \in Nat
         /\ SumFunctionOnSet(g, W \ {y}) \in Nat
    <2>1. IsFiniteSet(V \ {x}) /\ IsFiniteSet(W \ {y})
      BY <1>3, FS_Subset
    <2>2. QED
      BY <1>3, <2>1, SumIsNat
  <1>12. f[x] \in Nat /\ g[y] \in Nat /\ f[x] <= g[y]
    BY <1>3, <1>7
  <1>13. QED
    BY <1>2, <1>8, <1>9, <1>10, <1>11, <1>12

\* The identity as such a correspondence.
LEMMA SumsAgree ==
  ASSUME NEW f, NEW g, NEW S, IsFiniteSet(S),
         \A x \in S : f[x] \in Nat /\ g[x] = f[x]
  PROVE  SumFunctionOnSet(f, S) = SumFunctionOnSet(g, S)
  <1>1. PICK m : m = [x \in S |-> x]
    OBVIOUS
  <1>2. /\ \A x \in S : m[x] \in S /\ f[x] <= g[m[x]] /\ g[x] <= f[m[x]]
        /\ \A x \in S : f[x] \in Nat /\ g[x] \in Nat
        /\ \A x, y \in S : m[x] = m[y] => x = y
    BY <1>1
  <1>3. SumFunctionOnSet(f, S) <= SumFunctionOnSet(g, S)
    BY <1>2, SumAlong
  <1>4. SumFunctionOnSet(g, S) <= SumFunctionOnSet(f, S)
    BY <1>2, SumAlong
  <1>5. SumFunctionOnSet(f, S) \in Nat /\ SumFunctionOnSet(g, S) \in Nat
    BY <1>2, SumIsNat
  <1>6. QED
    BY <1>3, <1>4, <1>5

LEMMA SumIsLimited ==
  ASSUME NEW f, NEW U, IsFiniteSet(U), NEW M \in Nat,
         \A x \in U : f[x] \in Nat /\ f[x] <= M
  PROVE  SumFunctionOnSet(f, U) <= Cardinality(U) * M
  <1> DEFINE Bad == {S \in SUBSET U : ~ (SumFunctionOnSet(f, S) <= Cardinality(S) * M)}
  <1> SUFFICES ASSUME Bad # {} PROVE FALSE
    OBVIOUS
  <1>1. PICK S \in Bad : \A T \in Bad : T \subseteq S => T = S
    <2>1. Bad \subseteq SUBSET U
      OBVIOUS
    <2> HIDE DEF Bad
    <2>2. QED
      BY <2>1, SmallestSet
  <1>2. S # {}
    <2>1. SumFunctionOnSet(f, {}) = 0 /\ Cardinality({}) = 0
      BY SumOfNone, FS_EmptySet
    <2>2. 0 <= 0 * M
      OBVIOUS
    <2>3. QED
      BY <1>1, <2>1, <2>2
  <1>3. PICK x \in S : TRUE
    BY <1>2
  <1>4. S \subseteq U /\ IsFiniteSet(S)
    BY <1>1, FS_Subset
  <1>5. PICK T : T = S \ {x}
    OBVIOUS
  <1>6. IsFiniteSet(T) /\ T \subseteq U
    BY <1>4, <1>5, FS_Subset
  <1>7. SumFunctionOnSet(f, T) <= Cardinality(T) * M
    BY <1>1, <1>3, <1>5, <1>6
  <1>8. SumFunctionOnSet(f, S) = f[x] + SumFunctionOnSet(f, T)
    BY <1>4, <1>5, SumRemoves
  <1>9. PICK n \in Nat : Cardinality(T) = n /\ Cardinality(S) = n + 1
    BY <1>3, <1>4, <1>5, <1>6, FS_RemoveElement, FS_CardinalityType
  <1>10. SumFunctionOnSet(f, T) \in Nat /\ f[x] \in Nat /\ f[x] <= M
    BY <1>4, <1>6, SumIsNat
  <1>11. (n + 1) * M = n * M + M /\ n * M \in Nat
    OBVIOUS
  <1>12. SumFunctionOnSet(f, S) <= Cardinality(S) * M
    BY <1>7, <1>8, <1>9, <1>10, <1>11
  <1>13. QED
    BY <1>1, <1>12

\* A sum changes by as much as the one term that changes.
LEMMA SumChanges ==
  ASSUME NEW U, IsFiniteSet(U), NEW f \in [U -> Nat], NEW g \in [U -> Nat],
         NEW x \in U, \A y \in U \ {x} : g[y] = f[y]
  PROVE  \E rest \in Nat : /\ SumFunctionOnSet(f, U) = f[x] + rest
                           /\ SumFunctionOnSet(g, U) = g[x] + rest
                           /\ rest = SumFunctionOnSet(f, U \ {x})
  <1>1. IsFiniteSet(U \ {x})
    BY FS_Subset
  <1>2. SumFunctionOnSet(f, U \ {x}) = SumFunctionOnSet(g, U \ {x})
    BY <1>1, SumsAgree
  <1>3. SumFunctionOnSet(f, U \ {x}) \in Nat
    BY <1>1, SumIsNat
  <1>4. /\ SumFunctionOnSet(f, U) = f[x] + SumFunctionOnSet(f, U \ {x})
        /\ SumFunctionOnSet(g, U) = g[x] + SumFunctionOnSet(g, U \ {x})
    BY SumRemoves
  <1>5. QED
    BY <1>2, <1>3, <1>4

-----------------------------------------------------------------------------
(* The quota.                                                                *)

\* What a put that the scan let pass adds to the directory, or has added with
\* its temporary file.
Claim(t) ==
  IF puts[t].pc \in {"creating", "writing"} THEN SizeOf[puts[t].payload]
  ELSE IF puts[t].temp # None THEN puts[t].temp ELSE 0

\* The claim of a process is that of the thread that holds its lock.
ClaimOf(p) == IF lock[p] = None THEN 0 ELSE Claim(lock[p])

Claims == [p \in Processes |-> ClaimOf(p)]

Claimed == SumFunctionOnSet(Claims, Processes)

\* The bytes of the payloads in place.
Stored == SumFunctionOnSet([b \in Present |-> files[b]], Present)

Limit == MaxTotal + (Cardinality(Processes) - 1) * MaxBlob

\* Locks are held by threads of their process, and a temporary file that has to
\* be removed is a part of its payload.
LocksInv == \A p \in Processes : lock[p] # None => ProcessOf[lock[p]] = p

CleaningInv ==
  \A t \in Threads : puts[t].pc = "cleaning" => puts[t].temp <= SizeOf[puts[t].payload]

\* What is in the directory and what is claimed beside it are within the limit:
\* a scan that lets a put pass has counted all but the claims of the other
\* processes, and no later step adds to the sum.
QuotaInv ==
  /\ Inv
  /\ IsFiniteSet(Present)
  /\ LocksInv
  /\ CleaningInv
  /\ Stored + leaked + Claimed <= Limit

ClaimsInv ==
  \A p \in Processes : ClaimOf(p) \in Nat /\ ClaimOf(p) <= MaxBlob

LEMMA ClaimsAreLimited == Inv /\ LocksInv /\ CleaningInv => ClaimsInv
  <1> SUFFICES ASSUME Inv, LocksInv, CleaningInv, NEW p \in Processes
               PROVE  ClaimOf(p) \in Nat /\ ClaimOf(p) <= MaxBlob
    BY DEF ClaimsInv
  <1>1. CASE lock[p] = None
    BY <1>1, ArtifactAssumptions DEF ClaimOf
  <1>2. CASE lock[p] # None
    <2>1. PICK t \in Threads : lock[p] = t
      BY <1>2 DEF Inv, FilesAreSound, ArtifactTypeOK
    <2>2. Held(t) /\ ClaimOf(p) = Claim(t)
      BY <1>2, <2>1 DEF LocksInv, Held, ClaimOf
    <2>3. /\ puts[t].pc \in Inside
          /\ puts[t].temp \in Nat \cup {None}
          /\ puts[t].temp # None <=> puts[t].pc \in {"writing", "replacing", "cleaning"}
      BY <2>2 DEF Inv, FilesAreSound, ArtifactTypeOK, Calls
    <2>4. /\ puts[t].payload \in Payloads
          /\ SizeOf[puts[t].payload] \in Nat
          /\ SizeOf[puts[t].payload] <= MaxBlob
      BY <2>3, ArtifactAssumptions DEF Inv, PutsAreSound, Inside, Fits
    <2>5. /\ puts[t].pc = "replacing" => puts[t].temp = SizeOf[puts[t].payload]
          /\ puts[t].pc = "cleaning" => puts[t].temp <= SizeOf[puts[t].payload]
      BY DEF Inv, PutsAreSound, CleaningInv
    <2>6. Claim(t) \in Nat /\ Claim(t) <= MaxBlob
      BY <2>3, <2>4, <2>5, ArtifactAssumptions DEF Claim
    <2>7. QED
      BY <2>2, <2>6
  <1>3. QED
    BY <1>1, <1>2

LEMMA StoredIsNat == Inv /\ IsFiniteSet(Present) => Stored \in Nat
  <1> SUFFICES ASSUME Inv, IsFiniteSet(Present) PROVE Stored \in Nat
    OBVIOUS
  <1>1. \A b \in Present : [c \in Present |-> files[c]][b] \in Nat
    BY DEF Inv, FilesAreSound, ArtifactTypeOK, Present
  <1>2. QED
    BY <1>1, SumIsNat DEF Stored

\* The files of a directory are its payloads, the temporary files that are
\* counted, and what is leaked; every temporary file is claimed.
LEMMA OccupiedIsClaimed ==
  ASSUME Inv, IsFiniteSet(Present), LocksInv, CleaningInv, IsFiniteSet(Processes)
  PROVE  /\ IsFiniteSet(Temporaries)
         /\ \A T \in SUBSET Temporaries :
              \E n \in Nat : BytesOf(Present, T) = Stored + n + leaked
         /\ Occupied <= Stored + Claimed + leaked
  <1>1. PICK m : m = [t \in Temporaries |-> ProcessOf[t]]
    OBVIOUS
  <1>2. ASSUME NEW t \in Temporaries
        PROVE  /\ puts[t].temp \in Nat
               /\ m[t] \in Processes
               /\ lock[m[t]] = t
               /\ puts[t].temp <= Claims[m[t]]
    <2>1. t \in Threads /\ puts[t].temp \in Nat
      BY DEF Temporaries, Inv, FilesAreSound, ArtifactTypeOK, Calls
    <2>2. m[t] = ProcessOf[t] /\ m[t] \in Processes
      BY <1>1, <2>1 DEF Processes
    <2>3. puts[t].pc \in {"writing", "replacing", "cleaning"} /\ Held(t)
      BY <2>1 DEF Temporaries, Inv, FilesAreSound, ArtifactTypeOK, Inside
    <2>4. Claims[m[t]] = Claim(t) /\ lock[m[t]] = t
      BY <2>1, <2>2, <2>3, ArtifactAssumptions DEF Claims, ClaimOf, Held
    <2>5. puts[t].payload \in Payloads /\ SizeOf[puts[t].payload] \in Nat
      BY <2>1, <2>3, ArtifactAssumptions DEF Inv, PutsAreSound
    <2>6. CASE puts[t].pc = "writing"
      <3>1. puts[t].temp = 0
        BY <2>1, <2>6 DEF Inv, PutsAreSound
      <3>2. QED
        BY <2>1, <2>2, <2>4, <2>5, <2>6, <3>1 DEF Claim
    <2>7. CASE puts[t].pc # "writing"
      BY <2>1, <2>2, <2>3, <2>4, <2>7 DEF Claim, Temporaries
    <2>8. QED
      BY <2>6, <2>7
  <1>3. IsFiniteSet(Temporaries)
    <2>1. m \in Injection(Temporaries, Processes)
      BY <1>1, <1>2 DEF Injection, IsInjective
    <2>2. QED
      BY <2>1, FS_Injection
  <1>4. ASSUME NEW T \in SUBSET Temporaries
        PROVE  SumFunctionOnSet([t \in T |-> puts[t].temp], T) \in Nat
    <2>1. IsFiniteSet(T)
      BY <1>3, FS_Subset
    <2>2. \A t \in T : [u \in T |-> puts[u].temp][t] \in Nat
      BY <1>2
    <2>3. QED
      BY <2>1, <2>2, SumIsNat
  <1>5. ASSUME NEW T \in SUBSET Temporaries
        PROVE  \E n \in Nat : BytesOf(Present, T) = Stored + n + leaked
    BY <1>4 DEF BytesOf, Stored
  <1>6. SumFunctionOnSet([t \in Temporaries |-> puts[t].temp], Temporaries) <= Claimed
    <2>1. PICK f : f = [t \in Temporaries |-> puts[t].temp]
      OBVIOUS
    <2>2. \A t \in Temporaries : f[t] \in Nat /\ m[t] \in Processes /\ f[t] <= Claims[m[t]]
      BY <1>2, <2>1
    <2>3. \A p \in Processes : Claims[p] \in Nat
      BY ClaimsAreLimited DEF ClaimsInv, Claims
    <2>4. \A t, u \in Temporaries : m[t] = m[u] => t = u
      <3> SUFFICES ASSUME NEW t \in Temporaries, NEW u \in Temporaries, m[t] = m[u]
                   PROVE  t = u
        OBVIOUS
      <3>1. lock[m[t]] = t /\ lock[m[u]] = u
        BY <1>2
      <3>2. QED
        BY <3>1
    <2>5. SumFunctionOnSet(f, Temporaries) <= SumFunctionOnSet(Claims, Processes)
      BY <1>3, <2>2, <2>3, <2>4, SumAlong
    <2>6. QED
      BY <2>1, <2>5 DEF Claimed
  <1>7. Occupied <= Stored + Claimed + leaked
    <2>1. PICK n \in Nat : n = SumFunctionOnSet([t \in Temporaries |-> puts[t].temp], Temporaries)
      BY <1>4
    <2>2. Occupied = Stored + n + leaked
      BY <2>1 DEF Occupied, BytesOf, Stored
    <2>3. Stored \in Nat /\ leaked \in Nat
      BY StoredIsNat DEF Inv, FilesAreSound, ArtifactTypeOK
    <2>4. Claimed \in Nat
      <3>1. \A p \in Processes : Claims[p] \in Nat
        BY ClaimsAreLimited DEF ClaimsInv, Claims
      <3>2. QED
        BY <3>1, SumIsNat DEF Claimed
    <2>5. QED
      BY <1>6, <2>1, <2>2, <2>3, <2>4
  <1>8. QED
    BY <1>3, <1>5, <1>7

LEMMA ClaimsAreLimitedNext == (Inv /\ LocksInv /\ CleaningInv)' => ClaimsInv'
  BY ClaimsAreLimited, PTL

LEMMA StoredIsNatNext == (Inv /\ IsFiniteSet(Present))' => (Stored \in Nat)'
  BY StoredIsNat, PTL

\* What a step of one process leaves alone, and what it adds up to.
MovesOnly(q) ==
  /\ \A p \in Processes \ {q} : lock'[p] = lock[p]
  /\ \A t \in Threads : ProcessOf[t] # q => puts'[t] = puts[t]

Adds(q) == Stored' + leaked' + ClaimOf(q)' <= Stored + leaked + ClaimOf(q)

\* The claims of the other processes are what they were.
LEMMA OthersClaim ==
  ASSUME QuotaInv, Inv', LocksInv', CleaningInv', IsFiniteSet(Processes),
         NEW q \in Processes, MovesOnly(q)
  PROVE  \E rest \in Nat :
           /\ Claimed = ClaimOf(q) + rest
           /\ Claimed' = ClaimOf(q)' + rest
           /\ rest <= (Cardinality(Processes) - 1) * MaxBlob
  <1>1. ASSUME NEW p \in Processes \ {q}
        PROVE  ClaimOf(p)' = ClaimOf(p)
    <2>1. lock'[p] = lock[p]
      BY DEF MovesOnly
    <2>2. CASE lock[p] = None
      BY <2>1, <2>2 DEF ClaimOf
    <2>3. CASE lock[p] # None
      <3>1. PICK t \in Threads : lock[p] = t
        BY <2>3 DEF QuotaInv, Inv, FilesAreSound, ArtifactTypeOK
      <3>2. ProcessOf[t] = p
        BY <2>3, <3>1 DEF QuotaInv, LocksInv
      <3>3. puts'[t] = puts[t]
        BY <3>2 DEF MovesOnly
      <3>4. Claim(t)' = Claim(t)
        BY <3>3 DEF Claim
      <3>5. QED
        BY <2>1, <2>3, <3>1, <3>4 DEF ClaimOf
    <2>4. QED
      BY <2>2, <2>3
  <1>2. \A p \in Processes : /\ ClaimOf(p) \in Nat /\ ClaimOf(p) <= MaxBlob
                             /\ ClaimOf(p)' \in Nat
    <2>1. ClaimsInv /\ ClaimsInv'
      BY ClaimsAreLimited, ClaimsAreLimitedNext DEF QuotaInv
    <2>2. QED
      BY <2>1 DEF ClaimsInv
  <1>3. PICK f : f = Claims
    OBVIOUS
  <1>4. PICK g : g = Claims'
    OBVIOUS
  <1>5. /\ f \in [Processes -> Nat] /\ g \in [Processes -> Nat]
        /\ \A p \in Processes : f[p] = ClaimOf(p) /\ g[p] = ClaimOf(p)'
    BY <1>2, <1>3, <1>4 DEF Claims
  <1>6. \A p \in Processes \ {q} : g[p] = f[p]
    BY <1>1, <1>5
  <1>7. PICK rest \in Nat : /\ SumFunctionOnSet(f, Processes) = f[q] + rest
                            /\ SumFunctionOnSet(g, Processes) = g[q] + rest
                            /\ rest = SumFunctionOnSet(f, Processes \ {q})
    BY <1>5, <1>6, SumChanges
  <1>8. PICK others : others = Processes \ {q}
    OBVIOUS
  <1>9. IsFiniteSet(others) /\ Cardinality(others) = Cardinality(Processes) - 1
    BY <1>8, FS_RemoveElement
  <1>10. rest <= Cardinality(others) * MaxBlob
    <2>1. \A p \in others : f[p] \in Nat /\ f[p] <= MaxBlob
      BY <1>2, <1>5, <1>8
    <2>2. MaxBlob \in Nat
      BY ArtifactAssumptions
    <2>3. QED
      BY <1>7, <1>8, <1>9, <2>1, <2>2, SumIsLimited
  <1>11. Claimed = SumFunctionOnSet(f, Processes) /\ Claimed' = SumFunctionOnSet(g, Processes)
    BY <1>3, <1>4 DEF Claimed
  <1>12. QED
    BY <1>5, <1>7, <1>9, <1>10, <1>11

LEMMA LimitIsInt ==
  ASSUME IsFiniteSet(Processes)
  PROVE  Limit \in Int /\ (Cardinality(Processes) - 1) * MaxBlob \in Int
  BY FS_CardinalityType, ArtifactAssumptions DEF Limit

\* A step that adds nothing stays within the limit.
LEMMA AddingNothing ==
  ASSUME QuotaInv, Inv', LocksInv', CleaningInv', IsFiniteSet(Present)',
         IsFiniteSet(Processes), NEW q \in Processes, MovesOnly(q), Adds(q)
  PROVE  Stored' + leaked' + Claimed' <= Limit
  <1>1. PICK rest \in Nat : Claimed = ClaimOf(q) + rest /\ Claimed' = ClaimOf(q)' + rest
    BY OthersClaim
  <1>2. /\ Stored \in Nat /\ leaked \in Nat /\ ClaimOf(q) \in Nat
        /\ Stored' \in Nat /\ leaked' \in Nat /\ ClaimOf(q)' \in Nat
    <2>1. Stored \in Nat /\ ClaimOf(q) \in Nat
      BY StoredIsNat, ClaimsAreLimited DEF QuotaInv, ClaimsInv
    <2>2. Stored' \in Nat
      BY StoredIsNatNext
    <2>3. ClaimOf(q)' \in Nat
      BY ClaimsAreLimitedNext DEF ClaimsInv
    <2>4. leaked \in Nat /\ leaked' \in Nat
      BY DEF QuotaInv, Inv, FilesAreSound, ArtifactTypeOK
    <2>5. QED
      BY <2>1, <2>2, <2>3, <2>4
  <1>3. Limit \in Int
    BY LimitIsInt
  <1>4. Stored + leaked + Claimed <= Limit
    BY DEF QuotaInv
  <1>5. Limit' = Limit
    BY DEF Limit
  <1>6. QED
    BY <1>1, <1>2, <1>3, <1>4 DEF Adds

\* What a step of process q keeps of the other parts of the invariant.
Keeps(q) == MovesOnly(q) /\ LocksInv' /\ CleaningInv' /\ IsFiniteSet(Present)'

LEMMA ThreadKeeps ==
  ASSUME QuotaInv, NEW t \in Threads, NEW call \in Calls,
         puts' = [puts EXCEPT ![t] = call],
         call.pc = "cleaning" => call.temp <= SizeOf[call.payload],
         NEW holder \in {None, t},
         lock' = lock \/ lock' = [lock EXCEPT ![ProcessOf[t]] = holder],
         IsFiniteSet(Present)'
  PROVE  Keeps(ProcessOf[t])
  <1>1. /\ puts \in [Threads -> Calls]
        /\ lock \in [Processes -> Threads \cup {None}]
        /\ ProcessOf[t] \in Processes
    BY DEF QuotaInv, Inv, FilesAreSound, ArtifactTypeOK, Processes
  <1>2. MovesOnly(ProcessOf[t])
    BY <1>1 DEF MovesOnly
  <1>3. LocksInv'
    BY <1>1 DEF QuotaInv, LocksInv
  <1>4. CleaningInv'
    BY <1>1 DEF QuotaInv, CleaningInv
  <1>5. QED
    BY <1>2, <1>3, <1>4 DEF Keeps

\* The claim of the process whose lock thread t holds.
LEMMA HolderClaims ==
  ASSUME NEW t \in Threads, lock[ProcessOf[t]] = t
  PROVE  ClaimOf(ProcessOf[t]) = Claim(t)
  BY ArtifactAssumptions DEF ClaimOf

LEMMA SameStored ==
  ASSUME files' = files
  PROVE  Stored' = Stored /\ Present' = Present
  BY DEF Stored, Present

\* A put that leaves gives up its claim.
LEMMA LeavingAdds ==
  ASSUME QuotaInv, NEW t \in Threads, puts[t].pc \in Inside,
         NEW pc \in {"stored", "raised", "verifying"}, Leave(t, pc),
         leaked' = leaked \/ leaked' = leaked + Claim(t), files' = files
  PROVE  Keeps(ProcessOf[t]) /\ Adds(ProcessOf[t])
  <1>1. ArtifactTypeOK /\ pc \in Points /\ None \in Nat \cup {None}
    BY DEF QuotaInv, Inv, FilesAreSound, Points
  <1>2. /\ CallAt(t, pc, None) \in Calls
        /\ puts' = [puts EXCEPT ![t] = CallAt(t, pc, None)]
    BY <1>1, Moved, Zenon DEF Leave
  <1>3. CallAt(t, pc, None).pc # "cleaning"
    BY DEF CallAt
  <1>4. lock' = [lock EXCEPT ![ProcessOf[t]] = None]
    BY DEF Leave
  <1>5. IsFiniteSet(Present)'
    BY SameStored DEF QuotaInv
  <1>6. Keeps(ProcessOf[t])
    BY <1>2, <1>3, <1>4, <1>5, ThreadKeeps
  <1>7. /\ lock[ProcessOf[t]] = t
        /\ ProcessOf[t] \in Processes
        /\ lock \in [Processes -> Threads \cup {None}]
    BY <1>1 DEF ArtifactTypeOK, Held, Processes
  <1>8. ClaimOf(ProcessOf[t]) = Claim(t) /\ ClaimOf(ProcessOf[t])' = 0
    BY <1>4, <1>7, HolderClaims DEF ClaimOf
  <1>9. Stored \in Nat /\ leaked \in Nat /\ Claim(t) \in Nat
    <2>1. Claim(t) \in Nat
      BY <1>7, <1>8, ClaimsAreLimited DEF QuotaInv, ClaimsInv
    <2>2. QED
      BY <1>1, <2>1, StoredIsNat DEF QuotaInv, ArtifactTypeOK
  <1>10. Adds(ProcessOf[t])
    BY <1>8, <1>9, SameStored DEF Adds
  <1>11. QED
    BY <1>6, <1>10

\* A put that goes on under its lock without a larger claim adds nothing.
LEMMA GoingOnAdds ==
  ASSUME QuotaInv, NEW t \in Threads, puts[t].pc \in Inside,
         NEW pc \in Points, NEW temp \in Nat \cup {None},
         puts' = [puts EXCEPT ![t] = CallAt(t, pc, temp)], CallAt(t, pc, temp) \in Calls,
         pc = "cleaning" => temp <= SizeOf[puts[t].payload],
         IF pc \in {"creating", "writing"} THEN SizeOf[puts[t].payload] <= Claim(t)
         ELSE temp # None => temp <= Claim(t),
         leaked' = leaked, files' = files, lock' = lock
  PROVE  Keeps(ProcessOf[t]) /\ Adds(ProcessOf[t])
  <1>1. /\ CallAt(t, pc, temp).pc = pc
        /\ CallAt(t, pc, temp).payload = puts[t].payload
        /\ CallAt(t, pc, temp).temp = temp
    BY DEF CallAt
  <1>2. ArtifactTypeOK
    BY DEF QuotaInv, Inv, FilesAreSound
  <1>3. Keeps(ProcessOf[t])
    <2>1. IsFiniteSet(Present)'
      BY SameStored DEF QuotaInv
    <2>2. QED
      BY <1>1, <2>1, ThreadKeeps
  <1>4. lock[ProcessOf[t]] = t /\ ProcessOf[t] \in Processes
    BY <1>2 DEF ArtifactTypeOK, Held, Processes
  <1>5. puts'[t] = CallAt(t, pc, temp)
    BY <1>2 DEF ArtifactTypeOK
  <1>6. Claim(t)' = IF pc \in {"creating", "writing"} THEN SizeOf[puts[t].payload]
                    ELSE IF temp # None THEN temp ELSE 0
    BY <1>1, <1>5 DEF Claim
  <1>7. ClaimOf(ProcessOf[t]) = Claim(t) /\ ClaimOf(ProcessOf[t])' = Claim(t)'
    BY <1>4, HolderClaims, ArtifactAssumptions DEF ClaimOf
  <1>8. Claim(t) \in Nat
    BY <1>4, <1>7, ClaimsAreLimited DEF QuotaInv, ClaimsInv
  <1>9. Stored \in Nat /\ leaked \in Nat
    BY <1>2, StoredIsNat DEF QuotaInv, ArtifactTypeOK
  <1>10. SizeOf[puts[t].payload] \in Nat
    <2>1. puts[t].payload \in Payloads
      BY DEF QuotaInv, Inv, PutsAreSound, Inside
    <2>2. QED
      BY <2>1, ArtifactAssumptions
  <1>11. Claim(t)' \in Nat /\ Claim(t)' <= Claim(t)
    BY <1>6, <1>8, <1>10, ArtifactAssumptions
  <1>12. Adds(ProcessOf[t])
    BY <1>7, <1>8, <1>9, <1>11, SameStored DEF Adds
  <1>13. QED
    BY <1>3, <1>12

\* A put outside the lock claims nothing.
LEMMA OutsideAdds ==
  ASSUME QuotaInv, NEW t \in Threads, puts[t].pc \notin Inside,
         NEW call \in Calls, puts' = [puts EXCEPT ![t] = call], call.pc # "cleaning",
         leaked' = leaked, files' = files,
         \/ lock' = lock
         \/ /\ lock[ProcessOf[t]] = None /\ lock' = [lock EXCEPT ![ProcessOf[t]] = t]
            /\ call.pc = "looking" /\ call.temp = None
  PROVE  Keeps(ProcessOf[t]) /\ Adds(ProcessOf[t])
  <1>1. ArtifactTypeOK
    BY DEF QuotaInv, Inv, FilesAreSound
  <1>2. Keeps(ProcessOf[t])
    <2>1. IsFiniteSet(Present)'
      BY SameStored DEF QuotaInv
    <2>2. QED
      BY <2>1, ThreadKeeps
  <1>3. /\ lock[ProcessOf[t]] # t /\ ProcessOf[t] \in Processes
        /\ lock \in [Processes -> Threads \cup {None}]
    BY <1>1 DEF ArtifactTypeOK, Held, Processes
  <1>4. puts'[t] = call /\ \A u \in Threads \ {t} : puts'[u] = puts[u]
    BY <1>1 DEF ArtifactTypeOK
  <1>5. ClaimOf(ProcessOf[t])' = ClaimOf(ProcessOf[t])
    <2>1. CASE lock' = lock
      <3>1. ASSUME NEW u \in Threads \ {t} PROVE Claim(u)' = Claim(u)
        BY <1>4 DEF Claim
      <3>2. QED
        BY <1>3, <2>1, <3>1 DEF ClaimOf
    <2>2. CASE /\ lock[ProcessOf[t]] = None /\ lock' = [lock EXCEPT ![ProcessOf[t]] = t]
               /\ call.pc = "looking" /\ call.temp = None
      <3>1. Claim(t)' = 0
        BY <1>4, <2>2 DEF Claim
      <3>2. lock'[ProcessOf[t]] = t /\ t # None
        BY <1>3, <2>2, ArtifactAssumptions
      <3>3. QED
        BY <2>2, <3>1, <3>2 DEF ClaimOf
    <2>3. QED
      BY <2>1, <2>2
  <1>6. Stored \in Nat /\ leaked \in Nat /\ ClaimOf(ProcessOf[t]) \in Nat
    BY <1>1, <1>3, StoredIsNat, ClaimsAreLimited DEF QuotaInv, ArtifactTypeOK, ClaimsInv
  <1>7. Adds(ProcessOf[t])
    BY <1>5, <1>6, SameStored DEF Adds
  <1>8. QED
    BY <1>2, <1>7

\* A put in place adds its payload, if it is not there yet, and claims no more.
LEMMA ReplacingAdds ==
  ASSUME QuotaInv, NEW t \in Threads, puts[t].pc = "replacing",
         files' = [files EXCEPT ![puts[t].payload] = puts[t].temp],
         puts' = [puts EXCEPT ![t].pc = "syncing", ![t].temp = None],
         leaked' = leaked, lock' = lock
  PROVE  Keeps(ProcessOf[t]) /\ Adds(ProcessOf[t])
  <1>1. /\ ArtifactTypeOK /\ "syncing" \in Points /\ None \in Nat \cup {None}
        /\ StoredIsWhole
    BY DEF QuotaInv, Inv, FilesAreSound, Points, Inside
  <1>2. /\ CallAt(t, "syncing", None) \in Calls
        /\ puts' = [puts EXCEPT ![t] = CallAt(t, "syncing", None)]
    BY <1>1, Moved, Zenon
  <1>3. /\ CallAt(t, "syncing", None).pc = "syncing"
        /\ CallAt(t, "syncing", None).temp = None
    BY DEF CallAt
  <1>4. PICK b \in Payloads : b = puts[t].payload
    BY DEF QuotaInv, Inv, PutsAreSound
  <1>5. PICK n \in Nat : n = puts[t].temp /\ n = SizeOf[b] /\ n # None
    BY <1>4, ArtifactAssumptions DEF QuotaInv, Inv, PutsAreSound
  <1>6. files' = [files EXCEPT ![b] = n] /\ files \in [Payloads -> Nat \cup {None}]
    BY <1>1, <1>4, <1>5 DEF ArtifactTypeOK
  <1>7. Present' = Present \cup {b}
    BY <1>5, <1>6 DEF Present
  <1>8. IsFiniteSet(Present')
    BY <1>7, FS_AddElement DEF QuotaInv
  <1>9. Keeps(ProcessOf[t])
    BY <1>2, <1>3, <1>8, ThreadKeeps
  <1>10. lock[ProcessOf[t]] = t /\ ProcessOf[t] \in Processes
    BY <1>1 DEF ArtifactTypeOK, Held, Inside, Processes
  <1>11. ClaimOf(ProcessOf[t]) = n
    <2>1. Claim(t) = n
      BY <1>5 DEF Claim
    <2>2. QED
      BY <1>10, <2>1, HolderClaims
  <1>12. ClaimOf(ProcessOf[t])' = 0
    <2>1. puts'[t] = CallAt(t, "syncing", None)
      BY <1>1, <1>2 DEF ArtifactTypeOK
    <2>2. Claim(t)' = 0
      BY <1>3, <2>1 DEF Claim
    <2>3. QED
      BY <1>10, <2>2, ArtifactAssumptions DEF ClaimOf
  <1>13. Stored \in Nat /\ leaked \in Nat
    BY <1>1, StoredIsNat DEF QuotaInv, ArtifactTypeOK
  <1>14. Stored' <= Stored + n
    <2>1. CASE b \in Present
      <3>1. files' = files
        BY <1>1, <1>5, <1>6, <2>1 DEF StoredIsWhole
      <3>2. QED
        BY <1>13, <3>1, SameStored
    <2>2. CASE b \notin Present
      <3>1. PICK f : f = [c \in Present |-> files[c]]
        OBVIOUS
      <3>2. PICK g : g = [c \in Present \cup {b} |-> files'[c]]
        OBVIOUS
      <3>3. /\ \A c \in Present : f[c] \in Nat /\ g[c] = f[c]
            /\ g[b] = n
            /\ \A c \in Present \cup {b} : g[c] \in Nat
        BY <1>6, <2>2, <3>1, <3>2 DEF Present
      <3>4. PICK V : V = Present \cup {b}
        OBVIOUS
      <3>5. IsFiniteSet(V) /\ b \in V /\ V \ {b} = Present /\ IsFiniteSet(Present)
        BY <1>7, <1>8, <2>2, <3>4 DEF QuotaInv
      <3>6. SumFunctionOnSet(g, V) = g[b] + SumFunctionOnSet(g, V \ {b})
        BY <3>3, <3>4, <3>5, SumRemoves
      <3>7. SumFunctionOnSet(g, Present) = SumFunctionOnSet(f, Present)
        BY <3>3, <3>5, SumsAgree
      <3>8. Stored = SumFunctionOnSet(f, Present) /\ Stored' = SumFunctionOnSet(g, V)
        BY <1>7, <3>1, <3>2, <3>4 DEF Stored
      <3>9. Stored' = n + Stored
        BY <3>3, <3>5, <3>6, <3>7, <3>8
      <3>10. QED
        BY <1>13, <3>9
    <2>3. QED
      BY <2>1, <2>2
  <1>15. Stored' \in Nat
    <2>1. \A c \in Present' : [d \in Present' |-> files'[d]][c] \in Nat
      BY <1>6 DEF Present
    <2>2. QED
      BY <1>8, <2>1, SumIsNat DEF Stored
  <1>16. Adds(ProcessOf[t])
    BY <1>11, <1>12, <1>13, <1>14, <1>15 DEF Adds
  <1>17. QED
    BY <1>9, <1>16

\* A process that dies leaves its temporary file instead of its claim.
LEMMA CrashingAdds ==
  ASSUME QuotaInv, NEW p \in Processes, Crash(p)
  PROVE  Keeps(p) /\ Adds(p)
  <1>1. /\ ArtifactTypeOK
        /\ lock \in [Processes -> Threads \cup {None}]
        /\ puts \in [Threads -> Calls]
    BY DEF QuotaInv, Inv, FilesAreSound, ArtifactTypeOK
  <1>2. /\ lock' = [lock EXCEPT ![p] = None] /\ files' = files
        /\ \A t \in Threads : ProcessOf[t] # p => puts'[t] = puts[t]
        /\ \A t \in Threads : ProcessOf[t] = p => puts'[t].pc = "idle"
    BY DEF Crash, NoCall
  <1>3. MovesOnly(p)
    BY <1>1, <1>2 DEF MovesOnly
  <1>4. LocksInv' /\ CleaningInv'
    BY <1>1, <1>2 DEF QuotaInv, LocksInv, CleaningInv
  <1>5. IsFiniteSet(Present)'
    BY <1>2, SameStored DEF QuotaInv
  <1>6. Unfinished(p) \in Nat /\ Unfinished(p) <= ClaimOf(p) /\ ClaimOf(p) \in Nat
    <2>1. ClaimOf(p) \in Nat
      BY ClaimsAreLimited DEF QuotaInv, ClaimsInv
    <2>2. CASE lock[p] = None
      BY <2>1, <2>2 DEF Unfinished, ClaimOf
    <2>3. CASE lock[p] # None
      <3>1. PICK t \in Threads : lock[p] = t
        BY <1>1, <2>3
      <3>2. ClaimOf(p) = Claim(t)
        BY <2>3, <3>1 DEF ClaimOf
      <3>3. CASE puts[t].temp = None
        BY <2>1, <3>1, <3>3 DEF Unfinished
      <3>4. CASE puts[t].temp # None
        <4>1. Unfinished(p) = puts[t].temp /\ puts[t].temp \in Nat
          BY <1>1, <2>3, <3>1, <3>4 DEF Unfinished, Calls
        <4>2. puts[t].pc \in {"writing", "replacing", "cleaning"}
          BY <1>1, <3>4 DEF ArtifactTypeOK
        <4>3. puts[t].pc = "writing" => puts[t].temp = 0
          BY DEF QuotaInv, Inv, PutsAreSound
        <4>4. puts[t].pc # "writing" => Claim(t) = puts[t].temp
          BY <3>4, <4>2 DEF Claim
        <4>5. QED
          BY <2>1, <3>2, <4>1, <4>3, <4>4
      <3>5. QED
        BY <3>3, <3>4
    <2>4. QED
      BY <2>2, <2>3
  <1>7. ClaimOf(p)' = 0
    BY <1>1, <1>2 DEF ClaimOf
  <1>8. Stored \in Nat /\ leaked \in Nat /\ leaked' = leaked + Unfinished(p)
    BY <1>1, StoredIsNat DEF QuotaInv, ArtifactTypeOK, Crash
  <1>9. Adds(p)
    BY <1>2, <1>6, <1>7, <1>8, SameStored DEF Adds
  <1>10. QED
    BY <1>3, <1>4, <1>5, <1>9 DEF Keeps

\* A scan that lets a put pass has counted everything but the claims of others.
LEMMA CountingFits ==
  ASSUME QuotaInv, Inv', IsFiniteSet(Processes), NEW t \in Threads,
         puts[t].pc = "counting", NEW T \in SUBSET Foreign(t),
         ~ (BytesOf(Present, T) + SizeOf[puts[t].payload] > MaxTotal),
         GoTo(t, "creating"), UNCHANGED <<files, leaked, lock>>
  PROVE  QuotaInv'
  <1>1. ArtifactTypeOK
    BY DEF QuotaInv, Inv, FilesAreSound
  <1>2. PICK call : call = [puts[t] EXCEPT !.pc = "creating"]
    OBVIOUS
  <1>3. /\ call \in Calls /\ puts' = [puts EXCEPT ![t] = call]
        /\ call.pc = "creating" /\ call.payload = puts[t].payload
    BY <1>1, <1>2 DEF GoTo, ArtifactTypeOK, Calls, Inside
  <1>4. IsFiniteSet(Present)'
    BY SameStored DEF QuotaInv
  <1>5. Keeps(ProcessOf[t])
    BY <1>3, <1>4, ThreadKeeps
  <1>6. lock[ProcessOf[t]] = t /\ ProcessOf[t] \in Processes
    BY <1>1 DEF ArtifactTypeOK, Held, Inside, Processes
  <1>7. PICK size \in Nat : size = SizeOf[puts[t].payload]
    BY ArtifactAssumptions DEF QuotaInv, Inv, PutsAreSound
  <1>8. ClaimOf(ProcessOf[t])' = size
    <2>1. puts'[t] = call
      BY <1>1, <1>3 DEF ArtifactTypeOK
    <2>2. Claim(t)' = size
      BY <1>3, <1>7, <2>1 DEF Claim
    <2>3. QED
      BY <1>6, <2>2, ArtifactAssumptions DEF ClaimOf
  <1>9. PICK rest \in Nat : /\ Claimed' = ClaimOf(ProcessOf[t])' + rest
                            /\ rest <= (Cardinality(Processes) - 1) * MaxBlob
    BY <1>5, <1>6, OthersClaim DEF Keeps
  <1>10. PICK n \in Nat : BytesOf(Present, T) = Stored + n + leaked
    <2>1. T \in SUBSET Temporaries
      BY DEF Foreign
    <2>2. QED
      BY <2>1, OccupiedIsClaimed DEF QuotaInv
  <1>11. Stored \in Nat /\ leaked \in Nat /\ MaxTotal \in Nat
    BY <1>1, StoredIsNat, ArtifactAssumptions DEF QuotaInv, ArtifactTypeOK
  <1>12. Stored + leaked + size <= MaxTotal
    BY <1>7, <1>10, <1>11
  <1>13. PICK others \in Int : others = (Cardinality(Processes) - 1) * MaxBlob
    BY LimitIsInt
  <1>14. Stored' + leaked' + Claimed' <= Limit
    BY <1>8, <1>9, <1>11, <1>12, <1>13, SameStored DEF Limit
  <1>15. Limit' = Limit
    BY DEF Limit
  <1>16. QED
    BY <1>5, <1>14, <1>15 DEF Keeps, QuotaInv

LEMMA QuotaFromAdds ==
  ASSUME QuotaInv, Inv', IsFiniteSet(Processes), NEW q \in Processes, Keeps(q), Adds(q)
  PROVE  QuotaInv'
  <1>1. Stored' + leaked' + Claimed' <= Limit
    BY AddingNothing DEF Keeps
  <1>2. Limit' = Limit
    BY DEF Limit
  <1>3. QED
    BY <1>1, <1>2 DEF Keeps, QuotaInv

LEMMA InitWithinQuota ==
  ASSUME IsFiniteSet(Processes)
  PROVE  Init => QuotaInv
  <1> SUFFICES ASSUME Init PROVE QuotaInv
    OBVIOUS
  <1>1. Inv
    BY InitSound
  <1>2. Present = {} /\ leaked = 0
    BY DEF Init, Present
  <1>3. IsFiniteSet(Present) /\ Stored = 0
    BY <1>2, FS_EmptySet, SumOfNone DEF Stored
  <1>4. LocksInv /\ CleaningInv
    BY DEF Init, LocksInv, CleaningInv, NoCall
  <1>5. PICK n \in Nat : n = Cardinality(Processes)
    BY FS_CardinalityType
  <1>6. Claimed <= n * 0
    <2>1. \A p \in Processes : Claims[p] \in Nat /\ Claims[p] <= 0
      BY DEF Init, Claims, ClaimOf
    <2>2. QED
      BY <1>5, <2>1, SumIsLimited DEF Claimed
  <1>7. Claimed \in Nat
    <2>1. \A p \in Processes : Claims[p] \in Nat
      BY DEF Init, Claims, ClaimOf
    <2>2. QED
      BY <2>1, SumIsNat DEF Claimed
  <1>8. /\ MaxTotal \in Nat /\ MaxBlob \in Nat /\ MaxTotal >= MaxBlob
        /\ n * 0 = 0 /\ n * MaxBlob \in Nat /\ (n - 1) * MaxBlob = n * MaxBlob - MaxBlob
    BY <1>5, ArtifactAssumptions
  <1>9. 0 <= Limit
    BY <1>5, <1>8 DEF Limit
  <1>10. Stored + leaked + Claimed <= Limit
    BY <1>2, <1>3, <1>6, <1>7, <1>8, <1>9
  <1>11. QED
    BY <1>1, <1>3, <1>4, <1>10 DEF QuotaInv

LEMMA StepWithinQuota ==
  ASSUME IsFiniteSet(Processes)
  PROVE  QuotaInv /\ [Next]_vars => QuotaInv'
  <1> SUFFICES ASSUME QuotaInv, [Next]_vars PROVE QuotaInv'
    OBVIOUS
  <1>1. Inv /\ Inv' /\ ArtifactTypeOK
    BY StepSound DEF QuotaInv, Inv, FilesAreSound
  <1>2. \A t \in Threads : ProcessOf[t] \in Processes
    BY DEF Processes
  <1>3. ASSUME NEW t \in Threads, NEW pc \in Points \ {"creating", "writing", "cleaning"},
               GoTo(t, pc)
        PROVE  /\ CallAt(t, pc, puts[t].temp) \in Calls
               /\ puts' = [puts EXCEPT ![t] = CallAt(t, pc, puts[t].temp)]
    <2>1. [puts[t] EXCEPT !.pc = pc] = CallAt(t, pc, puts[t].temp)
      BY <1>1, OnePoint DEF ArtifactTypeOK, Calls, CallAt, Points
    <2>2. CallAt(t, pc, puts[t].temp) \in Calls
      BY <1>1 DEF ArtifactTypeOK, Calls, CallAt, Points
    <2>3. QED
      BY <1>1, <1>3, <2>1, <2>2 DEF GoTo, ArtifactTypeOK
  <1>4. ASSUME NEW t \in Threads, NEW b \in Payloads, Call(t, b)
        PROVE  QuotaInv'
    <2>1. PICK call : call = [pc |-> IF Fits(b) THEN "waiting" ELSE "raised",
                              payload |-> b, temp |-> None, calls |-> puts[t].calls + 1]
      OBVIOUS
    <2>2. call \in Calls /\ call.pc # "cleaning" /\ puts[t].pc \notin Inside
      BY <1>1, <1>4, <2>1 DEF Call, ArtifactTypeOK, Calls, Inside
    <2>3. puts' = [puts EXCEPT ![t] = call]
      BY <1>1, <1>4, <2>1 DEF Call, ArtifactTypeOK
    <2>4. QED
      BY <1>1, <1>2, <1>4, <2>2, <2>3, OutsideAdds, QuotaFromAdds DEF Call
  <1>5. ASSUME NEW t \in Threads, Lock(t)
        PROVE  QuotaInv'
    <2>1. /\ CallAt(t, "looking", puts[t].temp) \in Calls
          /\ puts' = [puts EXCEPT ![t] = CallAt(t, "looking", puts[t].temp)]
      BY <1>3, <1>5 DEF Lock, Points, Inside
    <2>2. CallAt(t, "looking", puts[t].temp).pc = "looking"
      BY DEF CallAt
    <2>3. CallAt(t, "looking", puts[t].temp).temp = None /\ puts[t].pc \notin Inside
      BY <1>1, <1>5 DEF Lock, At, ArtifactTypeOK, CallAt, Inside
    <2>4. Keeps(ProcessOf[t]) /\ Adds(ProcessOf[t])
      BY <1>5, <2>1, <2>2, <2>3, OutsideAdds DEF Lock
    <2>5. QED
      BY <1>1, <1>2, <2>4, QuotaFromAdds
  <1>6. ASSUME NEW t \in Threads, NEW pc \in {"stored", "raised", "verifying"},
               Leave(t, pc), puts[t].pc \in Inside, files' = files,
               leaked' = leaked \/ leaked' = leaked + Claim(t)
        PROVE  QuotaInv'
    BY <1>1, <1>2, <1>6, LeavingAdds, QuotaFromAdds
  <1>7. ASSUME NEW t \in Threads, Look(t)
        PROVE  QuotaInv'
    <2>1. CASE GoTo(t, "counting") /\ UNCHANGED lock
      <3>1. /\ CallAt(t, "counting", puts[t].temp) \in Calls
            /\ puts' = [puts EXCEPT ![t] = CallAt(t, "counting", puts[t].temp)]
        BY <1>3, <2>1 DEF Points, Inside
      <3>2. puts[t].temp = None /\ puts[t].pc \in Inside /\ "counting" \in Points
        BY <1>1, <1>7 DEF Look, At, ArtifactTypeOK, Inside, Points
      <3>3. Keeps(ProcessOf[t]) /\ Adds(ProcessOf[t])
        BY <1>7, <2>1, <3>1, <3>2, GoingOnAdds DEF Look
      <3>4. QED
        BY <1>1, <1>2, <3>3, QuotaFromAdds
    <2>2. CASE Leave(t, Verified(t))
      <3>1. Verified(t) \in {"stored", "raised", "verifying"}
        BY DEF Verified
      <3>2. QED
        BY <1>6, <1>7, <2>2, <3>1 DEF Look, At, Inside
    <2>3. CASE Leave(t, "raised")
      BY <1>6, <1>7, <2>3 DEF Look, At, Inside
    <2>4. QED
      BY <1>7, <2>1, <2>2, <2>3 DEF Look
  <1>8. ASSUME NEW t \in Threads, Count(t)
        PROVE  QuotaInv'
    <2>1. CASE Leave(t, "raised")
      BY <1>6, <1>8, <2>1 DEF Count, At, Inside
    <2>2. CASE ~ Leave(t, "raised")
      <3>1. PICK T \in SUBSET Foreign(t) :
              /\ ~ (BytesOf(Present, T) + SizeOf[puts[t].payload] > MaxTotal)
              /\ GoTo(t, "creating") /\ UNCHANGED lock
        BY <1>8, <2>2 DEF Count
      <3>2. QED
        BY <1>1, <1>8, <3>1, CountingFits DEF Count, At
    <2>3. QED
      BY <2>1, <2>2
  <1>9. ASSUME NEW t \in Threads, Create(t)
        PROVE  QuotaInv'
    <2>1. CASE Leave(t, "raised")
      BY <1>6, <1>9, <2>1 DEF Create, At, Inside
    <2>2. CASE /\ puts' = [puts EXCEPT ![t].pc = "writing", ![t].temp = 0]
               /\ UNCHANGED lock
      <3>1. /\ CallAt(t, "writing", 0) \in Calls
            /\ puts' = [puts EXCEPT ![t] = CallAt(t, "writing", 0)]
        BY <1>1, <2>2, Moved DEF Points, Inside
      <3>2. /\ puts[t].pc = "creating" /\ "creating" \in Inside /\ "writing" \in Points
            /\ SizeOf[puts[t].payload] \in Nat
        BY <1>1, <1>9, ArtifactAssumptions
           DEF Create, At, Inside, Points, Inv, PutsAreSound
      <3>3. SizeOf[puts[t].payload] <= Claim(t)
        BY <3>2 DEF Claim
      <3>4. Keeps(ProcessOf[t]) /\ Adds(ProcessOf[t])
        BY <1>9, <2>2, <3>1, <3>2, <3>3, GoingOnAdds DEF Create
      <3>5. QED
        BY <1>1, <1>2, <3>4, QuotaFromAdds
    <2>3. QED
      BY <1>9, <2>1, <2>2 DEF Create
  <1>10. ASSUME NEW t \in Threads, Write(t)
         PROVE  QuotaInv'
    <2>1. /\ puts[t].pc = "writing" /\ puts[t].pc \in Inside
          /\ SizeOf[puts[t].payload] \in Nat
      BY <1>1, <1>10, ArtifactAssumptions DEF Write, At, Inv, PutsAreSound, Inside
    <2>2. PICK pc \in {"replacing", "cleaning"}, n \in Nat :
            /\ puts' = [puts EXCEPT ![t].pc = pc, ![t].temp = n]
            /\ n <= SizeOf[puts[t].payload]
      BY <1>10, <2>1 DEF Write
    <2>3. pc \in Points /\ n \in Nat \cup {None}
      BY DEF Points, Inside
    <2>4. /\ CallAt(t, pc, n) \in Calls
          /\ puts' = [puts EXCEPT ![t] = CallAt(t, pc, n)]
      BY <1>1, <2>2, <2>3, Moved, Zenon
    <2>5. Claim(t) = SizeOf[puts[t].payload]
      BY <2>1 DEF Claim
    <2>6. Keeps(ProcessOf[t]) /\ Adds(ProcessOf[t])
      BY <1>10, <2>1, <2>2, <2>3, <2>4, <2>5, GoingOnAdds DEF Write
    <2>7. QED
      BY <1>1, <1>2, <2>6, QuotaFromAdds
  <1>11. ASSUME NEW t \in Threads, Replace(t)
         PROVE  QuotaInv'
    <2>1. CASE GoTo(t, "cleaning") /\ UNCHANGED files
      <3>1. [puts[t] EXCEPT !.pc = "cleaning"] = CallAt(t, "cleaning", puts[t].temp)
        BY <1>1, OnePoint DEF ArtifactTypeOK, Calls, CallAt, Inside
      <3>2. /\ CallAt(t, "cleaning", puts[t].temp) \in Calls
            /\ puts' = [puts EXCEPT ![t] = CallAt(t, "cleaning", puts[t].temp)]
        BY <1>1, <2>1, <3>1 DEF GoTo, ArtifactTypeOK, Calls, CallAt, Inside
      <3>3. /\ puts[t].pc = "replacing" /\ puts[t].pc \in Inside
            /\ puts[t].temp = SizeOf[puts[t].payload]
            /\ puts[t].temp \in Nat /\ puts[t].temp # None
            /\ "cleaning" \in Points
        BY <1>1, <1>11, ArtifactAssumptions
           DEF Replace, At, Inv, PutsAreSound, Inside, Points
      <3>4. Claim(t) = puts[t].temp
        BY <3>3 DEF Claim
      <3>5. /\ puts[t].temp <= SizeOf[puts[t].payload] /\ puts[t].temp <= Claim(t)
            /\ puts[t].temp \in Nat \cup {None}
        BY <3>3, <3>4
      <3>6. leaked' = leaked /\ files' = files /\ lock' = lock
        BY <1>11, <2>1 DEF Replace
      <3>7. Keeps(ProcessOf[t]) /\ Adds(ProcessOf[t])
        BY <3>2, <3>3, <3>5, <3>6, GoingOnAdds
      <3>8. QED
        BY <1>1, <1>2, <3>7, QuotaFromAdds
    <2>2. CASE /\ files' = [files EXCEPT ![puts[t].payload] = puts[t].temp]
               /\ puts' = [puts EXCEPT ![t].pc = "syncing", ![t].temp = None]
      BY <1>1, <1>2, <1>11, <2>2, ReplacingAdds, QuotaFromAdds DEF Replace, At
    <2>3. QED
      BY <1>11, <2>1, <2>2 DEF Replace
  <1>12. ASSUME NEW t \in Threads, Sync(t)
         PROVE  QuotaInv'
    BY <1>6, <1>12 DEF Sync, At, Inside
  <1>13. ASSUME NEW t \in Threads, CleanUp(t)
         PROVE  QuotaInv'
    <2>1. puts[t].pc = "cleaning" /\ puts[t].temp # None
      BY <1>1, <1>13 DEF CleanUp, At, ArtifactTypeOK
    <2>2. Claim(t) = puts[t].temp
      BY <2>1 DEF Claim
    <2>3. QED
      BY <1>6, <1>13, <2>1, <2>2 DEF CleanUp, Inside
  <1>14. ASSUME NEW t \in Threads, Verify(t)
         PROVE  QuotaInv'
    <2>1. PICK pc \in {"stored", "raised"} : GoTo(t, pc)
      BY <1>14 DEF Verify, Verified
    <2>2. /\ CallAt(t, pc, puts[t].temp) \in Calls
          /\ puts' = [puts EXCEPT ![t] = CallAt(t, pc, puts[t].temp)]
      BY <1>3, <2>1 DEF Points, Inside
    <2>3. CallAt(t, pc, puts[t].temp).pc # "cleaning" /\ puts[t].pc \notin Inside
      BY <1>14 DEF CallAt, Verify, At, Inside
    <2>4. Keeps(ProcessOf[t]) /\ Adds(ProcessOf[t])
      BY <1>14, <2>2, <2>3, OutsideAdds DEF Verify
    <2>5. QED
      BY <1>1, <1>2, <2>4, QuotaFromAdds
  <1>15. ASSUME NEW p \in Processes, Crash(p)
         PROVE  QuotaInv'
    BY <1>1, <1>15, CrashingAdds, QuotaFromAdds
  <1>16. CASE UNCHANGED vars
    <2>1. /\ files' = files /\ leaked' = leaked /\ lock' = lock /\ puts' = puts
      BY <1>16 DEF vars
    <2>2. Claimed' = Claimed /\ Limit' = Limit
      BY <2>1 DEF Claimed, Claims, ClaimOf, Claim, Limit
    <2>3. LocksInv' /\ CleaningInv'
      BY <2>1 DEF QuotaInv, LocksInv, CleaningInv
    <2>4. QED
      BY <1>1, <2>1, <2>2, <2>3, SameStored DEF QuotaInv
  <1>17. QED
    BY <1>4, <1>5, <1>7, <1>8, <1>9, <1>10, <1>11, <1>12, <1>13, <1>14, <1>15, <1>16
       DEF Next, Step

\* Threads of one process never fill the directory beyond its quota, and each
\* further process adds at most one payload, whatever fails and whoever dies
\* (put, _stored_bytes).  The bound counts the processes, so there are finitely
\* many.
THEOREM QuotaStays ==
  ASSUME IsFiniteSet(Processes)
  PROVE  Spec => []QuotaHolds
  <1>1. Spec => []QuotaInv
    BY InitWithinQuota, StepWithinQuota, PTL DEF Spec
  <1>2. QuotaInv => QuotaHolds
    <2> SUFFICES ASSUME QuotaInv PROVE QuotaHolds
      OBVIOUS
    <2>1. Occupied <= Stored + Claimed + leaked
      BY OccupiedIsClaimed DEF QuotaInv
    <2>2. Stored \in Nat /\ leaked \in Nat
      BY StoredIsNat DEF QuotaInv, Inv, FilesAreSound, ArtifactTypeOK
    <2>3. Claimed \in Nat
      <3>1. \A p \in Processes : Claims[p] \in Nat
        BY ClaimsAreLimited DEF QuotaInv, ClaimsInv, Claims
      <3>2. QED
        BY <3>1, SumIsNat DEF Claimed
    <2>4. Occupied \in Nat
      <3>1. Temporaries \in SUBSET Temporaries
        OBVIOUS
      <3>2. PICK n \in Nat : BytesOf(Present, Temporaries) = Stored + n + leaked
        BY <3>1, OccupiedIsClaimed DEF QuotaInv
      <3>3. QED
        BY <2>2, <3>2 DEF Occupied
    <2>5. Limit \in Int /\ Stored + leaked + Claimed <= Limit
      BY LimitIsInt DEF QuotaInv
    <2>6. Occupied <= Limit
      BY <2>1, <2>2, <2>3, <2>4, <2>5
    <2>7. QED
      BY <2>6 DEF QuotaHolds, Limit
  <1>3. QED
    BY <1>1, <1>2, PTL
=============================================================================
