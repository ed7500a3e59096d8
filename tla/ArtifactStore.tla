---------------------------- MODULE ArtifactStore ----------------------------
(***************************************************************************)
(* ContentAddressedArtifactStore.put (src/llmin/memory/artifacts.py):      *)
(* threads of one or several processes store payloads in one directory.    *)
(* A write goes to a temporary file that replaces the final path, under a  *)
(* lock that the threads of one process share and other processes do not   *)
(* see.  Each operating-system call may fail, and a process may die at any *)
(* point and be started again; a machine that loses power is not modelled. *)
(*                                                                         *)
(* A payload stands for its bytes and its SHA-256 address.  read() changes *)
(* nothing: what it returns is what StoredIsWhole says.                    *)
(***************************************************************************)
EXTENDS Naturals, FiniteSets, Functions

CONSTANTS
  Payloads,        \* distinct contents
  SizeOf,          \* payload -> its bytes
  Rejected,        \* payloads _validate_payload or the name check rejects
  MaxBlob,         \* max_blob_bytes
  MaxTotal,        \* max_total_bytes
  Threads,
  ProcessOf,       \* thread -> its process
  Faults,          \* operating-system calls that may fail, and "crash"
  MaxCalls,        \* bound on the puts of one thread
  None

VARIABLES
  files,           \* payload -> the bytes under its address, or None
  leaked,          \* bytes of temporary files nobody will remove
  lock,            \* process -> the thread that holds its lock, or None
  puts             \* thread -> its call: pc, payload, its temporary file, number

vars == <<files, leaked, lock, puts>>

Processes == {ProcessOf[t] : t \in Threads}

ASSUME ArtifactAssumptions ==
  /\ SizeOf \in [Payloads -> Nat]
  /\ MaxBlob \in Nat \ {0} /\ MaxTotal \in Nat /\ MaxTotal >= MaxBlob
  /\ Rejected \subseteq Payloads
  /\ MaxCalls \in Nat
  /\ None \notin Payloads \cup Threads \cup Nat

-----------------------------------------------------------------------------
NoCall == [pc |-> "idle", payload |-> None, temp |-> None, calls |-> 0]

Held(t) == lock[ProcessOf[t]] = t

\* The call goes on at pc, still holding the lock.
GoTo(t, pc) == puts' = [puts EXCEPT ![t].pc = pc]

\* The call leaves the with block of the lock.
Leave(t, pc) ==
  /\ puts' = [puts EXCEPT ![t].pc = pc, ![t].temp = None]
  /\ lock' = [lock EXCEPT ![ProcessOf[t]] = None]

At(t, pc) == puts[t].pc = pc

Fails(call) == call \in Faults

Present == {b \in Payloads : files[b] # None}

Temporaries == {t \in Threads : puts[t].temp # None}

BytesOf(S, T) ==
  SumFunctionOnSet([b \in S |-> files[b]], S)
    + SumFunctionOnSet([t \in T |-> puts[t].temp], T) + leaked

\* The bytes in the directory.
Occupied == BytesOf(Present, Temporaries)

Foreign(t) == {u \in Temporaries : ProcessOf[u] # ProcessOf[t]}

-----------------------------------------------------------------------------
(* put, step by step.                                                      *)

\* What is checked before the lock is taken.
Fits(b) == b \notin Rejected /\ SizeOf[b] <= MaxBlob

Call(t, b) ==
  /\ puts[t].pc \in {"idle", "stored", "raised"}
  /\ puts[t].calls < MaxCalls
  /\ puts' = [puts EXCEPT ![t] =
       [pc |-> IF Fits(b) THEN "waiting" ELSE "raised",
        payload |-> b, temp |-> None, calls |-> @.calls + 1]]
  /\ UNCHANGED <<files, leaked, lock>>

Lock(t) ==
  /\ At(t, "waiting")
  /\ lock[ProcessOf[t]] = None
  /\ lock' = [lock EXCEPT ![ProcessOf[t]] = t]
  /\ GoTo(t, "looking")
  /\ UNCHANGED <<files, leaked>>

\* Where a call whose payload is in place ends: _verify.
Verified(t) ==
  IF files[puts[t].payload] = SizeOf[puts[t].payload] THEN "stored" ELSE "raised"

\* Faulty variant: any payload in the shard passes for this one.
BugShardForPayload(t) ==
  /\ At(t, "looking")
  /\ IF Present = {} THEN GoTo(t, "counting") /\ UNCHANGED lock
     ELSE Leave(t, "stored")
  /\ UNCHANGED <<files, leaked>>

\* The shard is made if it is not there, and the path is checked for links.  A
\* payload that is there is verified and answered.
Look(t) ==
  /\ At(t, "looking")
  /\ \/ IF files[puts[t].payload] = None
        THEN GoTo(t, "counting") /\ UNCHANGED lock
        ELSE Leave(t, Verified(t))
     \/ Fails("look") /\ Leave(t, "raised")
  /\ UNCHANGED <<files, leaked>>

\* Faulty variant: temporary files are not counted.
BugTemporariesFree(t) ==
  /\ At(t, "counting")
  /\ IF SumFunctionOnSet(files, Present) + SizeOf[puts[t].payload] > MaxTotal
     THEN Leave(t, "raised")
     ELSE GoTo(t, "creating") /\ UNCHANGED lock
  /\ UNCHANGED <<files, leaked>>

\* The scan of the directory counts every file.  A temporary file of another
\* process may be missed, or vanish while it is looked at, which raises.
Count(t) ==
  /\ At(t, "counting")
  /\ \/ \E T \in SUBSET Foreign(t) :
          IF BytesOf(Present, T) + SizeOf[puts[t].payload] > MaxTotal
          THEN Leave(t, "raised")
          ELSE GoTo(t, "creating") /\ UNCHANGED lock
     \/ (Foreign(t) # {} \/ Fails("scan")) /\ Leave(t, "raised")
  /\ UNCHANGED <<files, leaked>>

Create(t) ==
  /\ At(t, "creating")
  /\ \/ puts' = [puts EXCEPT ![t].pc = "writing", ![t].temp = 0] /\ UNCHANGED lock
     \/ Fails("create") /\ Leave(t, "raised")
  /\ UNCHANGED <<files, leaked>>

\* Write, flush and fsync; a failure leaves part of the payload.
Write(t) ==
  /\ At(t, "writing")
  /\ \/ puts' = [puts EXCEPT ![t].pc = "replacing",
                             ![t].temp = SizeOf[puts[t].payload]]
     \/ /\ Fails("write")
        /\ \E n \in 0 .. SizeOf[puts[t].payload] :
             puts' = [puts EXCEPT ![t].pc = "cleaning", ![t].temp = n]
  /\ UNCHANGED <<files, leaked, lock>>

\* Faulty variant: a failed write is put in place all the same.
BugTornReplace(t) ==
  /\ puts[t].pc \in {"replacing", "cleaning"}
  /\ files' = [files EXCEPT ![puts[t].payload] = puts[t].temp]
  /\ puts' = [puts EXCEPT ![t].pc = "syncing", ![t].temp = None]
  /\ UNCHANGED <<leaked, lock>>

\* os.replace: the temporary file becomes the payload.
Replace(t) ==
  /\ At(t, "replacing")
  /\ \/ /\ files' = [files EXCEPT ![puts[t].payload] = puts[t].temp]
        /\ puts' = [puts EXCEPT ![t].pc = "syncing", ![t].temp = None]
     \/ Fails("replace") /\ GoTo(t, "cleaning") /\ UNCHANGED files
  /\ UNCHANGED <<leaked, lock>>

\* fsync of the directory and chmod: a failure raises although the payload is
\* in place.
Sync(t) ==
  /\ At(t, "syncing")
  /\ Leave(t, "verifying") \/ (Fails("sync") /\ Leave(t, "raised"))
  /\ UNCHANGED <<files, leaked>>

\* Faulty variant: the lock is not released on the way out of a failure.
BugLockKept(t) ==
  /\ At(t, "cleaning")
  /\ puts' = [puts EXCEPT ![t].pc = "raised", ![t].temp = None]
  /\ UNCHANGED <<files, leaked, lock>>

\* The finally block removes the temporary file of a failed write.
CleanUp(t) ==
  /\ At(t, "cleaning")
  /\ Leave(t, "raised")
  /\ leaked' = leaked \/ (Fails("unlink") /\ leaked' = leaked + puts[t].temp)
  /\ UNCHANGED files

\* The payload is read back before it is answered.
Verify(t) ==
  /\ At(t, "verifying")
  /\ GoTo(t, Verified(t)) \/ (Fails("read") /\ GoTo(t, "raised"))
  /\ UNCHANGED <<files, leaked, lock>>

\* The bytes of the temporary file of a process: only the holder of its lock
\* has one.
Unfinished(p) ==
  IF lock[p] # None /\ puts[lock[p]].temp # None THEN puts[lock[p]].temp ELSE 0

\* A process dies and is started again: its calls are gone, its temporary
\* files stay.
Crash(p) ==
  /\ Fails("crash")
  /\ leaked' = leaked + Unfinished(p)
  /\ puts' = [t \in Threads |-> IF ProcessOf[t] = p
                                THEN [NoCall EXCEPT !.calls = puts[t].calls]
                                ELSE puts[t]]
  /\ lock' = [lock EXCEPT ![p] = None]
  /\ UNCHANGED files

Init ==
  /\ files = [b \in Payloads |-> None]
  /\ leaked = 0
  /\ lock = [p \in Processes |-> None]
  /\ puts = [t \in Threads |-> NoCall]

Step(t) ==
  Lock(t) \/ Look(t) \/ Count(t) \/ Create(t) \/ Write(t) \/ Replace(t)
    \/ Sync(t) \/ CleanUp(t) \/ Verify(t)

Next ==
  \/ \E t \in Threads, b \in Payloads : Call(t, b)
  \/ \E t \in Threads : Step(t)
  \/ \E p \in Processes : Crash(p)

Spec == Init /\ [][Next]_vars

\* A thread that can go on goes on; whether it calls again is its own affair.
FairSpec == Spec /\ \A t \in Threads : WF_vars(Step(t))

-----------------------------------------------------------------------------
(* What the store promises.                                                *)

Inside == {"looking", "counting", "creating", "writing", "replacing", "syncing",
           "cleaning"}

Calls == [pc : Inside \cup {"idle", "waiting", "verifying", "stored", "raised"},
          payload : Payloads \cup {None}, temp : Nat \cup {None}, calls : Nat]

\* Files, locks and calls are what the code can make of them; a temporary file
\* belongs to a writer that holds the lock of its process, and the lock is held
\* by exactly the thread inside (put).
ArtifactTypeOK ==
  /\ files \in [Payloads -> Nat \cup {None}]
  /\ leaked \in Nat
  /\ lock \in [Processes -> Threads \cup {None}]
  /\ puts \in [Threads -> Calls]
  /\ \A t \in Threads :
       /\ puts[t].temp # None <=> puts[t].pc \in {"writing", "replacing", "cleaning"}
       /\ puts[t].pc \in Inside <=> Held(t)

\* Whatever fails and whoever dies, what is under an address is the whole
\* payload (put, write to a temporary file and replace).
StoredIsWhole == \A b \in Present : files[b] = SizeOf[b] /\ Fits(b)

\* Whatever fails or stops, no payload is torn, and every temporary file and
\* every lock belongs to the put that will remove or release it.
FilesAreSound == ArtifactTypeOK /\ StoredIsWhole

\* Threads of one process never fill the directory beyond its quota: not with
\* payloads, not with the temporary file of a writer, and not with what dead
\* writers left behind.  Each further process may add the one payload it writes
\* while others count (put, _stored_bytes).
QuotaHolds == Occupied <= MaxTotal + (Cardinality(Processes) - 1) * MaxBlob

\* What lies whole under its address, and the last answered call of a thread.
Readable == {b \in Payloads : files[b] = SizeOf[b]}
LastTold ==
  [t \in Threads |-> IF puts[t].pc = "stored" THEN puts[t].payload ELSE None]

Promise ==
  INSTANCE BlobPromise WITH
    Acceptable <- {b \in Payloads : Fits(b)}, Callers <- Threads,
    stored <- Readable, told <- LastTold

\* The store implements BlobPromise: an answered payload is readable for ever.
PromiseKept == Promise!Spec

\* A call always ends, whatever fails, unless its process dies: no failure
\* leaves the lock of the process taken.
PutEnds ==
  \A t \in Threads :
    puts[t].pc = "waiting" ~> puts[t].pc \in {"stored", "raised", "idle"}
=============================================================================
