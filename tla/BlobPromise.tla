----------------------------- MODULE BlobPromise -----------------------------
(***************************************************************************)
(* What a content-addressed store promises, without files, locks or        *)
(* failures: a payload, once stored, stays, and whoever is told that a     *)
(* payload is stored can read it (docs/memory.md, Artifact store).         *)
(***************************************************************************)
CONSTANTS
  Acceptable,   \* the payloads the store may hold
  Callers,
  None

VARIABLES
  stored,       \* the payloads that can be read
  told          \* caller -> the payload it was last told is stored, or None

Init ==
  /\ stored = {}
  /\ told = [c \in Callers |-> None]

Keep(b) ==
  /\ stored' = stored \cup {b}
  /\ UNCHANGED told

Tell(c, b) ==
  /\ b \in stored
  /\ told' = [told EXCEPT ![c] = b]
  /\ UNCHANGED stored

\* A caller asks again, or is gone.
Forget(C) ==
  /\ told' = [c \in Callers |-> IF c \in C THEN None ELSE told[c]]
  /\ UNCHANGED stored

Next ==
  \/ \E b \in Acceptable : Keep(b)
  \/ \E c \in Callers, b \in Acceptable : Tell(c, b)
  \/ \E C \in SUBSET Callers : Forget(C)

Spec == Init /\ [][Next]_<<stored, told>>
=============================================================================
