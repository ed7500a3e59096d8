--------------------------- MODULE AttemptPromise ---------------------------
(***************************************************************************)
(* What an attempt identifier promises its callers, without tables,        *)
(* journals or pipelines: it is opened once, with one envelope, and then   *)
(* answered once, with one acceptable outcome (docs/memory.md, Complete    *)
(* attempts).                                                              *)
(***************************************************************************)
CONSTANTS
  Attempts,
  Envelopes,    \* what an attempt may be opened with
  Acceptable,   \* what it may be answered with
  None

VARIABLES
  envelope,     \* attempt -> what it was opened with, or None
  outcome       \* attempt -> what it was answered with, or None

Init ==
  /\ envelope = [a \in Attempts |-> None]
  /\ outcome = [a \in Attempts |-> None]

Open(a) ==
  /\ envelope[a] = None
  /\ envelope'[a] \in Envelopes
  /\ envelope' = [envelope EXCEPT ![a] = envelope'[a]]
  /\ UNCHANGED outcome

Answer(a) ==
  /\ envelope[a] # None
  /\ outcome[a] = None
  /\ outcome'[a] \in Acceptable
  /\ outcome' = [outcome EXCEPT ![a] = outcome'[a]]
  /\ UNCHANGED envelope

Next == \E a \in Attempts : Open(a) \/ Answer(a)

Spec == Init /\ [][Next]_<<envelope, outcome>>
=============================================================================
