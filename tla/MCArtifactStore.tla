---------------------------- MODULE MCArtifactStore ----------------------------
(***************************************************************************)
(* ArtifactStore with payloads of different sizes of which not all fit.    *)
(***************************************************************************)
EXTENDS ArtifactStore

CONSTANTS t1, t2, t3, small, large, huge, secret

Sizes == [b \in {small, large, huge, secret} |->
            CASE b = small -> 1 [] b = large -> 2 [] b = huge -> 3 [] OTHER -> 1]

\* Two threads share a process, the third has its own.
TwoProcesses == [t \in {t1, t2, t3} |-> IF t = t3 THEN 2 ELSE 1]
=============================================================================
