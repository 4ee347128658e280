--------------------------- MODULE MCWorkerLedger ---------------------------
(* Instances of WorkerLedger.tla for TLC.                                   *)
EXTENDS WorkerLedger, TLC

CONSTANTS w1, w2, u1, u2

OneUser == [t \in Tasks |-> u1]
TwoUsers == [t \in Tasks |-> IF t = 1 THEN u1 ELSE u2]

NoCredit == [u \in Users |-> 0]
OneCredit == [u \in Users |-> Cost]

SameThreads == Permutations(Workers)
=============================================================================
