--------------------------- MODULE MCStatusQuery ---------------------------
(* Instances of StatusQuery.tla for TLC.                                    *)
EXTENDS StatusQuery, TLC

CONSTANTS t1, u1, i1, i2

OwnerOf == [t \in {t1} |-> u1]
Penniless == [u \in {u1} |-> 0]
SameQueries == Permutations(Queries)
=============================================================================
