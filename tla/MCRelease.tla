----------------------------- MODULE MCRelease -----------------------------
(* Instances of Release.tla for TLC.                                        *)
EXTENDS Release

CONSTANTS a, s

AllCommits == {a, s}
SickCommits == {s}

\* The commit s holds what was recorded before it was made, an entry that git
\* could not name among it.
History(c) ==
  IF c = a THEN << >>
  ELSE <<[commit |-> a, good |-> TRUE], [commit |-> Unknown, good |-> FALSE]>>
CommittedHistory == [c \in AllCommits |-> History(c)]
=============================================================================
