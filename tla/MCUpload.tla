------------------------------ MODULE MCUpload ------------------------------
(* Instances of Upload.tla for TLC.                                         *)
EXTENDS Upload, TLC

CONSTANTS c1, c2, c3, c4, k1, f1, f2

Send(file, valid) == [key |-> k1, file |-> file, valid |-> valid]

(* One key: the same file twice, a third time under a name that is not      *)
(* allowed, and another file.                                               *)
Contested ==
  (c1 :> Send(f1, TRUE)) @@ (c2 :> Send(f1, TRUE)) @@ (c3 :> Send(f1, FALSE)) @@ (c4 :> Send(f2, TRUE))

(* One client, which may retry.                                             *)
Single == (c1 :> Send(f1, TRUE))
=============================================================================
