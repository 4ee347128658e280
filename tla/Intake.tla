------------------------------- MODULE Intake -------------------------------
(***************************************************************************)
(* What POST /api/submit promises about a (user_id, idempotency_key), with *)
(* no handlers, leases, errors or crashes: one file takes the key, its     *)
(* object is kept once, and only then is the submission queued; nothing of *)
(* this is ever undone, and an answer 200 is about the file that took the  *)
(* key.  Upload.tla is the program that has to keep this promise.          *)
(***************************************************************************)

CONSTANTS
  Keys,    \* (user_id, idempotency_key) pairs
  Files,   \* file contents
  NoFile   \* a key without a file, a submission without an object

VARIABLES
  stage,     \* how far the submission of a key has come
  owner,     \* the file that took the key: submissions.file_hash
  kept,      \* the object of the submission
  answered   \* the <<key, file>> that were answered 200

intakeVars == <<stage, owner, kept, answered>>

IntakeInit ==
  /\ stage = [k \in Keys |-> "free"]
  /\ owner = [k \in Keys |-> NoFile]
  /\ kept = [k \in Keys |-> NoFile]
  /\ answered = {}

Enter(k, from, to) == stage[k] = from /\ stage' = [stage EXCEPT ![k] = to]

(* The first request decides what the key stands for.                       *)
Take(k) ==
  /\ Enter(k, "free", "taken")
  /\ \E f \in Files : owner' = [owner EXCEPT ![k] = f]
  /\ UNCHANGED <<kept, answered>>

(* A file that is not valid takes the key too: it can only be refused.      *)
Refuse(k) ==
  /\ Enter(k, "free", "refused")
  /\ \E f \in Files : owner' = [owner EXCEPT ![k] = f]
  /\ UNCHANGED <<kept, answered>>

(* The object appears at once and complete, while nobody may read it.       *)
Keep(k) ==
  /\ stage[k] = "taken" /\ kept[k] = NoFile
  /\ kept' = [kept EXCEPT ![k] = owner[k]]
  /\ UNCHANGED <<stage, owner, answered>>

Queue(k) ==
  /\ Enter(k, "taken", "queued")
  /\ kept[k] = owner[k]
  /\ UNCHANGED <<owner, kept, answered>>

Answer(k) ==
  /\ stage[k] \in {"taken", "queued"}
  /\ answered' = answered \cup {<<k, owner[k]>>}
  /\ UNCHANGED <<stage, owner, kept>>

IntakeNext ==
  \E k \in Keys : Take(k) \/ Refuse(k) \/ Keep(k) \/ Queue(k) \/ Answer(k)

IntakeSpec == IntakeInit /\ [][IntakeNext]_intakeVars

-----------------------------------------------------------------------------
(* Nothing is ever undone: a key stays with the file that took it first,    *)
(* what is queued stays queued, what is refused is never queued, an object  *)
(* that is there stays, and so does an answer 200.                          *)
NothingUndone ==
  [][/\ \A k \in Keys :
          /\ stage[k] # "free" => stage'[k] # "free" /\ owner'[k] = owner[k]
          /\ stage[k] \in {"queued", "refused"} => stage'[k] = stage[k]
          /\ kept[k] # NoFile => kept'[k] = kept[k]
     /\ answered \subseteq answered']_intakeVars
=============================================================================
