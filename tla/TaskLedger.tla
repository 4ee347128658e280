----------------------------- MODULE TaskLedger -----------------------------
(***************************************************************************)
(* What the submission table promises to its readers, with no worker, no   *)
(* lease and no clock: every submission walks the edges of                 *)
(* state_machine.ALLOWED, an attempt is counted exactly once, the third    *)
(* failure is final, and a completion pays for itself in the same step.    *)
(* WorkerLedger.tla is the program that has to keep this promise with      *)
(* several worker threads, expiring leases, crashes and retries.           *)
(***************************************************************************)
EXTENDS Naturals, FiniteSets

CONSTANTS
  Tasks,      \* submission ids
  Users,      \* accounts
  UserOf,     \* submissions.user_id
  MaxRetry,   \* db.MAX_RETRY
  Cost,       \* billing.COST_PER_CALL
  Opening     \* balance of each account at the start

VARIABLES
  status,     \* submissions.status
  attempts,   \* submissions.retry_count: failures that were accepted
  credit,     \* accounts.balance
  granted,    \* everything ever credited to an account, the opening balance included
  external    \* the submissions that were completed through the external provider

ledgerVars == <<status, attempts, credit, granted, external>>

Settled == {"done", "dlq", "rejected"}
States  == {"uploading", "pending", "processing", "arrears"} \cup Settled

LedgerTypeOK ==
  /\ status \in [Tasks -> States]
  /\ attempts \in [Tasks -> 0..MaxRetry]
  /\ credit \in [Users -> Nat]
  /\ granted \in [Users -> Nat]
  /\ external \in SUBSET Tasks

LedgerInit ==
  /\ status \in [Tasks -> {"uploading", "pending"}]
  /\ attempts = [t \in Tasks |-> 0]
  /\ credit = Opening
  /\ granted = Opening
  /\ external = {}

Move(t, from, to) == status[t] = from /\ status' = [status EXCEPT ![t] = to]

KeepAccounts == UNCHANGED <<credit, granted, external>>

(* The upload is complete: the API puts the submission in the queue. *)
Accept(t) ==
  Move(t, "uploading", "pending") /\ UNCHANGED attempts /\ KeepAccounts

Take(t) ==
  Move(t, "pending", "processing") /\ UNCHANGED attempts /\ KeepAccounts

(* An internal completion is free, an external one costs exactly one call. *)
Complete(t) ==
  /\ Move(t, "processing", "done")
  /\ UNCHANGED <<attempts, granted>>
  /\ \/ UNCHANGED <<credit, external>>
     \/ /\ credit[UserOf[t]] >= Cost
        /\ credit' = [credit EXCEPT ![UserOf[t]] = @ - Cost]
        /\ external' = external \cup {t}

(* Mutant: one failure more before the dead letter queue. *)
FailOnceMore(t) ==
  /\ attempts' = [attempts EXCEPT ![t] = @ + 1]
  /\ Move(t, "processing", IF attempts'[t] > MaxRetry THEN "dlq" ELSE "pending")
  /\ KeepAccounts

Fail(t) ==
  /\ attempts' = [attempts EXCEPT ![t] = @ + 1]
  /\ Move(t, "processing", IF attempts'[t] >= MaxRetry THEN "dlq" ELSE "pending")
  /\ KeepAccounts

(* A containment of the external provider is not a failed attempt. *)
PutBack(t) ==
  Move(t, "processing", "pending") /\ UNCHANGED attempts /\ KeepAccounts

(* Neither is a call that no credit was left for. *)
Suspend(t) ==
  Move(t, "processing", "arrears") /\ UNCHANGED attempts /\ KeepAccounts

Requeue(t) ==
  Move(t, "arrears", "pending") /\ UNCHANGED attempts /\ KeepAccounts

Grant(u) ==
  /\ credit' = [credit EXCEPT ![u] = @ + Cost]
  /\ granted' = [granted EXCEPT ![u] = @ + Cost]
  /\ UNCHANGED <<status, attempts, external>>

LedgerNext ==
  \/ \E t \in Tasks :
       \/ Accept(t) \/ Take(t) \/ Complete(t) \/ Fail(t)
       \/ PutBack(t) \/ Suspend(t) \/ Requeue(t)
  \/ \E u \in Users : Grant(u)

LedgerSpec == LedgerInit /\ [][LedgerNext]_ledgerVars

-----------------------------------------------------------------------------
(* A submission is in the dead letter queue exactly when its retries are    *)
(* used up: no path burns a retry without a failure, none skips the queue.  *)
DeadLetterIffExhausted ==
  \A t \in Tasks : (status[t] = "dlq") <=> (attempts[t] = MaxRetry)

(* Every account is worth what was granted to it less one call for each of  *)
(* its submissions that was completed externally: no call is charged twice, *)
(* left unpaid, or charged for a submission that is not done.               *)
CreditConserved ==
  /\ \A t \in external : status[t] = "done"
  /\ \A u \in Users :
       credit[u] + Cost * Cardinality({t \in external : UserOf[t] = u}) = granted[u]
=============================================================================
