---------------------- MODULE WorkerRefinement_proofs ----------------------
(***************************************************************************)
(* WorkerLedger.tla keeps the promise of TaskLedger.tla, for every set of  *)
(* submissions, users and threads, and what follows from it for accounts.  *)
(***************************************************************************)
EXTENDS WorkerSafety_proofs

\* What TaskLedger calls attempts.
Attempts == [t \in Tasks |-> submissions[t].retries]

-----------------------------------------------------------------------------
(* What a step does to the rows, as TaskLedger sees them.                   *)

LEMMA Stutters ==
  ASSUME \A t \in Tasks : submissions'[t].status = submissions[t].status
                          /\ submissions'[t].retries = submissions[t].retries,
         UNCHANGED <<balance, granted, external>>
  PROVE  UNCHANGED Ledger!ledgerVars
BY DEF Ledger!ledgerVars

LEMMA OneRow ==
  ASSUME OInv, NEW t \in Tasks, NEW row, submissions' = [submissions EXCEPT ![t] = row]
  PROVE  /\ submissions'[t] = row
         /\ \A s \in Tasks \ {t} : submissions'[s] = submissions[s]
BY DEF OInv, Types

LEMMA RowMoves ==
  ASSUME OInv, NEW t \in Tasks, NEW row, submissions' = [submissions EXCEPT ![t] = row]
  PROVE  /\ Ledger!Move(t, submissions[t].status, row.status)
         /\ Attempts' = [Attempts EXCEPT ![t] = row.retries]
<1>1. submissions'[t] = row /\ \A s \in Tasks \ {t} : submissions'[s] = submissions[s]
  BY OneRow
<1>2. \A s \in Tasks : /\ submissions'[s].status = IF s = t THEN row.status ELSE submissions[s].status
                       /\ submissions'[s].retries = IF s = t THEN row.retries ELSE submissions[s].retries
  BY <1>1
<1> DEFINE st == [s \in Tasks |-> submissions'[s].status]
           rt == [s \in Tasks |-> submissions'[s].retries]
<1>3. st = [[s \in Tasks |-> submissions[s].status] EXCEPT ![t] = row.status]
  BY <1>2
<1>4. rt = [[s \in Tasks |-> submissions[s].retries] EXCEPT ![t] = row.retries]
  BY <1>2
<1>5. Ledger!Move(t, submissions[t].status, row.status)
  BY <1>3 DEF Ledger!Move
<1>6. QED BY <1>4, <1>5 DEF Attempts

LEMMA RowMovesOnly ==
  ASSUME OInv, NEW t \in Tasks, NEW row, submissions' = [submissions EXCEPT ![t] = row],
         row.retries = submissions[t].retries
  PROVE  Ledger!Move(t, submissions[t].status, row.status) /\ Attempts' = Attempts
<1>1. Attempts' = [Attempts EXCEPT ![t] = row.retries] BY RowMoves
<1>2. Attempts' = Attempts BY <1>1 DEF Attempts
<1>3. QED BY <1>2, RowMoves

LEMMA LeaveRow ==
  ASSUME NEW r \in AnyRow, NEW s \in Statuses, NEW n \in Nat, NEW i \in Int
  PROVE  Leave(r, s, n, i).status = s /\ Leave(r, s, n, i).retries = n
BY Zenon DEF Leave, AnyRow

\* A write that passes the fence, by what it writes.
LEMMA WriteSteps ==
  ASSUME OInv, NEW w \in Workers, NEW s \in Statuses, NEW n \in Nat, NEW i \in Int,
         NEW intent, WriteOwned(w, intent, Leave(submissions[thread[w].task], s, n, i)),
         \/ n = submissions[thread[w].task].retries /\ s \in {"pending", "arrears"}
         \/ n = thread[w].rc /\ s = "pending"
         \/ n = thread[w].rc + 1 /\ s = IF n >= MaxRetry THEN "dlq" ELSE "pending"
  PROVE  Ledger!LedgerNext \/ UNCHANGED Ledger!ledgerVars
<1>0. UNCHANGED <<balance, granted, external>> BY DEF WriteOwned
<1>1. CASE ~Fence(thread[w].task, w, thread[w].gen, thread[w].at)
  <2>1. submissions' = submissions BY <1>1 DEF WriteOwned
  <2>2. QED BY <1>0, <2>1, Stutters
<1>2. CASE Fence(thread[w].task, w, thread[w].gen, thread[w].at)
  <2>1. PICK t \in Tasks : t = thread[w].task
    BY <1>2, FencedIsFresh DEF WriteOwned, Working
  <2>2. thread[w].rc = submissions[t].retries /\ submissions[t].status = "processing"
    BY <1>2, <2>1, FencedIsFresh DEF WriteOwned, Working, Fence
  <2> DEFINE row == Leave(submissions[t], s, n, i)
  <2>3. /\ submissions' = [submissions EXCEPT ![t] = row]
        /\ row.status = s /\ row.retries = n
    BY <1>2, <2>1, LeaveRow DEF WriteOwned, OInv, Types
  <2> HIDE DEF row
  <2>4. Ledger!Move(t, "processing", s) /\ Attempts' = [Attempts EXCEPT ![t] = n]
    BY <2>2, <2>3, RowMoves
  <2>5. Ledger!KeepAccounts BY <1>0 DEF Ledger!KeepAccounts
  <2>6. CASE n = submissions[t].retries /\ s \in {"pending", "arrears"}
    <3>1. Attempts' = Attempts BY <2>4, <2>6 DEF Attempts
    <3>2. Ledger!PutBack(t) \/ Ledger!Suspend(t)
      BY <2>4, <2>5, <2>6, <3>1 DEF Ledger!PutBack, Ledger!Suspend, Attempts
    <3>3. QED BY <3>2 DEF Ledger!LedgerNext
  <2>7. CASE n = submissions[t].retries + 1 /\ s = IF n >= MaxRetry THEN "dlq" ELSE "pending"
    <3>1. /\ Attempts' = [Attempts EXCEPT ![t] = Attempts[t] + 1]
          /\ Attempts'[t] = n
      BY <2>4, <2>7 DEF Attempts
    <3>2. s = IF Attempts'[t] >= MaxRetry THEN "dlq" ELSE "pending"
      BY <2>7, <3>1
    <3>3. Ledger!Fail(t)
      BY <2>4, <2>5, <3>1, <3>2 DEF Ledger!Fail, Ledger!Move, Attempts
    <3>4. QED BY <3>3 DEF Ledger!LedgerNext
  <2>8. QED BY <2>1, <2>2, <2>6, <2>7
<1>3. QED BY <1>1, <1>2

LEMMA WritingSteps ==
  ASSUME OInv, NEW w \in Workers,
         WriteArrears(w) \/ WriteBlocked(w) \/ WriteRetry(w) \/ WriteDeadLetter(w)
  PROVE  Ledger!LedgerNext \/ UNCHANGED Ledger!ledgerVars
<1> DEFINE c == thread[w]
           r == submissions[c.task]
<1>1. c \in Thread /\ c.pc = "write" /\ c.task \in Tasks
  BY DEF WriteArrears, WriteBlocked, WriteRetry, WriteDeadLetter, WriteOwned, OInv, Types, Placed
<1>2. c.rc \in Nat /\ c.rc + 1 \in Nat /\ c.at \in Int /\ c.at + ControlBlockRetry \in Int
  BY <1>1, NumberAssumption DEF Thread
<1>3. r.retries \in Nat /\ r.next \in Int
  BY <1>1 DEF OInv, Types, AnyRow
<1>4. SoundIntent(c)
  BY DEF OInv, OwnershipInv, ClaimsKept, SoundIntent
<1>5. CASE WriteArrears(w)
  BY <1>3, <1>5, WriteSteps, StagesNamed DEF WriteArrears
<1>6. CASE WriteBlocked(w)
  BY <1>2, <1>6, WriteSteps, StagesNamed DEF WriteBlocked
<1>7. CASE WriteRetry(w)
  <2>1. PICK delay \in 0..RetryCap(c.rc + 1) :
          WriteOwned(w, "retry", Leave(submissions[c.task], "pending", c.rc + 1, c.at + delay))
    BY <1>7 DEF WriteRetry
  <2>2. c.at + delay \in Int BY <1>2
  <2>3. c.intent = "retry" BY <2>1 DEF WriteOwned
  <2>4. c.rc + 1 < MaxRetry BY <1>1, <1>4, <2>3 DEF SoundIntent
  <2>5. ~(c.rc + 1 >= MaxRetry) BY <1>2, <2>4, NumberAssumption
  <2>6. "pending" = IF c.rc + 1 >= MaxRetry THEN "dlq" ELSE "pending" BY <2>5
  <2>7. QED BY <1>2, <2>1, <2>2, <2>6, WriteSteps, StagesNamed
<1>8. CASE WriteDeadLetter(w)
  <2>1. WriteOwned(w, "dlq", Leave(r, "dlq", c.rc + 1, r.next)) BY <1>8 DEF WriteDeadLetter
  <2>2. c.intent = "dlq" BY <2>1 DEF WriteOwned
  <2>3. c.rc + 1 >= MaxRetry BY <1>1, <1>4, <2>2 DEF SoundIntent
  <2>4. "dlq" = IF c.rc + 1 >= MaxRetry THEN "dlq" ELSE "pending" BY <2>3
  <2>5. QED BY <1>2, <1>3, <2>1, <2>4, WriteSteps, StagesNamed
<1>9. QED BY <1>5, <1>6, <1>7, <1>8

LEMMA RequeueSteps ==
  ASSUME OInv, NEW w \in Workers, Requeue(w)
  PROVE  Ledger!LedgerNext \/ UNCHANGED Ledger!ledgerVars
<1>1. PICK t \in Tasks : t = thread[w].task
  BY DEF Requeue, OInv, Types, Placed, Working
<1>2. UNCHANGED <<balance, granted, external>> BY DEF Requeue
<1>3. CASE submissions[t].status # "arrears"
  <2>1. submissions' = submissions BY <1>1, <1>3 DEF Requeue
  <2>2. QED BY <1>2, <2>1, Stutters
<1>4. CASE submissions[t].status = "arrears"
  <2> DEFINE row == [submissions[t] EXCEPT !.status = "pending", !.next = Past]
  <2>1. submissions[t] \in AnyRow BY DEF OInv, Types
  <2>2. row.status = "pending" /\ row.retries = submissions[t].retries
    BY <2>1, Zenon DEF AnyRow
  <2>3. submissions' = [submissions EXCEPT ![t] = row]
    BY <1>1, <1>4 DEF Requeue, OInv, Types
  <2> HIDE DEF row
  <2>4. Ledger!Move(t, "arrears", "pending") /\ Attempts' = Attempts
    BY <1>4, <2>2, <2>3, RowMovesOnly
  <2>5. Ledger!Requeue(t)
    BY <1>2, <2>4 DEF Ledger!Requeue, Ledger!KeepAccounts, Attempts
  <2>6. QED BY <2>5 DEF Ledger!LedgerNext
<1>5. QED BY <1>3, <1>4

LEMMA ClaimSteps ==
  ASSUME OInv, NEW w \in Workers, ClaimCommit(w)
  PROVE  Ledger!LedgerNext \/ UNCHANGED Ledger!ledgerVars
<1> DEFINE c == thread[w]
<1>1. PICK t \in Tasks : t = c.task
  BY DEF ClaimCommit, OInv, Types, Placed
<1>2. UNCHANGED <<balance, granted, external>> BY DEF ClaimCommit
<1> DEFINE new == Claimed(submissions[t], w, c.gen + 1, c.at + Lease)
           row == IF c.pc = "claim_pending" THEN [new EXCEPT !.next = Past] ELSE new
<1>3. submissions[t] \in AnyRow BY DEF OInv, Types
<1>4. new.status = "processing" /\ new.retries = submissions[t].retries /\ new \in AnyRow
  <2>1. c.gen + 1 \in Nat /\ c.at + Lease \in Int BY NumberAssumption DEF OInv, Types, Thread
  <2>2. new \in AnyRow BY <1>3, <2>1, ClaimedTyped
  <2>3. new.status = "processing" /\ new.retries = submissions[t].retries
    BY <1>3, Zenon DEF Claimed, AnyRow
  <2>4. QED BY <2>2, <2>3
<1>5. [new EXCEPT !.next = Past].status = "processing"
      /\ [new EXCEPT !.next = Past].retries = submissions[t].retries
  BY <1>4, Zenon DEF AnyRow
<1>6. row.status = "processing" /\ row.retries = submissions[t].retries
  BY <1>4, <1>5
<1>7. submissions' = [submissions EXCEPT ![t] = row]
  BY <1>1 DEF ClaimCommit, ClaimUpdate
<1> HIDE DEF row
<1>8. Ledger!Move(t, submissions[t].status, "processing") /\ Attempts' = Attempts
  BY <1>6, <1>7, RowMovesOnly
<1>9. CASE submissions[t].status = "pending"
  <2>1. Ledger!Take(t)
    BY <1>2, <1>8, <1>9 DEF Ledger!Take, Ledger!KeepAccounts, Attempts
  <2>2. QED BY <2>1 DEF Ledger!LedgerNext
<1>10. CASE submissions[t].status = "processing"
  <2>1. \A s \in Tasks : submissions'[s].status = submissions[s].status
                         /\ submissions'[s].retries = submissions[s].retries
    BY <1>6, <1>7, <1>10, OneRow
  <2>2. QED BY <1>2, <2>1, Stutters
<1>11. QED BY <1>1, <1>9, <1>10 DEF ClaimCommit, CanClaim

LEMMA FinalizeSteps ==
  ASSUME OInv, NEW w \in Workers, Finalize(w)
  PROVE  \E t \in Tasks : Ledger!Complete(t)
<1>1. PICK t \in Tasks : t = thread[w].task
  BY FencedIsFresh DEF Finalize, Working
<1> DEFINE row == Leave(submissions[t], "done", submissions[t].retries, submissions[t].next)
<1>2. submissions[t] \in AnyRow BY DEF OInv, Types
<1>3. row.status = "done" /\ row.retries = submissions[t].retries
  <2>1. submissions[t].retries \in Nat /\ submissions[t].next \in Int BY <1>2 DEF AnyRow
  <2>2. QED BY <1>2, <2>1, LeaveRow, StagesNamed
<1>4. submissions' = [submissions EXCEPT ![t] = row] BY <1>1 DEF Finalize
<1> HIDE DEF row
<1>5. submissions[t].status = "processing" BY <1>1 DEF Finalize, Fence
<1>6. Ledger!Move(t, "processing", "done") /\ Attempts' = Attempts
  BY <1>3, <1>4, <1>5, RowMovesOnly
<1>7. UNCHANGED granted BY DEF Finalize
<1>8. CASE UsesExternal(w)
  BY <1>1, <1>6, <1>7, <1>8 DEF Finalize, Affordable, Ledger!Complete, Attempts
<1>9. CASE ~UsesExternal(w)
  BY <1>1, <1>6, <1>7, <1>9 DEF Finalize, Ledger!Complete, Attempts
<1>10. QED BY <1>8, <1>9

\* A heartbeat and the clock only move instants.
LEMMA TimeSteps ==
  ASSUME OInv, Tick \/ \E r \in renewals : RenewCommit(r)
  PROVE  UNCHANGED Ledger!ledgerVars
<1>1. UNCHANGED <<balance, granted, external>> BY DEF Tick, RenewCommit
<1>2. CASE Tick
  <2>1. ASSUME NEW t \in Tasks
        PROVE  submissions'[t].status = submissions[t].status
               /\ submissions'[t].retries = submissions[t].retries
    <3>1. submissions[t] \in AnyRow BY DEF OInv, Types
    <3>2. submissions'[t] = [submissions[t] EXCEPT !.lease = Aged(submissions[t].lease),
                                                   !.next = Aged(submissions[t].next)]
      BY <1>2, <3>1 DEF Tick, AnyRow
    <3>3. QED BY <3>1, <3>2 DEF AnyRow
  <2>2. QED BY <1>1, <2>1, Stutters
<1>3. CASE \E r \in renewals : RenewCommit(r)
  <2>1. PICK r \in renewals : RenewCommit(r) BY <1>3
  <2>2. r.task \in Tasks /\ submissions[r.task] \in AnyRow BY DEF OInv, Types, Renewal
  <2>3. LET row == [submissions[r.task] EXCEPT !.lease = r.at + Lease] IN
        row.status = submissions[r.task].status /\ row.retries = submissions[r.task].retries
    BY <2>2, Zenon DEF AnyRow
  <2>4. \A t \in Tasks : submissions'[t].status = submissions[t].status
                         /\ submissions'[t].retries = submissions[t].retries
    BY <2>1, <2>2, <2>3 DEF RenewCommit, OInv, Types
  <2>5. QED BY <1>1, <2>4, Stutters
<1>4. QED BY <1>2, <1>3

LEMMA ApiSteps ==
  ASSUME OInv, (\E t \in Tasks : Accept(t)) \/ (\E u \in Users : Grant(u))
  PROVE  Ledger!LedgerNext
<1>1. ASSUME NEW t \in Tasks, Accept(t) PROVE Ledger!LedgerNext
  <2> DEFINE row == [submissions[t] EXCEPT !.status = "pending"]
  <2>1. submissions[t] \in AnyRow BY DEF OInv, Types
  <2>2. row.status = "pending" /\ row.retries = submissions[t].retries BY <2>1, Zenon DEF AnyRow
  <2>3. submissions' = [submissions EXCEPT ![t] = row] BY <1>1 DEF Accept, OInv, Types
  <2> HIDE DEF row
  <2>4. Ledger!Move(t, "uploading", "pending") /\ Attempts' = Attempts
    BY <1>1, <2>2, <2>3, RowMovesOnly DEF Accept
  <2>5. Ledger!Accept(t)
    BY <1>1, <2>4 DEF Accept, Ledger!Accept, Ledger!KeepAccounts, Attempts
  <2>6. QED BY <2>5 DEF Ledger!LedgerNext
<1>2. ASSUME NEW u \in Users, Grant(u) PROVE Ledger!LedgerNext
  <2>1. Ledger!Grant(u) BY <1>2 DEF Grant, Ledger!Grant
  <2>2. QED BY <2>1 DEF Ledger!LedgerNext
<1>3. QED BY <1>1, <1>2

LEMMA StepRefines ==
  ASSUME OInv, [Next]_vars
  PROVE  [Ledger!LedgerNext]_(Ledger!ledgerVars)
<1>1. CASE UNCHANGED <<submissions, balance, granted, external>>
  BY <1>1, Stutters
<1>2. CASE \E w \in Workers : ThreadStep(w)
  <2>1. PICK w \in Workers : ThreadStep(w) BY <1>2
  <2>2. CASE WriteArrears(w) \/ WriteBlocked(w) \/ WriteRetry(w) \/ WriteDeadLetter(w)
    BY <2>2, WritingSteps
  <2>3. CASE Requeue(w) BY <2>3, RequeueSteps
  <2>4. CASE ClaimCommit(w) BY <2>4, ClaimSteps
  <2>5. CASE Finalize(w) BY <2>5, FinalizeSteps DEF Ledger!LedgerNext
  <2>6. QED
    BY <1>1, <2>1, <2>2, <2>3, <2>4, <2>5
    DEF ThreadStep, RecoverFind, RecoverCheck, ClaimSelect, ClaimMiss, ClaimLoad,
        CheckQuota, CallModel, FinalizeRefused, CheckShortage, KeepTables
<1>3. CASE Tick \/ \E r \in renewals : RenewCommit(r)
  BY <1>3, TimeSteps
<1>4. CASE (\E t \in Tasks : Accept(t)) \/ (\E u \in Users : Grant(u))
  BY <1>4, ApiSteps
<1>5. QED
  BY <1>1, <1>2, <1>3, <1>4
  DEF Next, Steps, Environment, HeartbeatBegin, Abandon, Restart, RenewError, KeepTables, vars

\* The threads keep the promise of TaskLedger: whatever leases expire, results
\* come late and processes die, every submission walks the edges of
\* state_machine.py, each failure is counted once, the last one is final, and a
\* completion pays for itself in the same step (db.py:355-521, worker.py).
THEOREM Refinement == Spec => ImplementsLedger
<1>1. Init => Ledger!LedgerInit
  BY NumberAssumption DEF Init, Reserved, Ledger!LedgerInit
<1>2. OInv /\ [Next]_vars => [Ledger!LedgerNext]_(Ledger!ledgerVars)
  BY StepRefines
<1>3. QED
  BY <1>1, <1>2, Typing, Ownership, PTL DEF Spec, OInv, ImplementsLedger, Ledger!LedgerSpec

-----------------------------------------------------------------------------
(* What accounts are worth.                                                 *)

Paid(u) == {t \in external : UserOf[t] = u}

CreditInv ==
  /\ IsFiniteSet(external)
  /\ \A t \in external : submissions[t].status = "done"
  /\ \A u \in Users : balance[u] + Cost * Cardinality(Paid(u)) = granted[u]

\* The instance of TaskLedger has its own name for Cardinality.
LEMMA SameCardinality == \A S : Ledger!Cardinality(S) = Cardinality(S)
BY DEF Cardinality, Ledger!Cardinality

LEMMA OneMore == \A n \in Nat : Cost * (n + 1) = Cost * n + Cost
BY NumberAssumption

\* The other steps of the ledger move no row that is done, and no credit.
LEMMA MovesKeepCredit ==
  ASSUME OInv, Types', CreditInv, NEW t \in Tasks, NEW from \in Statuses \ {"done"}, NEW to,
         Ledger!Move(t, from, to), Ledger!KeepAccounts
  PROVE  CreditInv'
<1>1. UNCHANGED <<balance, granted, external>> BY DEF Ledger!KeepAccounts
<1>2. \A s \in Tasks \ {t} : submissions'[s].status = submissions[s].status
  <2> DEFINE st == [s \in Tasks |-> submissions[s].status]
             new == [s \in Tasks |-> submissions'[s].status]
  <2>1. new = [st EXCEPT ![t] = to] BY DEF Ledger!Move
  <2>2. \A s \in Tasks \ {t} : new[s] = st[s] BY <2>1
  <2>3. QED BY <2>2
<1>3. submissions[t].status # "done" BY DEF Ledger!Move
<1>4. external \subseteq Tasks BY DEF OInv, Types
<1>5. QED BY <1>1, <1>2, <1>3, <1>4 DEF CreditInv, Paid

LEMMA CompleteKeepsCredit ==
  ASSUME OInv, CreditInv, NEW t \in Tasks, Ledger!Complete(t)
  PROVE  CreditInv'
<1> DEFINE st == [s \in Tasks |-> submissions[s].status]
           new == [s \in Tasks |-> submissions'[s].status]
<1>1. new = [st EXCEPT ![t] = "done"] /\ st[t] = "processing"
  BY DEF Ledger!Complete, Ledger!Move
<1>2. /\ submissions'[t].status = "done" /\ submissions[t].status = "processing"
      /\ \A s \in Tasks \ {t} : submissions'[s].status = submissions[s].status
  <2>1. \A s \in Tasks : new[s] = IF s = t THEN "done" ELSE st[s] BY <1>1
  <2>2. QED BY <1>1, <2>1
<1>3. external \subseteq Tasks /\ t \notin external
  BY <1>2 DEF OInv, Types, CreditInv
<1>4. UNCHANGED granted BY DEF Ledger!Complete
<1>5. CASE UNCHANGED <<balance, external>>
  BY <1>2, <1>3, <1>4, <1>5 DEF CreditInv, Paid
<1>6. CASE /\ balance[UserOf[t]] >= Cost
           /\ balance' = [balance EXCEPT ![UserOf[t]] = @ - Cost]
           /\ external' = external \cup {t}
  <2>1. PICK v \in Users : v = UserOf[t] BY UsersAssumption
  <2>2. IsFiniteSet(external') BY <1>6, FS_AddElement DEF CreditInv
  <2>3. \A s \in external' : submissions'[s].status = "done"
    BY <1>2, <1>3, <1>6 DEF CreditInv
  <2>4. ASSUME NEW u \in Users
        PROVE  balance'[u] + Cost * Cardinality(Paid(u)') = granted'[u]
    <3>1. balance[u] + Cost * Cardinality(Paid(u)) = granted[u] /\ IsFiniteSet(Paid(u))
      <4>1. IsFiniteSet(Paid(u)) BY FS_Subset DEF CreditInv, Paid
      <4>2. QED BY <4>1 DEF CreditInv
    <3>2. CASE u # v
      <4>1. Paid(u)' = Paid(u) BY <1>6, <2>1, <3>2 DEF Paid
      <4>2. balance'[u] = balance[u] BY <1>6, <2>1, <3>2 DEF OInv, Types
      <4>3. QED BY <1>4, <3>1, <4>1, <4>2
    <3>3. CASE u = v
      <4>1. Paid(u)' = Paid(u) \cup {t} /\ t \notin Paid(u)
        BY <1>3, <1>6, <2>1, <3>3 DEF Paid
      <4>2. Cardinality(Paid(u)') = Cardinality(Paid(u)) + 1 /\ Cardinality(Paid(u)) \in Nat
        BY <3>1, <4>1, FS_AddElement, FS_CardinalityType
      <4>3. balance'[u] = balance[u] - Cost /\ balance[u] \in Nat
        BY <1>6, <2>1, <3>3 DEF OInv, Types
      <4> DEFINE n == Cardinality(Paid(u))
      <4>4. Cost * Cardinality(Paid(u)') = Cost * n + Cost BY <4>2, OneMore
      <4>5. Cost * n \in Nat /\ Cost \in Nat BY <4>2, NumberAssumption
      <4>6. balance[u] + Cost * n = granted[u] BY <3>1
      <4> DEFINE m == Cost * n
      <4> HIDE DEF m
      <4>7. balance'[u] + Cost * Cardinality(Paid(u)') = balance[u] + m
        BY <4>3, <4>4, <4>5 DEF m
      <4>8. QED BY <1>4, <4>6, <4>7 DEF m
    <3>4. QED BY <3>2, <3>3
  <2>5. QED BY <2>2, <2>3, <2>4 DEF CreditInv
<1>7. QED BY <1>5, <1>6 DEF Ledger!Complete

LEMMA GrantKeepsCredit ==
  ASSUME OInv, CreditInv, NEW v \in Users, Ledger!Grant(v)
  PROVE  CreditInv'
<1>0. /\ balance' = [balance EXCEPT ![v] = @ + Cost]
      /\ granted' = [granted EXCEPT ![v] = @ + Cost]
      /\ UNCHANGED external
  BY DEF Ledger!Grant
<1>1. \A t \in Tasks : submissions'[t].status = submissions[t].status
  <2> DEFINE st == [t \in Tasks |-> submissions[t].status]
             new == [t \in Tasks |-> submissions'[t].status]
  <2>1. new = st BY DEF Ledger!Grant
  <2>2. \A t \in Tasks : new[t] = st[t] BY <2>1
  <2>3. QED BY <2>2
<1>2. ASSUME NEW u \in Users
      PROVE  balance'[u] + Cost * Cardinality(Paid(u)') = granted'[u]
  <2> DEFINE n == Cardinality(Paid(u))
             m == Cost * n
  <2>1. Paid(u)' = Paid(u) BY <1>0 DEF Paid
  <2>2. n \in Nat
    <3>1. IsFiniteSet(Paid(u)) BY FS_Subset DEF CreditInv, Paid
    <3>2. QED BY <3>1, FS_CardinalityType
  <2>3. m \in Nat /\ Cost \in Nat BY <2>2, NumberAssumption
  <2>4. balance[u] + m = granted[u] BY DEF CreditInv
  <2>5. Cost * Cardinality(Paid(u)') = m BY <2>1
  <2> HIDE DEF m
  <2>6. /\ balance'[u] = IF u = v THEN balance[u] + Cost ELSE balance[u]
        /\ granted'[u] = IF u = v THEN granted[u] + Cost ELSE granted[u]
        /\ balance[u] \in Nat /\ granted[u] \in Nat
    BY <1>0 DEF OInv, Types
  <2>7. QED BY <2>3, <2>4, <2>5, <2>6
<1>3. external \subseteq Tasks BY DEF OInv, Types
<1>4. QED BY <1>0, <1>1, <1>2, <1>3 DEF CreditInv

LEMMA CreditStep ==
  ASSUME OInv, Types', CreditInv, [Next]_vars
  PROVE  CreditInv'
<1>1. CASE UNCHANGED Ledger!ledgerVars
  <2>1. UNCHANGED <<balance, granted, external>> BY <1>1 DEF Ledger!ledgerVars
  <2>2. \A t \in Tasks : submissions'[t].status = submissions[t].status
    <3> DEFINE st == [t \in Tasks |-> submissions[t].status]
               new == [t \in Tasks |-> submissions'[t].status]
    <3>1. new = st BY <1>1 DEF Ledger!ledgerVars
    <3>2. \A t \in Tasks : new[t] = st[t] BY <3>1
    <3>3. QED BY <3>2
  <2>3. QED BY <2>1, <2>2 DEF CreditInv, Paid, OInv, Types
<1>2. CASE \E t \in Tasks : Ledger!Complete(t)
  BY <1>2, CompleteKeepsCredit
<1>3. CASE \E u \in Users : Ledger!Grant(u)
  BY <1>3, GrantKeepsCredit
<1>4. ASSUME NEW t \in Tasks,
             \/ Ledger!Accept(t) \/ Ledger!Take(t) \/ Ledger!Fail(t)
             \/ Ledger!PutBack(t) \/ Ledger!Suspend(t) \/ Ledger!Requeue(t)
      PROVE  CreditInv'
  <2>1. Ledger!KeepAccounts
    BY <1>4 DEF Ledger!Accept, Ledger!Take, Ledger!Fail, Ledger!PutBack, Ledger!Suspend, Ledger!Requeue
  <2>2. \E from \in Statuses \ {"done"}, to \in Statuses : Ledger!Move(t, from, to)
    BY <1>4, StagesNamed
    DEF Ledger!Accept, Ledger!Take, Ledger!Fail, Ledger!PutBack, Ledger!Suspend, Ledger!Requeue, Ledger!Move
  <2>3. QED BY <2>1, <2>2, MovesKeepCredit
<1>5. QED BY <1>1, <1>2, <1>3, <1>4, StepRefines DEF Ledger!LedgerNext

\* No account is charged twice, charged for a submission that is not done, or
\* left uncharged for one that is, in every interleaving of the threads
\* (db.py:458-521, billing.py:36).
THEOREM CreditIsConserved == Spec => []CreditConserved
<1>1. Init => CreditInv
  <2> SUFFICES ASSUME Init PROVE CreditInv OBVIOUS
  <2>1. external = {} /\ balance = granted /\ balance \in [Users -> Nat]
    BY UsersAssumption DEF Init
  <2>2. \A u \in Users : Paid(u) = {} BY <2>1 DEF Paid
  <2>3. Cardinality({}) = 0 /\ IsFiniteSet({}) BY FS_EmptySet
  <2>4. \A u \in Users : Cost * Cardinality(Paid(u)) = 0 /\ balance[u] \in Nat
    BY <2>1, <2>2, <2>3, NumberAssumption
  <2>5. QED BY <2>1, <2>3, <2>4 DEF CreditInv
<1>2. OInv /\ Types' /\ CreditInv /\ [Next]_vars => CreditInv'
  BY CreditStep
<1>3. OInv /\ CreditInv => CreditConserved
  BY SameCardinality DEF OInv, Types, CreditInv, Paid, CreditConserved, Ledger!CreditConserved
<1>4. QED
  BY <1>1, <1>2, <1>3, Typing, Ownership, PTL DEF Spec, OInv

-----------------------------------------------------------------------------
(* Claims.                                                                  *)

\* A claim, or a step that leaves the fencing columns alone or clears them.
TakenOver(t) ==
  /\ submissions'[t].gen = submissions[t].gen + 1
  /\ submissions[t].status = "processing" => submissions[t].lease <= 0
Renewed(t) ==
  \E r \in renewals :
    /\ r.task = t /\ r.owner = submissions[t].owner /\ r.gen = submissions[t].gen
    /\ RenewCommit(r)
StaysOrLeaves(t) ==
  /\ submissions'[t].gen = submissions[t].gen
  /\ submissions'[t].owner \in {submissions[t].owner, NoOwner}
  /\ submissions'[t].status = "processing" => submissions[t].status = "processing"
  /\ submissions'[t].status = "processing" /\ submissions'[t].lease > 0
       => submissions[t].lease > 0 \/ Renewed(t)

LEMMA StaysStays ==
  ASSUME NEW t \in Tasks, submissions'[t] = submissions[t]
  PROVE  StaysOrLeaves(t)
BY DEF StaysOrLeaves

LEMMA WriteEffect ==
  ASSUME OInv, NEW w \in Workers, NEW intent, NEW s \in Statuses \ {"processing"}, NEW n \in Nat,
         NEW i \in Int, WriteOwned(w, intent, Leave(submissions[thread[w].task], s, n, i)),
         NEW t \in Tasks
  PROVE  StaysOrLeaves(t)
<1>1. CASE submissions'[t] = submissions[t] BY <1>1, StaysStays
<1>2. CASE t = thread[w].task /\ submissions'[t] = Leave(submissions[t], s, n, i)
  <2>1. submissions[t] \in AnyRow BY DEF OInv, Types
  <2>2. LET r == Leave(submissions[t], s, n, i) IN
        r.gen = submissions[t].gen /\ r.owner = NoOwner /\ r.status = s
    BY <2>1, Zenon DEF Leave, AnyRow
  <2>3. QED BY <1>2, <2>2 DEF StaysOrLeaves
<1>3. QED BY <1>1, <1>2 DEF WriteOwned, OInv, Types

LEMMA ThreadEffect ==
  ASSUME OInv, NEW w \in Workers, ThreadStep(w), NEW t \in Tasks
  PROVE  TakenOver(t) \/ StaysOrLeaves(t)
<1> DEFINE c == thread[w]
           r == submissions[c.task]
<1>0. submissions[t] \in AnyRow BY DEF OInv, Types
<1>1. CASE submissions' = submissions BY <1>1, StaysStays
<1>2. CASE Requeue(w)
  <2>1. CASE submissions'[t] = submissions[t] BY <2>1, StaysStays
  <2>2. CASE submissions'[t] = [submissions[t] EXCEPT !.status = "pending", !.next = Past]
    BY <1>0, <2>2 DEF StaysOrLeaves, AnyRow
  <2>3. QED BY <1>2, <2>1, <2>2 DEF Requeue, OInv, Types
<1>3. CASE ClaimCommit(w)
  <2>1. CASE submissions'[t] = submissions[t] BY <2>1, StaysStays
  <2>2. CASE t = c.task
    <3>1. r.gen = c.gen /\ (submissions[t].status = "processing" => submissions[t].lease <= c.at)
      BY <1>3, <2>2 DEF ClaimCommit, CanClaim
    <3>2. c.at <= 0 /\ c.at \in Int /\ submissions[t].lease \in Int
      BY <1>0 DEF OInv, Types, Placed, Thread, AnyRow
    <3> DEFINE new == Claimed(submissions[t], w, c.gen + 1, c.at + Lease)
    <3>3. submissions'[t] = new \/ submissions'[t] = [new EXCEPT !.next = Past]
      BY <1>3, <2>2, OneRow DEF ClaimCommit, ClaimUpdate
    <3>4. new.gen = c.gen + 1 /\ new \in AnyRow
      <4>1. c.gen + 1 \in Nat /\ c.at + Lease \in Int BY NumberAssumption DEF OInv, Types, Thread
      <4>2. new \in AnyRow BY <1>0, <4>1, ClaimedTyped
      <4>3. new.gen = c.gen + 1 BY <1>0, Zenon DEF Claimed, AnyRow
      <4>4. QED BY <4>2, <4>3
    <3>5. [new EXCEPT !.next = Past].gen = c.gen + 1 BY <3>4, Zenon DEF AnyRow
    <3>6. submissions'[t].gen = c.gen + 1 BY <3>3, <3>4, <3>5
    <3>7. QED BY <2>2, <3>1, <3>2, <3>6 DEF TakenOver
  <2>3. QED BY <1>3, <2>1, <2>2 DEF ClaimCommit, ClaimUpdate, OInv, Types
<1>4. CASE c.pc = "write"
  <2>1. c \in Thread /\ c.task \in Tasks BY <1>4 DEF OInv, Types, Placed
  <2>2. c.rc \in Nat /\ c.rc + 1 \in Nat /\ c.at \in Int /\ c.at + ControlBlockRetry \in Int
        /\ r.retries \in Nat /\ r.next \in Int
    BY <2>1, NumberAssumption DEF Thread, OInv, Types, AnyRow
  <2>3. CASE WriteArrears(w) BY <2>2, <2>3, WriteEffect, StagesNamed DEF WriteArrears
  <2>4. CASE WriteBlocked(w) BY <2>2, <2>4, WriteEffect, StagesNamed DEF WriteBlocked
  <2>5. CASE WriteDeadLetter(w) BY <2>2, <2>5, WriteEffect, StagesNamed DEF WriteDeadLetter
  <2>6. CASE WriteRetry(w)
    <3>1. PICK delay \in 0..RetryCap(c.rc + 1) :
            WriteOwned(w, "retry", Leave(submissions[c.task], "pending", c.rc + 1, c.at + delay))
      BY <2>6 DEF WriteRetry
    <3>2. c.at + delay \in Int BY <2>2
    <3>3. QED BY <2>2, <3>1, <3>2, WriteEffect, StagesNamed
  <2>7. QED
    BY <1>1, <1>2, <1>3, <1>4, <2>3, <2>4, <2>5, <2>6
    DEF ThreadStep, RecoverFind, RecoverCheck, ClaimSelect, ClaimMiss, ClaimLoad, CheckQuota,
        CallModel, Finalize, FinalizeRefused, CheckShortage, KeepTables
<1>5. CASE Finalize(w)
  <2>1. CASE submissions'[t] = submissions[t] BY <2>1, StaysStays
  <2>2. CASE t = c.task
    <3>1. submissions'[t] = Leave(submissions[t], "done", submissions[t].retries, submissions[t].next)
      BY <1>5, <2>2, OneRow DEF Finalize
    <3>2. LET new == Leave(submissions[t], "done", submissions[t].retries, submissions[t].next) IN
          new.gen = submissions[t].gen /\ new.owner = NoOwner /\ new.status = "done"
      BY <1>0, Zenon DEF Leave, AnyRow
    <3>3. QED BY <3>1, <3>2 DEF StaysOrLeaves
  <2>3. QED BY <1>5, <2>1, <2>2 DEF Finalize, OInv, Types
<1>6. QED
  BY <1>1, <1>2, <1>3, <1>4, <1>5
  DEF ThreadStep, RecoverFind, RecoverCheck, ClaimSelect, ClaimMiss, ClaimLoad, CheckQuota, CallModel,
      FinalizeRefused, CheckShortage, WriteArrears, WriteBlocked, WriteRetry, WriteDeadLetter,
      WriteOwned, KeepTables

LEMMA StepEffect ==
  ASSUME OInv, [Next]_vars, NEW t \in Tasks
  PROVE  TakenOver(t) \/ StaysOrLeaves(t)
<1>0. submissions[t] \in AnyRow BY DEF OInv, Types
<1>1. CASE submissions' = submissions BY <1>1, StaysStays
<1>2. CASE \E w \in Workers : ThreadStep(w) BY <1>2, ThreadEffect
<1>3. CASE Tick
  <2>1. submissions'[t] = [submissions[t] EXCEPT !.lease = Aged(submissions[t].lease),
                                                 !.next = Aged(submissions[t].next)]
    BY <1>0, <1>3 DEF Tick, AnyRow
  <2>2. submissions[t].lease \in Int BY <1>0 DEF AnyRow
  <2>3. Aged(submissions[t].lease) > 0 => submissions[t].lease > 0
    BY <2>2, PastInt DEF Aged
  <2>4. QED BY <1>0, <2>1, <2>3 DEF AnyRow, StaysOrLeaves
<1>4. CASE \E r \in renewals : RenewCommit(r)
  <2>1. PICK r \in renewals : RenewCommit(r) BY <1>4
  <2>2. CASE submissions'[t] = submissions[t] BY <2>2, StaysStays
  <2>3. CASE /\ submissions'[t] = [submissions[t] EXCEPT !.lease = r.at + Lease]
             /\ r.task = t /\ Fence(r.task, r.owner, r.gen, r.at)
    <3>1. Renewed(t) BY <2>1, <2>3 DEF Renewed, Fence
    <3>2. QED BY <1>0, <2>3, <3>1 DEF AnyRow, StaysOrLeaves
  <2>4. QED BY <2>1, <2>2, <2>3 DEF RenewCommit, OInv, Types
<1>5. CASE \E s \in Tasks : Accept(s)
  <2>1. \/ submissions'[t] = submissions[t]
        \/ submissions'[t] = [submissions[t] EXCEPT !.status = "pending"]
    BY <1>5 DEF Accept, OInv, Types
  <2>2. QED BY <1>0, <2>1 DEF AnyRow, StaysOrLeaves
<1>6. QED
  BY <1>1, <1>2, <1>3, <1>4, <1>5
  DEF Next, Steps, Environment, HeartbeatBegin, Abandon, Restart, RenewError, Grant, KeepTables, vars

\* A generation is a fencing token: it grows with each claim and at no other
\* time, and no lease in force is taken over (db.py:355-427).
THEOREM LeasesAreRespected == Spec => TakeOverNeedsExpiry
<1>1. OInv /\ [Next]_vars =>
        [\A t \in Tasks :
           /\ submissions'[t].gen \in {submissions[t].gen, submissions[t].gen + 1}
           /\ submissions'[t].owner \notin {submissions[t].owner, NoOwner}
                => submissions'[t].gen = submissions[t].gen + 1
           /\ submissions[t].status = "processing" /\ submissions[t].lease > 0
                => submissions'[t].gen = submissions[t].gen]_vars
  <2> SUFFICES ASSUME OInv, [Next]_vars, NEW t \in Tasks
      PROVE  /\ submissions'[t].gen \in {submissions[t].gen, submissions[t].gen + 1}
             /\ submissions'[t].owner \notin {submissions[t].owner, NoOwner}
                  => submissions'[t].gen = submissions[t].gen + 1
             /\ submissions[t].status = "processing" /\ submissions[t].lease > 0
                  => submissions'[t].gen = submissions[t].gen
    OBVIOUS
  <2>1. submissions[t] \in AnyRow BY DEF OInv, Types
  <2>2. QED BY <2>1, StepEffect DEF TakenOver, StaysOrLeaves, AnyRow
<1>2. QED
  BY <1>1, Typing, Ownership, PTL DEF Spec, OInv, TakeOverNeedsExpiry

-----------------------------------------------------------------------------
(* Lost claims.                                                             *)

SameBeat(r, s) == r.owner = s.owner /\ r.task = s.task /\ r.gen = s.gen
BeatOf(r, w) == r.owner = w /\ r.task = thread[w].task /\ r.gen = thread[w].gen

\* One renewal at most is under way for a claim, none for a claim that was lost:
\* a late one could bring the lease back.
LostInv ==
  /\ \A r, s \in renewals : SameBeat(r, s) => r = s
  /\ \A w \in Workers : thread[w].lost =>
       /\ thread[w].pc \in Working
       /\ ~Fence(thread[w].task, w, thread[w].gen, 0)
       /\ \A r \in renewals : ~BeatOf(r, w)

\* The thread has not just learnt that its claim is lost.
Informed(w) ==
  thread'[w].lost =>
    /\ thread[w].lost /\ thread'[w].pc \in Working
    /\ thread'[w].task = thread[w].task /\ thread'[w].gen = thread[w].gen

LEMMA StageInformed ==
  ASSUME OInv, LostInv, NEW w \in Workers, NEW rec, ToStage(w, rec),
         rec.lost => /\ thread[w].lost /\ rec.pc \in Working
                     /\ rec.task = thread[w].task /\ rec.gen = thread[w].gen
  PROVE  \A v \in Workers : Informed(v)
<1>1. ASSUME NEW v \in Workers PROVE Informed(v)
  <2>1. thread'[v] = IF v = w THEN rec ELSE thread[v] BY DEF ToStage, OInv, Types
  <2>2. QED BY <2>1 DEF Informed, LostInv
<1>2. QED BY <1>1

LEMMA ThreadInformed ==
  ASSUME OInv, LostInv, NEW w \in Workers, ThreadStep(w)
  PROVE  \A v \in Workers : Informed(v)
<1> DEFINE c == thread[w]
<1>0. c \in Thread BY DEF OInv, Types
<1>1. /\ ~Idle.lost /\ ~[Idle EXCEPT !.pc = "select"].lost
      /\ \A t \in Tasks : ~[Idle EXCEPT !.pc = "recover", !.task = t].lost
  BY DEF Idle
<1>2. CASE c.pc \notin Working
  <2>1. ~c.lost BY <1>2 DEF LostInv
  <2>2. ASSUME NEW rec, ToStage(w, rec), ~rec.lost PROVE \A v \in Workers : Informed(v)
    BY <2>2, StageInformed
  <2>3. ASSUME NEW pc, NEW t, NEW g, NEW n
        PROVE  /\ ~[c EXCEPT !.pc = pc].lost
               /\ ~[c EXCEPT !.pc = pc, !.task = t, !.gen = g].lost
               /\ ~[c EXCEPT !.pc = pc, !.at = 0, !.won = n].lost
               /\ ~[c EXCEPT !.pc = pc, !.gen = g, !.rc = n].lost
    BY <1>0, <2>1, Zenon DEF Thread
  <2>4. CASE RecoverFind(w) BY <1>1, <2>2, <2>4 DEF RecoverFind
  <2>5. CASE RecoverCheck(w) BY <1>1, <2>2, <2>3, <2>5 DEF RecoverCheck
  <2>6. CASE Requeue(w) BY <1>1, <2>2, <2>6 DEF Requeue
  <2>7. CASE ClaimSelect(w) BY <1>1, <2>2, <2>3, <2>7 DEF ClaimSelect
  <2>8. CASE ClaimCommit(w) BY <2>2, <2>3, <2>8 DEF ClaimCommit, ClaimUpdate
  <2>9. CASE ClaimMiss(w) BY <1>1, <2>2, <2>9 DEF ClaimMiss
  <2>10. CASE ClaimLoad(w) BY <2>2, <2>3, <2>10 DEF ClaimLoad
  <2>11. QED
    BY <1>2, <2>4, <2>5, <2>6, <2>7, <2>8, <2>9, <2>10
    DEF ThreadStep, CheckQuota, CallModel, WriteArrears, WriteBlocked, WriteRetry, WriteDeadLetter,
        WriteOwned, Finalize, FinalizeRefused, CheckShortage, Working
<1>3. CASE c.pc \in Working
  <2>1. CASE ToStage(w, Idle) BY <1>1, <2>1, StageInformed
  <2>2. ASSUME NEW pc \in Working, NEW i, NEW rec \in {[c EXCEPT !.pc = pc], Intend(c, i)}, ToStage(w, rec)
        PROVE  \A v \in Workers : Informed(v)
    <3>1. /\ rec.lost = c.lost /\ rec.task = c.task /\ rec.gen = c.gen
          /\ rec.pc = pc \/ rec.pc = "write"
      BY <1>0, <2>2, Zenon DEF Thread, Intend
    <3>2. "write" \in Working BY DEF Working
    <3>3. QED BY <2>2, <3>1, <3>2, StageInformed
  <2>3. CASE CallModel(w) /\ ~c.lost
    <3>1. PICK result \in ModelResults(c.task, c.rc, backend[w]) : ToStage(w, Decide(c, result))
      BY <2>3 DEF CallModel
    <3>2. result \in {"ok", "fail", "blocked"} BY DEF ModelResults
    <3>3. ASSUME NEW i PROVE ~Intend(c, i).lost BY <1>0, <2>3, Zenon DEF Thread, Intend
    <3>4. ~[c EXCEPT !.pc = "finalize", !.at = 0].lost BY <1>0, <2>3, Zenon DEF Thread
    <3>5. ~Decide(c, result).lost BY <3>2, <3>3, <3>4 DEF Decide
    <3>6. QED BY <3>1, <3>5, StageInformed
  <2>4. CASE CallModel(w) /\ c.lost BY <2>1, <2>4 DEF CallModel
  <2>5. CASE CheckQuota(w)
    BY <2>1, <2>2, <2>5 DEF CheckQuota, Working
  <2>6. CASE FinalizeRefused(w)
    BY <2>1, <2>2, <2>6 DEF FinalizeRefused, Working
  <2>7. CASE CheckShortage(w)
    BY <2>1, <2>2, <2>7 DEF CheckShortage, Working
  <2>8. CASE \/ WriteArrears(w) \/ WriteBlocked(w) \/ WriteRetry(w) \/ WriteDeadLetter(w)
             \/ Finalize(w)
    BY <2>1, <2>8 DEF WriteArrears, WriteBlocked, WriteRetry, WriteDeadLetter, WriteOwned, Finalize
  <2>9. QED
    BY <1>3, <2>3, <2>4, <2>5, <2>6, <2>7, <2>8
    DEF ThreadStep, RecoverFind, RecoverCheck, Requeue, ClaimSelect, ClaimCommit, ClaimMiss, ClaimLoad, Working
<1>4. QED BY <1>2, <1>3

\* A claim that is lost stays lost.
LEMMA StillLost ==
  ASSUME OInv, LostInv, [Next]_vars, NEW w \in Workers, thread[w].lost
  PROVE  ~(/\ submissions'[thread[w].task].status = "processing"
           /\ submissions'[thread[w].task].owner = w
           /\ submissions'[thread[w].task].gen = thread[w].gen
           /\ submissions'[thread[w].task].lease > 0)
<1> DEFINE c == thread[w]
<1>1. c.pc \in Working /\ ~Fence(c.task, w, c.gen, 0) /\ \A r \in renewals : ~BeatOf(r, w)
  BY DEF LostInv
<1>2. PICK t \in Tasks : t = c.task BY <1>1 DEF OInv, Types, Placed, Working
<1>3. c.gen <= submissions[t].gen BY <1>1, <1>2 DEF OInv, OwnershipInv, ClaimsKept
<1>4. c.gen \in Nat /\ submissions[t].gen \in Nat BY DEF OInv, Types, Thread, AnyRow
<1>5. CASE TakenOver(t) BY <1>2, <1>3, <1>4, <1>5 DEF TakenOver
<1>6. CASE StaysOrLeaves(t)
  <2>1. w # NoOwner BY OwnerAssumption
  <2>2. QED BY <1>1, <1>2, <1>6, <2>1 DEF StaysOrLeaves, Renewed, BeatOf, Fence
<1>7. QED BY <1>5, <1>6, StepEffect

LEMMA InformedKeep ==
  ASSUME OInv, LostInv, [Next]_vars, \A w \in Workers : Informed(w), renewals' \subseteq renewals
  PROVE  LostInv'
<1>1. ASSUME NEW w \in Workers, thread'[w].lost
      PROVE  /\ thread'[w].pc \in Working
             /\ ~Fence(thread[w].task, w, thread[w].gen, 0)'
             /\ thread'[w].task = thread[w].task /\ thread'[w].gen = thread[w].gen
             /\ \A r \in renewals : ~BeatOf(r, w)
  <2>1. /\ thread[w].lost /\ thread'[w].pc \in Working
        /\ thread'[w].task = thread[w].task /\ thread'[w].gen = thread[w].gen
    BY <1>1 DEF Informed
  <2>2. \A r \in renewals : ~BeatOf(r, w) BY <2>1 DEF LostInv
  <2>3. ~(/\ submissions'[thread'[w].task].status = "processing"
          /\ submissions'[thread'[w].task].owner = w
          /\ submissions'[thread'[w].task].gen = thread'[w].gen
          /\ submissions'[thread'[w].task].lease > 0)
    BY <2>1, StillLost
  <2>4. QED BY <2>1, <2>2, <2>3 DEF Fence
<1>2. \A r, s \in renewals' : SameBeat(r, s) => r = s BY DEF LostInv
<1>3. QED BY <1>1, <1>2 DEF LostInv, BeatOf, Fence

LEMMA BeatKeeps ==
  ASSUME OInv, LostInv, [Next]_vars, NEW v \in Workers, HeartbeatBegin(v)
  PROVE  LostInv'
<1> DEFINE b == [owner |-> v, task |-> thread[v].task, gen |-> thread[v].gen, at |-> 0]
<1>1. /\ renewals' = renewals \cup {b} /\ UNCHANGED <<thread, submissions>> /\ ~thread[v].lost
      /\ \A r \in renewals : ~BeatOf(r, v)
  BY DEF HeartbeatBegin, KeepTables, BeatOf
<1>2. b.owner = v /\ b.task = thread[v].task /\ b.gen = thread[v].gen OBVIOUS
<1> HIDE DEF b
<1>3. \A r, s \in renewals' : SameBeat(r, s) => r = s
  BY <1>1, <1>2 DEF LostInv, SameBeat, BeatOf
<1>4. ASSUME NEW w \in Workers, thread'[w].lost
      PROVE  /\ thread'[w].pc \in Working /\ ~Fence(thread[w].task, w, thread[w].gen, 0)'
             /\ \A r \in renewals' : ~BeatOf(r, w)
  <2>1. w # v /\ thread[w].lost BY <1>1, <1>4
  <2>2. QED BY <1>1, <1>2, <2>1 DEF LostInv, BeatOf, Fence
<1>5. QED BY <1>1, <1>3, <1>4 DEF LostInv, BeatOf, Fence

LEMMA CommitKeeps ==
  ASSUME OInv, LostInv, [Next]_vars, NEW r \in renewals, RenewCommit(r)
  PROVE  LostInv'
<1> DEFINE c == thread[r.owner]
<1>0. r.owner \in Workers /\ r.task \in Tasks /\ r.at \in Int /\ r.at <= 0 /\ r.gen \in Nat
  BY DEF OInv, Types, Renewal
<1>1. renewals' = renewals \ {r} BY DEF RenewCommit
<1>2. CASE UNCHANGED thread
  <2>1. \A w \in Workers : Informed(w) BY <1>2 DEF Informed, LostInv
  <2>2. QED BY <1>1, <2>1, InformedKeep
<1>3. CASE /\ ~Fence(r.task, r.owner, r.gen, r.at) /\ UNCHANGED submissions
           /\ c.pc \in Working /\ c.task = r.task /\ c.gen = r.gen
           /\ ToStage(r.owner, [c EXCEPT !.lost = TRUE])
  <2>1. c \in Thread BY <1>0 DEF OInv, Types
  <2>2. /\ thread'[r.owner].pc = c.pc /\ thread'[r.owner].task = r.task
        /\ thread'[r.owner].gen = r.gen
        /\ \A w \in Workers \ {r.owner} : thread'[w] = thread[w]
    BY <1>0, <1>3, <2>1 DEF ToStage, Thread, OInv, Types
  <2>3. submissions[r.task].lease \in Int BY <1>0 DEF OInv, Types, AnyRow
  <2>4. ~Fence(r.task, r.owner, r.gen, 0) BY <1>0, <1>3, <2>3 DEF Fence
  <2>5. \A q \in renewals' : ~SameBeat(q, r) BY <1>1 DEF LostInv
  <2>6. \A q, s \in renewals' : SameBeat(q, s) => q = s BY <1>1 DEF LostInv
  <2>7. ASSUME NEW w \in Workers, thread'[w].lost
        PROVE  /\ thread'[w].pc \in Working
               /\ ~Fence(thread'[w].task, w, thread'[w].gen, 0)
               /\ \A q \in renewals' : ~(q.owner = w /\ q.task = thread'[w].task /\ q.gen = thread'[w].gen)
    <3>1. CASE w = r.owner BY <1>3, <2>2, <2>4, <2>5, <3>1 DEF SameBeat
    <3>2. CASE w # r.owner BY <1>1, <2>2, <2>7, <3>2 DEF LostInv, BeatOf
    <3>3. QED BY <3>1, <3>2
  <2>8. QED BY <1>3, <2>6, <2>7 DEF LostInv, BeatOf, Fence
<1>4. QED BY <1>2, <1>3 DEF RenewCommit

LEMMA TickKeepsLost ==
  ASSUME OInv, LostInv, [Next]_vars, Tick
  PROVE  LostInv'
<1> DEFINE Older(r) == [r EXCEPT !.at = @ - 1]
<1>1. renewals' = {Older(r) : r \in renewals} BY DEF Tick
<1>2. \A r \in renewals : Older(r).owner = r.owner /\ Older(r).task = r.task /\ Older(r).gen = r.gen
  BY DEF OInv, Types, Renewal
<1> HIDE DEF Older
<1>3. \A r, s \in renewals' : SameBeat(r, s) => r = s
  BY <1>1, <1>2 DEF LostInv, SameBeat
<1>4. \A w \in Workers : /\ thread'[w].lost = thread[w].lost /\ thread'[w].pc = thread[w].pc
                         /\ thread'[w].task = thread[w].task /\ thread'[w].gen = thread[w].gen
  <2>1. ASSUME NEW w \in Workers
        PROVE  LET d == [thread[w] EXCEPT !.at = @ - 1] IN
               /\ d.lost = thread[w].lost /\ d.pc = thread[w].pc
               /\ d.task = thread[w].task /\ d.gen = thread[w].gen
    BY DEF OInv, Types, Thread
  <2>2. QED BY <2>1 DEF Tick
<1>5. ASSUME NEW w \in Workers, thread'[w].lost
      PROVE  /\ thread'[w].pc \in Working
             /\ ~Fence(thread[w].task, w, thread[w].gen, 0)'
             /\ \A q \in renewals' : ~(q.owner = w /\ q.task = thread'[w].task /\ q.gen = thread'[w].gen)
  <2>1. thread[w].lost BY <1>4, <1>5
  <2>2. thread'[w].pc \in Working /\ \A q \in renewals : ~BeatOf(q, w) BY <1>4, <2>1 DEF LostInv
  <2>3. ~(/\ submissions'[thread'[w].task].status = "processing"
          /\ submissions'[thread'[w].task].owner = w
          /\ submissions'[thread'[w].task].gen = thread'[w].gen
          /\ submissions'[thread'[w].task].lease > 0)
    BY <1>4, <2>1, StillLost
  <2>4. QED BY <1>1, <1>2, <1>4, <2>2, <2>3 DEF Fence, BeatOf
<1>6. QED BY <1>3, <1>5 DEF LostInv, BeatOf, Fence

LEMMA LostStep ==
  ASSUME OInv, LostInv, [Next]_vars
  PROVE  LostInv'
<1>1. CASE \E w \in Workers : ThreadStep(w)
  <2>1. UNCHANGED renewals
    BY <1>1
    DEF ThreadStep, RecoverFind, RecoverCheck, Requeue, ClaimSelect, ClaimCommit, ClaimMiss, ClaimLoad,
        CheckQuota, CallModel, WriteArrears, WriteBlocked, WriteRetry, WriteDeadLetter, WriteOwned,
        Finalize, FinalizeRefused, CheckShortage, KeepEnv
  <2>2. QED BY <1>1, <2>1, ThreadInformed, InformedKeep
<1>2. CASE \E w \in Workers : HeartbeatBegin(w) BY <1>2, BeatKeeps
<1>3. CASE \E r \in renewals : RenewCommit(r) BY <1>3, CommitKeeps
<1>4. CASE Tick BY <1>4, TickKeepsLost
<1>5. CASE \E w \in Workers : Abandon(w) \/ Restart(w)
  <2>1. PICK w \in Workers : ToStage(w, Idle) BY <1>5 DEF Abandon, Restart
  <2>2. ~Idle.lost BY DEF Idle
  <2>3. \A v \in Workers : Informed(v) BY <2>1, <2>2, StageInformed
  <2>4. renewals' \subseteq renewals BY <1>5 DEF Abandon, Restart
  <2>5. QED BY <2>3, <2>4, InformedKeep
<1>6. CASE UNCHANGED thread /\ renewals' \subseteq renewals
  <2>1. \A w \in Workers : Informed(w) BY <1>6 DEF Informed, LostInv
  <2>2. QED BY <1>6, <2>1, InformedKeep
<1>7. QED
  BY <1>1, <1>2, <1>3, <1>4, <1>5, <1>6
  DEF Next, Steps, Environment, RenewError, Accept, Grant, KeepEnv, vars

\* A thread that was told its claim is lost did lose it: no result it throws
\* away would have passed the fence.  The proof needs that no second renewal of
\* the claim is under way, which could still bring the lease back
\* (worker.py:40-107, db.py:402-427).
THEOREM LostIsLost == Spec => []LostMeansLost
<1>1. Init => LostInv
  BY DEF Init, LostInv, Idle
<1>2. OInv /\ LostInv /\ [Next]_vars => LostInv'
  BY LostStep
<1>3. LostInv => LostMeansLost
  BY DEF LostInv, LostMeansLost
<1>4. QED
  BY <1>1, <1>2, <1>3, Typing, Ownership, PTL DEF Spec, OInv

-----------------------------------------------------------------------------
(* The way of a submission, one row at a time.                              *)

\* state_machine.ALLOWED, the edge of the upload path included.
Edges == {<<"uploading", "pending">>, <<"pending", "processing">>,
          <<"processing", "done">>, <<"processing", "pending">>,
          <<"processing", "dlq">>, <<"processing", "arrears">>,
          <<"arrears", "pending">>}

\* The status of a row moves along the edges or not at all.
Walks(t) ==
  \/ submissions'[t].status = submissions[t].status
  \/ <<submissions[t].status, submissions'[t].status>> \in Edges

\* A failure is counted once, with the move that it causes.
Counts(t) ==
  LET n == submissions'[t].retries IN
  \/ n = submissions[t].retries
  \/ /\ submissions[t].status = "processing" /\ n = submissions[t].retries + 1
     /\ submissions'[t].status = IF n = MaxRetry THEN "dlq" ELSE "pending"

\* What a worker that dies, comes late or has lost its claim may do to a row is
\* what state_machine.ALLOWED lets anybody do, and no failure is forgotten or
\* counted twice: the last of them alone leads to the dead letter queue, and a row
\* that is done or there stays so (state_machine.py:8-17, db.py:355-521).
SubmissionsAdvance == [][\A t \in Tasks : Walks(t) /\ Counts(t)]_vars

LEMMA MoveEffect ==
  ASSUME NEW t \in Tasks, NEW from, NEW to, Ledger!Move(t, from, to)
  PROVE  /\ submissions[t].status = from /\ submissions'[t].status = to
         /\ \A s \in Tasks \ {t} : submissions'[s].status = submissions[s].status
<1> DEFINE old == [s \in Tasks |-> submissions[s].status]
           new == [s \in Tasks |-> submissions'[s].status]
<1>1. old[t] = from /\ new = [old EXCEPT ![t] = to] BY DEF Ledger!Move
<1>2. \A s \in Tasks : old[s] = submissions[s].status /\ new[s] = submissions'[s].status OBVIOUS
<1>3. \A s \in Tasks : new[s] = IF s = t THEN to ELSE old[s]
  <2>1. old \in [Tasks -> {old[s] : s \in Tasks}] OBVIOUS
  <2> HIDE DEF old, new
  <2>2. QED BY <1>1, <2>1
<1> HIDE DEF old, new
<1>4. QED BY <1>1, <1>2, <1>3

LEMMA AttemptsEffect ==
  ASSUME Attempts' = Attempts
  PROVE  \A s \in Tasks : submissions'[s].retries = submissions[s].retries
<1> DEFINE old == [s \in Tasks |-> submissions[s].retries]
           new == [s \in Tasks |-> submissions'[s].retries]
<1>1. new = old BY DEF Attempts
<1>2. \A s \in Tasks : old[s] = submissions[s].retries /\ new[s] = submissions'[s].retries OBVIOUS
<1> HIDE DEF old, new
<1>3. QED BY <1>1, <1>2

LEMMA FailEffect ==
  ASSUME NEW t \in Tasks, Attempts' = [Attempts EXCEPT ![t] = @ + 1]
  PROVE  /\ submissions'[t].retries = submissions[t].retries + 1
         /\ \A s \in Tasks \ {t} : submissions'[s].retries = submissions[s].retries
<1> DEFINE old == [s \in Tasks |-> submissions[s].retries]
           new == [s \in Tasks |-> submissions'[s].retries]
<1>1. new = [old EXCEPT ![t] = old[t] + 1] BY DEF Attempts
<1>2. \A s \in Tasks : old[s] = submissions[s].retries /\ new[s] = submissions'[s].retries OBVIOUS
<1>3. \A s \in Tasks : new[s] = IF s = t THEN old[t] + 1 ELSE old[s]
  <2>1. old \in [Tasks -> {old[s] : s \in Tasks}] OBVIOUS
  <2> HIDE DEF old, new
  <2>2. QED BY <1>1, <2>1
<1> HIDE DEF old, new
<1>4. QED BY <1>2, <1>3

LEMMA RowAdvances ==
  ASSUME OInv, OInv', [Next]_vars, NEW s \in Tasks
  PROVE  Walks(s) /\ Counts(s)
<1>1. [Ledger!LedgerNext]_(Ledger!ledgerVars) BY StepRefines
<1>2. ASSUME NEW t \in Tasks, NEW edge \in Edges, Ledger!Move(t, edge[1], edge[2]),
             Attempts' = Attempts
      PROVE  Walks(s) /\ Counts(s)
  <2>1. submissions'[s].retries = submissions[s].retries BY <1>2, AttemptsEffect
  <2>2. s = t => submissions[s].status = edge[1] /\ submissions'[s].status = edge[2]
    BY <1>2, MoveEffect
  <2>3. s # t => submissions'[s].status = submissions[s].status BY <1>2, MoveEffect
  <2>4. edge = <<edge[1], edge[2]>> BY DEF Edges
  <2>5. QED BY <2>1, <2>2, <2>3, <2>4 DEF Walks, Counts
<1>3. ASSUME NEW t \in Tasks, Ledger!Fail(t)
      PROVE  Walks(s) /\ Counts(s)
  <2>1. PICK to \in {"dlq", "pending"} :
          /\ Ledger!Move(t, "processing", to)
          /\ to = IF Attempts'[t] >= MaxRetry THEN "dlq" ELSE "pending"
    <3>1. CASE Attempts'[t] >= MaxRetry BY <1>3, <3>1 DEF Ledger!Fail, Ledger!Move, Attempts
    <3>2. CASE ~(Attempts'[t] >= MaxRetry) BY <1>3, <3>2 DEF Ledger!Fail, Ledger!Move, Attempts
    <3>3. QED BY <3>1, <3>2
  <2>2. Attempts'[t] = submissions'[t].retries BY DEF Attempts
  <2>3. submissions'[t].retries <= MaxRetry /\ submissions'[t].retries \in Nat /\ MaxRetry \in Nat
    BY NumberAssumption DEF OInv, OwnershipInv, RetriesBounded, Types, AnyRow
  <2>4. to = IF submissions'[t].retries = MaxRetry THEN "dlq" ELSE "pending"
    BY <2>1, <2>2, <2>3
  <2>8. /\ submissions[t].status = "processing" /\ submissions'[t].status = to
        /\ \A r \in Tasks \ {t} : submissions'[r].status = submissions[r].status
    <3>1. Ledger!Move(t, "processing", to) BY <2>1
    <3>2. QED BY <3>1, MoveEffect
  <2>9. /\ submissions'[t].retries = submissions[t].retries + 1
        /\ \A r \in Tasks \ {t} : submissions'[r].retries = submissions[r].retries
    <3>1. Attempts' = [Attempts EXCEPT ![t] = @ + 1] BY <1>3 DEF Ledger!Fail, Attempts
    <3>2. QED BY <3>1, FailEffect
  <2>5. CASE s = t
    <3>1. /\ submissions[s].status = "processing" /\ submissions'[s].status = to
          /\ submissions'[s].retries = submissions[s].retries + 1
      BY <2>5, <2>8, <2>9
    <3>2. <<"processing", to>> \in Edges BY <2>4 DEF Edges
    <3>3. QED BY <2>4, <2>5, <3>1, <3>2 DEF Walks, Counts
  <2>6. CASE s # t
    <3>1. submissions'[s].status = submissions[s].status
          /\ submissions'[s].retries = submissions[s].retries
      BY <2>6, <2>8, <2>9
    <3>2. QED BY <3>1 DEF Walks, Counts
  <2>7. QED BY <2>5, <2>6
<1>4. CASE UNCHANGED Ledger!ledgerVars \/ \E u \in Users : Ledger!Grant(u)
  <2> DEFINE old == [t \in Tasks |-> submissions[t].status]
             new == [t \in Tasks |-> submissions'[t].status]
  <2>1. new = old /\ Attempts' = Attempts
    BY <1>4 DEF Ledger!ledgerVars, Ledger!Grant, Attempts
  <2>2. old[s] = submissions[s].status /\ new[s] = submissions'[s].status OBVIOUS
  <2> HIDE DEF old, new
  <2>3. QED BY <2>1, <2>2, AttemptsEffect DEF Walks, Counts
<1>5. ASSUME NEW t \in Tasks,
             \/ Ledger!Accept(t) \/ Ledger!Take(t) \/ Ledger!Complete(t) \/ Ledger!PutBack(t)
             \/ Ledger!Suspend(t) \/ Ledger!Requeue(t)
      PROVE  \E edge \in Edges : Ledger!Move(t, edge[1], edge[2]) /\ Attempts' = Attempts
  BY <1>5 DEF Ledger!Accept, Ledger!Take, Ledger!Complete, Ledger!PutBack, Ledger!Suspend,
              Ledger!Requeue, Attempts, Edges
<1>6. QED BY <1>1, <1>2, <1>3, <1>4, <1>5 DEF Ledger!LedgerNext

\* The walk holds for every set of submissions and threads and every retry limit.
THEOREM SubmissionsWalk == Spec => SubmissionsAdvance
<1>1. OInv /\ OInv' /\ [Next]_vars => [\A t \in Tasks : Walks(t) /\ Counts(t)]_vars
  BY RowAdvances
<1>2. QED BY <1>1, Typing, Ownership, PTL DEF Spec, OInv, SubmissionsAdvance

-----------------------------------------------------------------------------
(* How long a row can be held up.                                           *)

LongestDelay == IF RetryMax > ControlBlockRetry THEN RetryMax ELSE ControlBlockRetry

Soon(row) == row.lease <= Lease /\ row.next <= LongestDelay

\* Instants are kept relative to the present, so this bounds the wait from any
\* moment on: whoever died, hung or was cut off, another worker may take the row
\* over after one lease, and no delay, however often it is set again, puts a queued
\* row further off than the longest of them (worker.py:206-287, db.py:355-427).
NothingIsHeldLong == \A t \in Tasks : Soon(submissions[t])

\* The delay of a retry is capped however many there were.
LEMMA RetryIsCapped ==
  ASSUME NEW n \in Nat \ {0}, NEW delay \in 0..RetryCap(n)
  PROVE  delay \in Nat /\ delay <= RetryMax
<1>1. n - 1 \in Nat OBVIOUS
<1>2. 2 ^ (n - 1) \in Int BY <1>1
<1> DEFINE p == 2 ^ (n - 1)
           cap == RetryBase * p
<1>3. cap \in Int /\ RetryMax \in Int
  <2>1. p \in Int /\ RetryBase \in Int BY <1>2, NumberAssumption
  <2> HIDE DEF p
  <2>2. QED BY <2>1, NumberAssumption
<1>4. RetryCap(n) = IF cap < RetryMax THEN cap ELSE RetryMax BY DEF RetryCap
<1> HIDE DEF cap
<1>5. QED BY <1>3, <1>4

LEMMA DelayFacts ==
  /\ LongestDelay \in Nat /\ RetryMax <= LongestDelay /\ ControlBlockRetry <= LongestDelay
  /\ Lease \in Nat /\ Past \in Int /\ Past < 0
BY NumberAssumption, PastInt DEF LongestDelay

LEMMA LeaveSoon ==
  ASSUME NEW r \in AnyRow, NEW s, NEW n, NEW i \in Int, i <= LongestDelay
  PROVE  Soon(Leave(r, s, n, i))
<1>1. Leave(r, s, n, i).lease = Past /\ Leave(r, s, n, i).next = i
  BY Zenon DEF Leave, AnyRow
<1>2. QED BY <1>1, DelayFacts DEF Soon

\* A step that replaces one row at most.
LEMMA OneSoon ==
  ASSUME OInv, NothingIsHeldLong, NEW t, NEW row, Soon(row),
         submissions' \in {submissions, [submissions EXCEPT ![t] = row]}
  PROVE  NothingIsHeldLong'
<1>1. \A s \in Tasks : submissions'[s] \in {submissions[s], row} BY DEF OInv, Types
<1>2. \A s \in Tasks : Soon(submissions'[s]) BY <1>1 DEF NothingIsHeldLong
<1>3. QED BY <1>2 DEF NothingIsHeldLong, Soon, LongestDelay

LEMMA ThreadSoon ==
  ASSUME OInv, NothingIsHeldLong, NEW w \in Workers, ThreadStep(w)
  PROVE  NothingIsHeldLong'
<1> DEFINE c == thread[w]
           r == submissions[c.task]
<1>1. CASE submissions' = submissions BY <1>1 DEF NothingIsHeldLong, Soon, LongestDelay
<1>2. CASE Requeue(w)
  <2>1. c.task \in Tasks BY <1>2 DEF Requeue, OInv, Types, Placed
  <2>2. r \in AnyRow /\ Soon(r) BY <2>1 DEF OInv, Types, NothingIsHeldLong
  <2> DEFINE row == [r EXCEPT !.status = "pending", !.next = Past]
  <2>3. row.lease = r.lease /\ row.next = Past BY <2>2, Zenon DEF AnyRow
  <2>4. submissions' \in {submissions, [submissions EXCEPT ![c.task] = row]}
    BY <1>2, <2>1 DEF Requeue, OInv, Types
  <2> HIDE DEF row
  <2>5. Soon(row) BY <2>2, <2>3, DelayFacts DEF Soon
  <2>6. QED BY <2>4, <2>5, OneSoon
<1>3. CASE ClaimCommit(w)
  <2>1. c.task \in Tasks /\ c.at \in Int /\ c.at <= 0 /\ c.gen + 1 \in Nat
    BY <1>3 DEF ClaimCommit, OInv, Types, Placed, Thread
  <2>2. r \in AnyRow /\ Soon(r) BY <2>1 DEF OInv, Types, NothingIsHeldLong
  <2>3. c.at + Lease \in Int /\ c.at + Lease <= Lease BY <2>1, DelayFacts
  <2> DEFINE row == Claimed(r, w, c.gen + 1, c.at + Lease)
  <2>4. row.lease = c.at + Lease /\ row.next = r.next BY <2>2, Zenon DEF Claimed, AnyRow
  <2>5. row \in AnyRow BY <2>1, <2>2, <2>3, ClaimedTyped
  <2>6. \/ submissions' = [submissions EXCEPT ![c.task] = row]
        \/ submissions' = [submissions EXCEPT ![c.task] = [row EXCEPT !.next = Past]]
    BY <1>3 DEF ClaimCommit, ClaimUpdate
  <2> HIDE DEF row
  <2>7. Soon(row) BY <2>2, <2>3, <2>4 DEF Soon
  <2>8. Soon([row EXCEPT !.next = Past])
    <3>1. [row EXCEPT !.next = Past].lease = row.lease /\ [row EXCEPT !.next = Past].next = Past
      BY <2>5, Zenon DEF AnyRow
    <3>2. QED BY <2>7, <3>1, DelayFacts DEF Soon
  <2>9. QED BY <2>6, <2>7, <2>8, OneSoon
<1>4. CASE c.pc \in {"write", "finalize"}
  <2>1. c \in Thread /\ c.task \in Tasks /\ c.at \in Int /\ c.at <= 0 /\ c.rc \in Nat
    BY <1>4 DEF OInv, Types, Placed, Thread
  <2>2. r \in AnyRow /\ Soon(r) /\ r.next \in Int /\ r.next <= LongestDelay
    BY <2>1 DEF OInv, Types, NothingIsHeldLong, AnyRow, Soon
  <2>3. \A s, n : Soon(Leave(r, s, n, r.next)) BY <2>2, LeaveSoon
  <2>4. \A s, n : \A d \in Nat : d <= LongestDelay => Soon(Leave(r, s, n, c.at + d))
    BY <2>1, <2>2, LeaveSoon, DelayFacts
  <2>5. CASE WriteArrears(w)
    BY <2>3, <2>5, OneSoon DEF WriteArrears, WriteOwned
  <2>6. CASE WriteDeadLetter(w)
    BY <2>3, <2>6, OneSoon DEF WriteDeadLetter, WriteOwned
  <2>7. CASE WriteBlocked(w)
    <3>1. Soon(Leave(r, "pending", c.rc, c.at + ControlBlockRetry))
      BY <2>4, DelayFacts, NumberAssumption
    <3>2. QED BY <2>7, <3>1, OneSoon DEF WriteBlocked, WriteOwned
  <2>8. CASE WriteRetry(w)
    <3>1. PICK delay \in 0..RetryCap(c.rc + 1) :
            WriteOwned(w, "retry", Leave(r, "pending", c.rc + 1, c.at + delay))
      BY <2>8 DEF WriteRetry
    <3>2. delay \in Nat /\ delay <= LongestDelay
      <4>1. c.rc + 1 \in Nat \ {0} BY <2>1
      <4>2. delay \in Nat /\ delay <= RetryMax BY <4>1, RetryIsCapped
      <4>3. QED BY <4>2, DelayFacts, NumberAssumption
    <3>3. Soon(Leave(r, "pending", c.rc + 1, c.at + delay)) BY <2>4, <3>2
    <3>4. QED BY <3>1, <3>3, OneSoon DEF WriteOwned
  <2>9. CASE Finalize(w) BY <2>3, <2>9, OneSoon DEF Finalize
  <2>10. QED
    BY <1>1, <1>2, <1>3, <1>4, <2>5, <2>6, <2>7, <2>8, <2>9
    DEF ThreadStep, RecoverFind, RecoverCheck, ClaimSelect, ClaimMiss, ClaimLoad, CheckQuota,
        CallModel, FinalizeRefused, CheckShortage, KeepTables
<1>5. QED
  BY <1>1, <1>2, <1>3, <1>4
  DEF ThreadStep, RecoverFind, RecoverCheck, ClaimSelect, ClaimMiss, ClaimLoad, CheckQuota, CallModel,
      WriteArrears, WriteBlocked, WriteRetry, WriteDeadLetter, WriteOwned,
      Finalize, FinalizeRefused, CheckShortage, KeepTables

LEMMA StepSoon ==
  ASSUME OInv, NothingIsHeldLong, [Next]_vars
  PROVE  NothingIsHeldLong'
<1>1. CASE submissions' = submissions BY <1>1 DEF NothingIsHeldLong, Soon, LongestDelay
<1>2. CASE \E w \in Workers : ThreadStep(w) BY <1>2, ThreadSoon
<1>3. CASE Tick
  <2>1. ASSUME NEW t \in Tasks PROVE Soon(submissions'[t])
    <3> DEFINE row == [submissions[t] EXCEPT !.lease = Aged(submissions[t].lease),
                                             !.next = Aged(submissions[t].next)]
    <3>1. submissions[t] \in AnyRow /\ Soon(submissions[t])
          /\ submissions[t].lease \in Int /\ submissions[t].next \in Int
      BY DEF OInv, Types, NothingIsHeldLong, AnyRow
    <3>2. submissions'[t] = row BY <1>3, <3>1 DEF Tick, AnyRow
    <3>3. row.lease = Aged(submissions[t].lease) /\ row.next = Aged(submissions[t].next)
      BY <3>1, Zenon DEF AnyRow
    <3> HIDE DEF row
    <3>4. QED BY <3>1, <3>2, <3>3, DelayFacts DEF Soon, Aged
  <2>2. QED BY <2>1 DEF NothingIsHeldLong, Soon, LongestDelay
<1>4. CASE \E b \in renewals : RenewCommit(b)
  <2>1. PICK b \in renewals : RenewCommit(b) BY <1>4
  <2>2. b.task \in Tasks /\ b.at \in Int /\ b.at <= 0 BY DEF OInv, Types, Renewal
  <2> DEFINE r == submissions[b.task]
             row == [r EXCEPT !.lease = b.at + Lease]
  <2>3. r \in AnyRow /\ Soon(r) BY <2>2 DEF OInv, Types, NothingIsHeldLong
  <2>4. row.lease = b.at + Lease /\ row.next = r.next BY <2>3, Zenon DEF AnyRow
  <2>5. submissions' \in {submissions, [submissions EXCEPT ![b.task] = row]}
    BY <2>1, <2>2 DEF RenewCommit, OInv, Types
  <2> HIDE DEF row
  <2>6. Soon(row) BY <2>2, <2>3, <2>4, DelayFacts DEF Soon
  <2>7. QED BY <2>5, <2>6, OneSoon
<1>5. CASE \E t \in Tasks : Accept(t)
  <2>1. PICK t \in Tasks : Accept(t) BY <1>5
  <2> DEFINE row == [submissions[t] EXCEPT !.status = "pending"]
  <2>2. submissions[t] \in AnyRow /\ Soon(submissions[t]) BY DEF OInv, Types, NothingIsHeldLong
  <2>3. row.lease = submissions[t].lease /\ row.next = submissions[t].next
    BY <2>2, Zenon DEF AnyRow
  <2>4. submissions' = [submissions EXCEPT ![t] = row] BY <2>1, <2>2 DEF Accept, OInv, Types
  <2> HIDE DEF row
  <2>5. Soon(row) BY <2>2, <2>3 DEF Soon
  <2>6. QED BY <2>4, <2>5, OneSoon
<1>6. QED
  BY <1>1, <1>2, <1>3, <1>4, <1>5
  DEF Next, Steps, Environment, HeartbeatBegin, Abandon, Restart, RenewError, Grant, KeepTables, vars

\* For every lease, delay and number of faults.
THEOREM HeldForABoundedTime == Spec => []NothingIsHeldLong
<1>1. Init => NothingIsHeldLong
  BY DelayFacts DEF Init, Reserved, NothingIsHeldLong, Soon
<1>2. OInv /\ NothingIsHeldLong /\ [Next]_vars => NothingIsHeldLong' BY StepSoon
<1>3. QED BY <1>1, <1>2, Typing, Ownership, PTL DEF Spec, OInv

-----------------------------------------------------------------------------
(* Claims are told apart by their generations.                              *)

\* The thread has won a claim and works on its row.
Holds(c) == c.pc \in Working \cup {"load"}

\* Two threads never hold the same generation of a row, though both selected it and
\* their conditional updates may follow one another at once: whoever was overtaken is
\* left with an older one (db.py:355-399).
TokensAreUnique ==
  \A v, w \in Workers :
    v # w /\ Holds(thread[v]) /\ Holds(thread[w]) /\ thread[v].task = thread[w].task
      => thread[v].won # thread[w].won

\* A claim is given up or goes on; only the claim itself begins one.
GoesOn(w) ==
  Holds(thread'[w]) => /\ Holds(thread[w])
                       /\ thread'[w].task = thread[w].task /\ thread'[w].won = thread[w].won

LEMMA StageGoesOn ==
  ASSUME OInv, NEW w \in Workers, NEW rec, ToStage(w, rec),
         Away(rec) \/ /\ Holds(thread[w])
                      /\ rec.task = thread[w].task /\ rec.won = thread[w].won
  PROVE  \A v \in Workers : GoesOn(v)
<1>1. ASSUME NEW v \in Workers PROVE GoesOn(v)
  <2>1. thread'[v] = IF v = w THEN rec ELSE thread[v] BY DEF ToStage, OInv, Types
  <2>2. QED BY <2>1 DEF GoesOn, Away, Holds
<1>2. QED BY <1>1

LEMMA ThreadGoesOn ==
  ASSUME OInv, NEW w \in Workers, ThreadStep(w), ~ClaimCommit(w)
  PROVE  \A v \in Workers : GoesOn(v)
<1> DEFINE c == thread[w]
<1>0. c \in Thread BY DEF OInv, Types
<1>1. ASSUME NEW rec, ToStage(w, rec), Away(rec) PROVE \A v \in Workers : GoesOn(v)
  BY <1>1, StageGoesOn
<1>2. CASE ~Holds(c)
  <2>1. Away([c EXCEPT !.pc = "requeue"])
    BY <1>0 DEF Thread, Away, Working
  <2>2. ASSUME NEW pc \in {"claim_pending", "take_over"}, NEW t, NEW g
        PROVE  Away([c EXCEPT !.pc = pc, !.task = t, !.gen = g])
    <3>1. [c EXCEPT !.pc = pc, !.task = t, !.gen = g].pc = pc BY <1>0, Zenon DEF Thread
    <3>2. QED BY <3>1 DEF Away, Working
  <2>3. CASE RecoverFind(w) BY <1>1, <2>3, IdleAway DEF RecoverFind
  <2>4. CASE RecoverCheck(w) BY <1>1, <2>1, <2>4, IdleAway DEF RecoverCheck
  <2>5. CASE Requeue(w) BY <1>1, <2>5, IdleAway DEF Requeue
  <2>6. CASE ClaimSelect(w) BY <1>1, <2>2, <2>6, IdleAway DEF ClaimSelect
  <2>7. CASE ClaimMiss(w) BY <1>1, <2>7, IdleAway DEF ClaimMiss
  <2>8. QED
    BY <1>2, <2>3, <2>4, <2>5, <2>6, <2>7
    DEF ThreadStep, ClaimLoad, CheckQuota, CallModel, WriteArrears, WriteBlocked, WriteRetry,
        WriteDeadLetter, WriteOwned, Finalize, FinalizeRefused, CheckShortage, Holds, Working
<1>3. CASE Holds(c)
  <2>1. CASE ToStage(w, Idle) BY <1>1, <2>1, IdleAway
  <2>2. ASSUME NEW rec, ToStage(w, rec), rec.task = c.task, rec.won = c.won
        PROVE  \A v \in Workers : GoesOn(v)
    BY <1>3, <2>2, StageGoesOn
  <2>3. ASSUME NEW pc
        PROVE  /\ [c EXCEPT !.pc = pc].task = c.task /\ [c EXCEPT !.pc = pc].won = c.won
               /\ [c EXCEPT !.pc = pc, !.at = 0].task = c.task
               /\ [c EXCEPT !.pc = pc, !.at = 0].won = c.won
    BY <1>0, Zenon DEF Thread
  <2>4. ASSUME NEW i PROVE Intend(c, i).task = c.task /\ Intend(c, i).won = c.won
    BY <1>0, Zenon DEF Thread, Intend
  <2>5. CASE ClaimLoad(w)
    <3>1. PICK pc, g, n : ToStage(w, [c EXCEPT !.pc = pc, !.gen = g, !.rc = n])
      <4>1. ToStage(w, [c EXCEPT !.pc = IF UsesExternal(w) THEN "quota" ELSE "model",
                                 !.gen = submissions[c.task].gen,
                                 !.rc = submissions[c.task].retries])
        BY <2>5 DEF ClaimLoad
      <4>2. QED BY <4>1, Zenon
    <3> DEFINE d == [c EXCEPT !.pc = pc, !.gen = g, !.rc = n]
    <3>2. d.task = c.task /\ d.won = c.won BY <1>0, Zenon DEF Thread
    <3>3. ToStage(w, d) BY <3>1
    <3> HIDE DEF d
    <3>4. QED BY <2>2, <3>2, <3>3
  <2>6. CASE CheckQuota(w) BY <2>1, <2>2, <2>3, <2>4, <2>6 DEF CheckQuota
  <2>7. CASE CallModel(w)
    <3>1. CASE c.lost BY <2>1, <2>7, <3>1 DEF CallModel
    <3>2. CASE ~c.lost
      <4>1. PICK result \in ModelResults(c.task, c.rc, backend[w]) : ToStage(w, Decide(c, result))
        BY <2>7, <3>2 DEF CallModel
      <4>2. result \in {"ok", "fail", "blocked"} BY DEF ModelResults
      <4>3. Decide(c, result).task = c.task /\ Decide(c, result).won = c.won
        BY <2>3, <2>4, <4>2 DEF Decide
      <4>4. QED BY <2>2, <4>1, <4>3
    <3>3. QED BY <3>1, <3>2
  <2>8. CASE FinalizeRefused(w) BY <2>1, <2>2, <2>3, <2>8 DEF FinalizeRefused
  <2>9. CASE CheckShortage(w) BY <2>1, <2>2, <2>4, <2>9 DEF CheckShortage
  <2>10. CASE \/ WriteArrears(w) \/ WriteBlocked(w) \/ WriteRetry(w) \/ WriteDeadLetter(w)
              \/ Finalize(w)
    BY <2>1, <2>10 DEF WriteArrears, WriteBlocked, WriteRetry, WriteDeadLetter, WriteOwned, Finalize
  <2>11. QED
    BY <1>3, <2>5, <2>6, <2>7, <2>8, <2>9, <2>10
    DEF ThreadStep, RecoverFind, RecoverCheck, Requeue, ClaimSelect, ClaimMiss, Holds, Working
<1>4. QED BY <1>2, <1>3

LEMMA RestGoesOn ==
  ASSUME OInv, [Next]_vars, \A w \in Workers : ~ThreadStep(w)
  PROVE  \A v \in Workers : GoesOn(v)
<1>1. CASE thread' = thread BY <1>1 DEF GoesOn
<1>2. CASE \E w \in Workers : Abandon(w) \/ Restart(w)
  BY <1>2, IdleAway, StageGoesOn DEF Abandon, Restart
<1>3. CASE \E r \in renewals : RenewCommit(r)
  <2>1. PICK r \in renewals : RenewCommit(r) BY <1>3
  <2> DEFINE c == thread[r.owner]
             d == [c EXCEPT !.lost = TRUE]
  <2>2. r.owner \in Workers /\ c \in Thread BY DEF OInv, Types, Renewal
  <2>3. d.task = c.task /\ d.won = c.won BY <2>2, Zenon DEF Thread
  <2>4. thread' = thread \/ (ToStage(r.owner, d) /\ c.pc \in Working)
    BY <2>1 DEF RenewCommit
  <2> HIDE DEF d
  <2>5. QED BY <1>1, <2>2, <2>3, <2>4, StageGoesOn DEF Holds
<1>4. CASE Tick
  <2>1. ASSUME NEW v \in Workers
        PROVE  /\ thread'[v].pc = thread[v].pc /\ thread'[v].task = thread[v].task
               /\ thread'[v].won = thread[v].won
    <3>1. LET d == [thread[v] EXCEPT !.at = thread[v].at - 1] IN
          d.pc = thread[v].pc /\ d.task = thread[v].task /\ d.won = thread[v].won
      BY Zenon DEF OInv, Types, Thread
    <3>2. thread'[v] \in {thread[v], [thread[v] EXCEPT !.at = thread[v].at - 1]}
      BY <1>4 DEF Tick, OInv, Types, Thread
    <3>3. QED BY <3>1, <3>2
  <2>2. QED BY <2>1 DEF GoesOn, Holds
<1>5. QED
  BY <1>1, <1>2, <1>3, <1>4
  DEF Next, Steps, Environment, HeartbeatBegin, RenewError, Accept, Grant, KeepTables, vars

LEMMA TokenStep ==
  ASSUME OInv, TokensAreUnique, [Next]_vars
  PROVE  TokensAreUnique'
<1>1. CASE \A w \in Workers : GoesOn(w) BY <1>1 DEF TokensAreUnique, GoesOn, Holds
<1>2. ASSUME NEW w \in Workers, ClaimCommit(w)
      PROVE  TokensAreUnique'
  <2> DEFINE c == thread[w]
             d == [c EXCEPT !.pc = "load", !.at = 0, !.won = c.gen + 1]
  <2>1. c \in Thread /\ c.task \in Tasks /\ c.gen \in Nat
    BY <1>2 DEF ClaimCommit, OInv, Types, Placed, Thread
  <2>2. d.task = c.task /\ d.won = c.gen + 1 BY <2>1, Zenon DEF Thread
  <2>3. ToStage(w, d) /\ submissions[c.task].gen = c.gen
    BY <1>2 DEF ClaimCommit, ClaimUpdate, CanClaim
  <2> HIDE DEF d
  <2>4. thread'[w] = d /\ \A v \in Workers \ {w} : thread'[v] = thread[v]
    BY <2>3 DEF ToStage, OInv, Types
  <2>5. ASSUME NEW v \in Workers \ {w}, Holds(thread[v]), thread[v].task = c.task
        PROVE  thread[v].won # d.won
    <3>1. thread[v].won <= c.gen /\ thread[v].won \in Nat
      BY <2>3, <2>5 DEF OInv, OwnershipInv, ClaimsKept, Holds, Types, Thread
    <3>2. QED BY <2>1, <2>2, <3>1
  <2>6. ASSUME NEW u \in Workers, NEW v \in Workers, u # v,
               Holds(thread'[u]), Holds(thread'[v]), thread'[u].task = thread'[v].task
        PROVE  thread'[u].won # thread'[v].won
    <3>1. CASE u # w /\ v # w BY <2>4, <2>6, <3>1 DEF TokensAreUnique
    <3>2. CASE u = w BY <2>2, <2>4, <2>5, <2>6, <3>2
    <3>3. CASE v = w BY <2>2, <2>4, <2>5, <2>6, <3>3
    <3>4. QED BY <3>1, <3>2, <3>3
  <2>7. QED BY <2>6 DEF TokensAreUnique, Holds
<1>3. QED BY <1>1, <1>2, ThreadGoesOn, RestGoesOn

\* For any number of threads, of claims under way and of expired leases.
THEOREM TokensUnique == Spec => []TokensAreUnique
<1>1. Init => TokensAreUnique BY DEF Init, TokensAreUnique, Holds, Idle, Working
<1>2. OInv /\ TokensAreUnique /\ [Next]_vars => TokensAreUnique' BY TokenStep
<1>3. QED BY <1>1, <1>2, Typing, Ownership, PTL DEF Spec, OInv
=============================================================================
