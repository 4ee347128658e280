------------------------ MODULE WorkerSafety_proofs ------------------------
(***************************************************************************)
(* What follows from the inductive invariants of WorkerLedger_proofs.tla:  *)
(* the safety properties TLC checks on WorkerLedger.tla.                   *)
(***************************************************************************)
EXTENDS WorkerLedger_proofs

(* Rows, threads, renewals and accounts have their types; retry_count never *)
(* exceeds MAX_RETRY (submissions schema, db.py:148).                       *)
THEOREM TypeCorrect == Spec => []TypeOK
<1>1. OInv => TypeOK
  <2> SUFFICES ASSUME OInv PROVE TypeOK
    OBVIOUS
  <2>1. ASSUME NEW t \in Tasks PROVE submissions[t] \in Row
    <3>1. submissions[t] \in AnyRow /\ submissions[t].retries <= MaxRetry
      BY DEF OInv, Types, OwnershipInv, RetriesBounded
    <3>2. submissions[t].retries \in 0..MaxRetry
      BY <3>1, NumberAssumption DEF AnyRow
    <3>3. QED
      BY <3>1, <3>2 DEF AnyRow, Row
  <2>2. QED
    BY <2>1 DEF OInv, Types, TypeOK
<1>2. QED
  BY <1>1, Typing, Ownership, PTL DEF OInv

(* A row is owned exactly while it is processed: the claim writes the       *)
(* columns every exit of a worker clears (db.py:379-400, 447-453).          *)
THEOREM Owned == Spec => []OwnedIffProcessing
<1>1. OwnershipInv => OwnedIffProcessing
  BY DEF OwnershipInv
<1>2. QED
  BY <1>1, Ownership, PTL

(* A thread that can still pass the fence knows the retry_count of the row, *)
(* so the count it writes is one more than the count that is there          *)
(* (worker.py:204).                                                         *)
THEOREM FreshCount == Spec => []RetryCountIsFresh
<1>1. OInv => RetryCountIsFresh
  BY FencedIsFresh DEF RetryCountIsFresh
<1>2. QED
  BY <1>1, Typing, Ownership, PTL DEF OInv

(* Dead letters are the submissions whose retries are used up, and no       *)
(* others (worker.py:204-238).                                              *)
THEOREM DeadLetters == Spec => []DeadLetterIffExhausted
<1>1. OInv => DeadLetterIffExhausted
  BY DEF OInv, OwnershipInv, RetriesBounded, DeadLetterIffExhausted, Ledger!DeadLetterIffExhausted
<1>2. QED
  BY <1>1, Typing, Ownership, PTL DEF OInv

-----------------------------------------------------------------------------
(* Who can move a row out of processing.                                    *)

Outcome(t) == submissions[t].status = "processing" /\ submissions'[t].status # "processing"

ByClaimant(t) ==
  \E w \in Workers :
    /\ thread[w].pc \in {"write", "finalize"} /\ thread'[w] = Idle
    /\ thread[w].task = t
    /\ submissions[t].owner = w
    /\ thread[w].won = submissions[t].gen

(* A fenced step of w touches the row of w's own claim only.                *)
LEMMA FencedOutcome ==
  ASSUME OInv, NEW w \in Workers, thread[w].pc \in {"write", "finalize"},
         NEW a, Fence(thread[w].task, w, thread[w].gen, a),
         ToStage(w, Idle), NEW row,
         submissions' = [submissions EXCEPT ![thread[w].task] = row]
  PROVE  \A t \in Tasks : Outcome(t) => ByClaimant(t)
<1>1. thread[w].task \in Tasks /\ thread[w].won = submissions[thread[w].task].gen
  BY FencedIsFresh DEF Working
<1>2. submissions[thread[w].task].owner = w
  BY DEF Fence
<1>3. thread'[w] = Idle
  BY DEF ToStage, OInv, Types
<1>4. \A t \in Tasks : Outcome(t) => t = thread[w].task
  BY <1>1 DEF Outcome, OInv, Types
<1>5. QED
  BY <1>1, <1>2, <1>3, <1>4 DEF ByClaimant

LEMMA WriteOutcome ==
  ASSUME OInv, NEW w \in Workers, NEW intent, NEW row, WriteOwned(w, intent, row)
  PROVE  \A t \in Tasks : Outcome(t) => ByClaimant(t)
<1>1. CASE Fence(thread[w].task, w, thread[w].gen, thread[w].at)
  BY <1>1, FencedOutcome DEF WriteOwned
<1>2. CASE ~Fence(thread[w].task, w, thread[w].gen, thread[w].at)
  BY <1>2 DEF WriteOwned, Outcome
<1>3. QED
  BY <1>1, <1>2

(* No other step of a thread ends the processing of a row.                  *)
LEMMA ThreadOutcome ==
  ASSUME OInv, NEW w \in Workers, ThreadStep(w)
  PROVE  \A t \in Tasks : Outcome(t) => ByClaimant(t)
<1>1. CASE UNCHANGED submissions
  BY <1>1 DEF Outcome
<1>2. CASE Requeue(w)
  <2>1. \A t \in Tasks : submissions[t].status = "processing"
          => submissions'[t] = submissions[t]
    BY <1>2 DEF Requeue, OInv, Types
  <2>2. QED
    BY <2>1 DEF Outcome
<1>3. CASE ClaimCommit(w)
  <2>1. OwnershipInv' /\ Types'
    BY <1>3, ClaimingTyped, ClaimPreserves DEF OInv
  <2>2. \A t \in Tasks : submissions[t].status = "processing"
          => submissions'[t].owner # NoOwner
    <3> DEFINE c == thread[w]
    <3>1. c.task \in Tasks /\ w # NoOwner
      BY <1>3, OwnerAssumption DEF ClaimCommit, OInv, Types, Placed
    <3>2. c.gen + 1 \in Nat /\ c.at + Lease \in Int
      BY NumberAssumption DEF OInv, Types, Thread
    <3> DEFINE row == Claimed(submissions[c.task], w, c.gen + 1, c.at + Lease)
    <3>a. submissions[c.task] \in AnyRow
      BY <3>1 DEF OInv, Types
    <3>b. row \in AnyRow
      BY <3>2, <3>a, ClaimedTyped
    <3>c. row.owner = w
      BY <3>a DEF Claimed, AnyRow
    <3>3. row \in AnyRow /\ row.owner = w
      BY <3>b, <3>c
    <3>4. [row EXCEPT !.next = Past].owner = w
      BY <3>3 DEF AnyRow
    <3>5. submissions' = [submissions EXCEPT ![c.task] =
                           IF c.pc = "claim_pending" THEN [row EXCEPT !.next = Past] ELSE row]
      BY <1>3 DEF ClaimCommit, ClaimUpdate
    <3> HIDE DEF row
    <3>6. submissions'[c.task].owner = w /\ \A t \in Tasks \ {c.task} : submissions'[t] = submissions[t]
      BY <3>1, <3>3, <3>4, <3>5 DEF OInv, Types
    <3>7. \A t \in Tasks : submissions[t].status = "processing" => submissions[t].owner # NoOwner
      BY DEF OInv, OwnershipInv, OwnedIffProcessing
    <3>8. QED
      BY <3>1, <3>6, <3>7
  <2>3. QED
    BY <2>1, <2>2 DEF Outcome, OwnershipInv, OwnedIffProcessing
<1>4. CASE WriteArrears(w) \/ WriteBlocked(w) \/ WriteRetry(w) \/ WriteDeadLetter(w)
  BY <1>4, WriteOutcome DEF WriteArrears, WriteBlocked, WriteRetry, WriteDeadLetter
<1>5. CASE Finalize(w)
  BY <1>5, FencedOutcome DEF Finalize
<1>6. QED
  BY <1>1, <1>2, <1>3, <1>4, <1>5
     DEF ThreadStep, RecoverFind, RecoverCheck, ClaimSelect, ClaimMiss, ClaimLoad,
         CheckQuota, CallModel, FinalizeRefused, CheckShortage, KeepTables

LEMMA RenewOutcome ==
  ASSUME OInv, NEW r \in renewals, RenewCommit(r)
  PROVE  \A t \in Tasks : ~Outcome(t)
<1>1. r.task \in Tasks /\ submissions[r.task] \in AnyRow
  BY DEF OInv, Types, Renewal
<1>2. [submissions[r.task] EXCEPT !.lease = r.at + Lease].status = submissions[r.task].status
  BY <1>1 DEF AnyRow
<1>3. \A t \in Tasks : submissions'[t].status = submissions[t].status
  BY <1>1, <1>2 DEF RenewCommit, OInv, Types
<1>4. QED
  BY <1>3 DEF Outcome

LEMMA TickOutcome ==
  ASSUME OInv, Tick
  PROVE  \A t \in Tasks : ~Outcome(t)
<1>1. ASSUME NEW t \in Tasks PROVE submissions'[t].status = submissions[t].status
  <2>1. submissions[t] \in AnyRow
    BY DEF OInv, Types
  <2>2. submissions'[t] = [submissions[t] EXCEPT !.lease = Aged(submissions[t].lease),
                                                 !.next = Aged(submissions[t].next)]
    BY <2>1 DEF Tick, AnyRow
  <2>3. QED
    BY <2>1, <2>2 DEF AnyRow
<1>2. QED
  BY <1>1 DEF Outcome

(* Only the thread whose own claim created the current generation moves a   *)
(* row out of processing (db.py:429-455, 458-521).                          *)
THEOREM ClaimantDecides == Spec => OutcomeByClaimant
<1>1. OInv /\ [Next]_vars => [\A t \in Tasks : Outcome(t) => ByClaimant(t)]_vars
  <2> SUFFICES ASSUME OInv, Next PROVE \A t \in Tasks : Outcome(t) => ByClaimant(t)
    OBVIOUS
  <2>1. CASE \E w \in Workers : ThreadStep(w)
    BY <2>1, ThreadOutcome
  <2>2. CASE \E r \in renewals : RenewCommit(r)
    BY <2>2, RenewOutcome
  <2>3. CASE Tick
    BY <2>3, TickOutcome
  <2>4. CASE UNCHANGED submissions
    BY <2>4 DEF Outcome
  <2>5. CASE \E t \in Tasks : Accept(t)
    <3>1. \A t \in Tasks : submissions[t].status = "processing" => submissions'[t] = submissions[t]
      BY <2>5 DEF Accept, OInv, Types
    <3>2. QED
      BY <3>1 DEF Outcome
  <2>6. QED
    BY <2>1, <2>2, <2>3, <2>4, <2>5
       DEF Next, Steps, Environment, HeartbeatBegin, Abandon, Restart, RenewError, Grant, KeepTables
<1>2. [\A t \in Tasks : Outcome(t) => ByClaimant(t)]_vars
        => [\A t \in Tasks :
              submissions[t].status = "processing" /\ submissions'[t].status # "processing"
                => \E w \in Workers :
                     /\ thread[w].pc \in {"write", "finalize"} /\ thread'[w] = Idle
                     /\ thread[w].task = t
                     /\ submissions[t].owner = w
                     /\ thread[w].won = submissions[t].gen]_vars
  BY DEF Outcome, ByClaimant
<1>3. QED
  BY <1>1, <1>2, Typing, Ownership, PTL DEF Spec, OInv, OutcomeByClaimant
=============================================================================
