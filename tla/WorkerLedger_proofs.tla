------------------------ MODULE WorkerLedger_proofs ------------------------
(***************************************************************************)
(* Proofs about WorkerLedger.tla, for every set of submissions, users and  *)
(* threads, every lease, delay and retry limit, and every bound.           *)
(***************************************************************************)
EXTENDS WorkerLedger, FiniteSetTheorems, TLAPS

(* The types a single step preserves: retry_count is bounded only with the  *)
(* help of RetryCountIsFresh, further down.                                 *)
AnyRow == [status : Statuses, owner : Workers \cup {NoOwner}, gen : Nat,
           lease : Int, next : Int, retries : Nat]

(* A thread past the claim's SELECT works on an existing row, and no clock  *)
(* reading is ahead of the present.                                         *)
Placed(c) ==
  /\ c \in Thread
  /\ c.pc \notin {"idle", "select"} => c.task \in Tasks
  /\ c.at <= 0

Types ==
  /\ submissions \in [Tasks -> AnyRow]
  /\ balance \in [Users -> Nat]
  /\ thread \in [Workers -> Thread]
  /\ \A w \in Workers : Placed(thread[w])
  /\ renewals \in SUBSET Renewal
  /\ \A r \in renewals : r.at <= 0
  /\ backend \in [Workers -> {"internal", "external"}]
  /\ faults \in Nat
  /\ granted \in [Users -> Nat]
  /\ external \in SUBSET Tasks

LEMMA StagesNamed ==
  /\ {"idle", "recover", "requeue", "select", "claim_pending", "take_over", "load",
      "quota", "model", "write", "finalize", "shortage"} \subseteq Stages
  /\ {"none", "arrears", "blocked", "retry", "dlq"} \subseteq Intents
  /\ {"uploading", "pending", "processing", "arrears", "done", "dlq"} \subseteq Statuses
BY Zenon DEF Stages, Timed, Working, Intents, Statuses

LEMMA PastInt == Past \in Int /\ Past < 0
BY NumberAssumption DEF Past

(* The records a thread moves to.                                           *)
LEMMA IdlePlaced ==
  /\ Placed(Idle)
  /\ Placed([Idle EXCEPT !.pc = "select"])
  /\ \A t \in Tasks : Placed([Idle EXCEPT !.pc = "recover", !.task = t])
<1>1. Idle \in Thread
  BY StagesNamed DEF Idle, Thread
<1>2. [Idle EXCEPT !.pc = "select"] \in Thread
  BY <1>1, StagesNamed DEF Idle, Thread
<1>3. ASSUME NEW t \in Tasks
      PROVE  [Idle EXCEPT !.pc = "recover", !.task = t] \in Thread
  BY <1>1, StagesNamed DEF Idle, Thread
<1>4. Placed(Idle)
  BY <1>1 DEF Placed, Idle
<1>5. Placed([Idle EXCEPT !.pc = "select"])
  BY <1>2 DEF Placed, Idle
<1>6. ASSUME NEW t \in Tasks
      PROVE  Placed([Idle EXCEPT !.pc = "recover", !.task = t])
  <2> DEFINE d == [Idle EXCEPT !.pc = "recover", !.task = t]
  <2>1. d \in Thread /\ d.task = t /\ d.at = 0
    BY <1>3 DEF Idle
  <2> HIDE DEF d
  <2>2. Placed(d)
    BY <2>1 DEF Placed
  <2>3. QED
    BY <2>2 DEF d
<1>7. QED
  BY <1>4, <1>5, <1>6

LEMMA MovePlaced ==
  ASSUME NEW c, Placed(c), c.task \in Tasks, NEW pc \in Stages
  PROVE  /\ Placed([c EXCEPT !.pc = pc])
         /\ Placed([c EXCEPT !.pc = pc, !.at = 0])
         /\ \A i \in Intents : Placed([c EXCEPT !.pc = pc, !.intent = i, !.at = 0])
         /\ \A n \in Nat : Placed([c EXCEPT !.pc = pc, !.at = 0, !.won = n])
         /\ \A g, k \in Nat : Placed([c EXCEPT !.pc = pc, !.gen = g, !.rc = k])
         /\ Placed([c EXCEPT !.lost = TRUE])
<1>0. c \in Thread /\ 0 \in Int /\ c.at \in Int /\ c.at <= 0
  BY DEF Placed, Thread
<1>1. [c EXCEPT !.pc = pc] \in Thread
  BY <1>0, Zenon DEF Thread
<1>2. [c EXCEPT !.pc = pc, !.at = 0] \in Thread
  BY <1>0, Zenon DEF Thread
<1>3. ASSUME NEW i \in Intents PROVE [c EXCEPT !.pc = pc, !.intent = i, !.at = 0] \in Thread
  BY <1>0, Zenon DEF Thread
<1>4. ASSUME NEW n \in Nat PROVE [c EXCEPT !.pc = pc, !.at = 0, !.won = n] \in Thread
  BY <1>0, Zenon DEF Thread
<1>5. ASSUME NEW g \in Nat, NEW k \in Nat PROVE [c EXCEPT !.pc = pc, !.gen = g, !.rc = k] \in Thread
  BY <1>0, Zenon DEF Thread
<1>6. [c EXCEPT !.lost = TRUE] \in Thread
  BY <1>0, Zenon DEF Thread
<1>7. Placed([c EXCEPT !.pc = pc]) /\ Placed([c EXCEPT !.pc = pc, !.at = 0])
  BY <1>0, <1>1, <1>2 DEF Placed, Thread
<1>8. ASSUME NEW i \in Intents PROVE Placed([c EXCEPT !.pc = pc, !.intent = i, !.at = 0])
  <2> DEFINE d == [c EXCEPT !.pc = pc, !.intent = i, !.at = 0]
  <2>1. d.task = c.task /\ d.at = 0
    BY <1>0, Zenon DEF Thread
  <2>2. d \in Thread
    BY <1>3
  <2> HIDE DEF d
  <2>3. Placed(d)
    BY <2>1, <2>2 DEF Placed
  <2>4. QED
    BY <2>3 DEF d
<1>9. ASSUME NEW n \in Nat PROVE Placed([c EXCEPT !.pc = pc, !.at = 0, !.won = n])
  <2> DEFINE d == [c EXCEPT !.pc = pc, !.at = 0, !.won = n]
  <2>1. d.task = c.task /\ d.at = 0
    BY <1>0, Zenon DEF Thread
  <2>2. d \in Thread
    BY <1>4
  <2> HIDE DEF d
  <2>3. Placed(d)
    BY <2>1, <2>2 DEF Placed
  <2>4. QED
    BY <2>3 DEF d
<1>10. ASSUME NEW g \in Nat, NEW k \in Nat PROVE Placed([c EXCEPT !.pc = pc, !.gen = g, !.rc = k])
  BY <1>0, <1>5 DEF Placed, Thread
<1>11. Placed([c EXCEPT !.lost = TRUE])
  BY <1>0, <1>6 DEF Placed, Thread
<1>12. QED
  BY <1>7, <1>8, <1>9, <1>10, <1>11

LEMMA SelectedPlaced ==
  ASSUME NEW c, Placed(c), NEW t \in Tasks, NEW pc \in Stages, NEW g \in Nat
  PROVE  Placed([c EXCEPT !.pc = pc, !.task = t, !.gen = g])
<1>1. c \in Thread
  BY DEF Placed
<1>2. [c EXCEPT !.pc = pc, !.task = t, !.gen = g] \in Thread
  BY <1>1, Zenon DEF Thread
<1>3. QED
  BY <1>1, <1>2 DEF Placed, Thread

(* The rows that are written.                                               *)
LEMMA LeaveTyped ==
  ASSUME NEW r \in AnyRow, NEW s \in Statuses, NEW n \in Nat, NEW i \in Int
  PROVE  Leave(r, s, n, i) \in AnyRow
BY PastInt DEF Leave, AnyRow

LEMMA ClaimedTyped ==
  ASSUME NEW r \in AnyRow, NEW w \in Workers, NEW g \in Nat, NEW i \in Int
  PROVE  /\ Claimed(r, w, g, i) \in AnyRow
         /\ [Claimed(r, w, g, i) EXCEPT !.next = Past] \in AnyRow
<1>1. Claimed(r, w, g, i) \in AnyRow
  BY StagesNamed, Zenon DEF Claimed, AnyRow
<1>2. QED
  BY <1>1, PastInt DEF AnyRow

(* A step of a thread that keeps the environment and moves to a good record *)
(* keeps the types, whatever typed table it leaves behind.                  *)
LEMMA StepTyped ==
  ASSUME Types, NEW w \in Workers, NEW rec, Placed(rec), ToStage(w, rec),
         submissions' \in [Tasks -> AnyRow], UNCHANGED <<balance, granted, external>>, KeepEnv
  PROVE  Types'
<1>1. rec \in Thread
  BY DEF Placed
<1>2. thread' \in [Workers -> Thread] /\ \A v \in Workers : thread'[v] \in {rec, thread[v]}
  BY <1>1 DEF Types, ToStage
<1>3. \A v \in Workers : Placed(thread'[v])
  BY <1>2 DEF Types
<1>4. QED
  BY <1>2, <1>3 DEF Types, Placed, KeepEnv

LEMMA ReadTyped ==
  ASSUME Types, NEW w \in Workers, NEW rec, Placed(rec), ToStage(w, rec), KeepTables, KeepEnv
  PROVE  Types'
<1>1. submissions' \in [Tasks -> AnyRow] /\ UNCHANGED <<balance, granted, external>>
  BY DEF Types, KeepTables
<1>2. QED
  BY <1>1, StepTyped

LEMMA WriteTyped ==
  ASSUME Types, NEW w \in Workers, NEW row \in AnyRow, NEW intent, WriteOwned(w, intent, row)
  PROVE  Types'
<1>1. submissions' \in [Tasks -> AnyRow]
  BY DEF WriteOwned, Types
<1>2. QED
  BY <1>1, IdlePlaced, StepTyped DEF WriteOwned

LEMMA ClaimingTyped ==
  ASSUME Types, NEW w \in Workers,
         \/ RecoverFind(w) \/ RecoverCheck(w) \/ Requeue(w) \/ ClaimSelect(w)
         \/ ClaimCommit(w) \/ ClaimMiss(w) \/ ClaimLoad(w)
  PROVE  Types'
<1> DEFINE c == thread[w]
<1>c. c \in Thread /\ Placed(c) /\ c.at \in Int /\ c.gen \in Nat
  BY DEF Types, Thread
<1> HIDE DEF c
<1>1. CASE RecoverFind(w)
  BY <1>1, ReadTyped, IdlePlaced DEF RecoverFind
<1>2. CASE RecoverCheck(w)
  <2>1. c.task \in Tasks
    BY <1>c, <1>2 DEF RecoverCheck, Placed, c
  <2>2. Placed([c EXCEPT !.pc = "requeue"])
    BY <1>c, <2>1, MovePlaced, StagesNamed
  <2>3. QED
    BY <1>2, <2>2, ReadTyped, IdlePlaced DEF RecoverCheck, c
<1>3. CASE Requeue(w)
  <2>1. submissions' \in [Tasks -> AnyRow]
    <3> DEFINE t == thread[w].task
    <3>1. t \in Tasks
      BY <1>3, <1>c DEF Requeue, Placed, c
    <3>2. submissions[t] \in AnyRow
      BY <3>1 DEF Types
    <3>3. [submissions[t] EXCEPT !.status = "pending", !.next = Past] \in AnyRow
      BY <3>2, StagesNamed, PastInt, Zenon DEF AnyRow
    <3>4. \/ submissions' = submissions
          \/ submissions' = [submissions EXCEPT ![t] = [submissions[t] EXCEPT !.status = "pending", !.next = Past]]
      BY <1>3, <3>1 DEF Requeue, Types
    <3> HIDE DEF t
    <3>5. QED
      BY <3>1, <3>3, <3>4 DEF Types
  <2>2. QED
    BY <1>3, <2>1, StepTyped, IdlePlaced DEF Requeue
<1>4. CASE ClaimSelect(w)
  <2>1. ASSUME NEW t \in Tasks, NEW pc \in {"claim_pending", "take_over"}
        PROVE  Placed([c EXCEPT !.pc = pc, !.task = t, !.gen = submissions[t].gen])
    <3>1. submissions[t].gen \in Nat
      BY DEF Types, AnyRow
    <3>2. QED
      BY <1>c, <3>1, SelectedPlaced, StagesNamed
  <2>2. CASE ToStage(w, Idle)
    BY <1>4, <2>2, IdlePlaced, ReadTyped DEF ClaimSelect
  <2>3. ASSUME NEW t \in Tasks, NEW pc \in {"claim_pending", "take_over"},
               ToStage(w, [c EXCEPT !.pc = pc, !.task = t, !.gen = submissions[t].gen])
        PROVE  Types'
    BY <1>4, <2>1, <2>3, ReadTyped DEF ClaimSelect
  <2>4. QED
    BY <1>4, <2>2, <2>3 DEF ClaimSelect, c
<1>5. CASE ClaimCommit(w)
  <2>1. c.task \in Tasks
    BY <1>c, <1>5 DEF ClaimCommit, Placed, c
  <2>2. Placed([c EXCEPT !.pc = "load", !.at = 0, !.won = c.gen + 1])
    <3>1. c.gen + 1 \in Nat
      BY <1>c
    <3>2. \A n \in Nat : Placed([c EXCEPT !.pc = "load", !.at = 0, !.won = n])
      BY <1>c, <2>1, MovePlaced, StagesNamed
    <3>3. QED
      BY <3>1, <3>2
  <2>3. submissions[c.task] \in AnyRow /\ c.gen + 1 \in Nat /\ c.at + Lease \in Int
    BY <1>c, <2>1, NumberAssumption DEF Types
  <2>4. submissions' \in [Tasks -> AnyRow]
    <3> DEFINE row == Claimed(submissions[c.task], w, c.gen + 1, c.at + Lease)
    <3>1. row \in AnyRow /\ [row EXCEPT !.next = Past] \in AnyRow
      BY <2>3, ClaimedTyped
    <3> HIDE DEF row
    <3>2. submissions' = [submissions EXCEPT ![c.task] =
                            IF c.pc = "claim_pending" THEN [row EXCEPT !.next = Past] ELSE row]
      BY <1>5 DEF ClaimCommit, ClaimUpdate, row, c
    <3>3. QED
      BY <3>1, <3>2 DEF Types
  <2>5. QED
    BY <1>5, <2>2, <2>4, StepTyped DEF ClaimCommit, ClaimUpdate, c
<1>6. CASE ClaimMiss(w)
  BY <1>6, IdlePlaced, ReadTyped DEF ClaimMiss
<1>7. CASE ClaimLoad(w)
  <2>1. c.task \in Tasks
    BY <1>c, <1>7 DEF ClaimLoad, Placed, c
  <2>2. submissions[c.task].gen \in Nat /\ submissions[c.task].retries \in Nat
    BY <2>1 DEF Types, AnyRow
  <2>3. ASSUME NEW pc \in {"quota", "model"}
        PROVE  Placed([c EXCEPT !.pc = pc, !.gen = submissions[c.task].gen,
                                !.rc = submissions[c.task].retries])
    BY <1>c, <2>1, <2>2, MovePlaced, StagesNamed
  <2>4. QED
    BY <1>7, <2>3, ReadTyped DEF ClaimLoad, c
<1>8. QED
  BY <1>1, <1>2, <1>3, <1>4, <1>5, <1>6, <1>7

LEMMA ModelResultsNamed ==
  ASSUME NEW t, NEW rc, NEW b, NEW result \in ModelResults(t, rc, b)
  PROVE  result \in {"ok", "fail", "blocked"}
BY Zenon DEF ModelResults

LEMMA IntendPlaced ==
  ASSUME NEW c, Placed(c), c.task \in Tasks, NEW i \in Intents
  PROVE  Placed(Intend(c, i))
BY MovePlaced, StagesNamed DEF Intend

LEMMA DecidePlaced ==
  ASSUME NEW c, Placed(c), c.task \in Tasks, NEW result \in {"ok", "fail", "blocked"}
  PROVE  Placed(Decide(c, result))
<1>1. CASE result = "ok"
  BY <1>1, MovePlaced, StagesNamed DEF Decide
<1>2. CASE result = "blocked"
  BY <1>2, IntendPlaced, StagesNamed DEF Decide
<1>3. CASE result = "fail"
  <2>1. \A i \in {"dlq", "retry"} : Placed(Intend(c, i))
    BY IntendPlaced, StagesNamed
  <2>2. QED
    BY <1>3, <2>1 DEF Decide
<1>4. QED
  BY <1>1, <1>2, <1>3

LEMMA FinalizeTyped ==
  ASSUME Types, NEW w \in Workers, Finalize(w)
  PROVE  Types'
<1> DEFINE c == thread[w]
           r == submissions[c.task]
           u == UserOf[c.task]
<1>1. c.task \in Tasks /\ r \in AnyRow /\ u \in Users
  BY UsersAssumption DEF Finalize, Types, Placed
<1>2. Leave(r, "done", r.retries, r.next) \in AnyRow
  <2>1. r.retries \in Nat /\ r.next \in Int
    BY <1>1 DEF AnyRow
  <2> HIDE DEF r
  <2>2. QED
    BY <1>1, <2>1, LeaveTyped, StagesNamed
<1>3. submissions' \in [Tasks -> AnyRow]
  BY <1>1, <1>2 DEF Finalize, Types
<1>4. balance' \in [Users -> Nat]
  <2>1. CASE UsesExternal(w)
    <3>1. balance[u] \in Nat /\ balance[u] >= Cost /\ balance[u] - Cost \in Nat
      BY <1>1, <2>1, NumberAssumption DEF Finalize, Affordable, Types
    <3>2. balance' = [balance EXCEPT ![u] = balance[u] - Cost]
      BY <2>1 DEF Finalize
    <3> HIDE DEF u
    <3>3. QED
      BY <1>1, <3>1, <3>2 DEF Types
  <2>2. CASE ~UsesExternal(w)
    BY <2>2 DEF Finalize, Types
  <2>3. QED
    BY <2>1, <2>2
<1>5. external' \in SUBSET Tasks
  BY <1>1 DEF Finalize, Types
<1>6. thread' \in [Workers -> Thread] /\ \A v \in Workers : thread'[v] \in {Idle, thread[v]}
  BY IdlePlaced DEF Finalize, ToStage, Types, Placed
<1>7. QED
  BY <1>3, <1>4, <1>5, <1>6, IdlePlaced DEF Finalize, KeepEnv, Types

LEMMA HandlingTyped ==
  ASSUME Types, NEW w \in Workers,
         \/ CheckQuota(w) \/ CallModel(w)
         \/ WriteArrears(w) \/ WriteBlocked(w) \/ WriteRetry(w) \/ WriteDeadLetter(w)
         \/ Finalize(w) \/ FinalizeRefused(w) \/ CheckShortage(w)
  PROVE  Types'
<1> DEFINE c == thread[w]
           r == submissions[c.task]
<1>c. Placed(c) /\ c.rc \in Nat /\ c.at \in Int
  BY DEF Types, Thread
<1>t. c.task \in Tasks /\ r \in AnyRow /\ r.retries \in Nat /\ r.next \in Int
  <2>1. c.task \in Tasks
    BY <1>c DEF CheckQuota, CallModel, WriteArrears, WriteBlocked, WriteRetry, WriteDeadLetter,
                WriteOwned, Finalize, FinalizeRefused, CheckShortage, Placed
  <2>2. r \in AnyRow
    BY <2>1 DEF Types
  <2>3. QED
    BY <2>1, <2>2 DEF AnyRow
<1> HIDE DEF c, r
<1>1. CASE CheckQuota(w)
  <2>1. Placed([c EXCEPT !.pc = "model"]) /\ Placed(Intend(c, "arrears"))
    BY <1>c, <1>t, MovePlaced, IntendPlaced, StagesNamed
  <2>2. QED
    BY <1>1, <2>1, IdlePlaced, ReadTyped DEF CheckQuota, c
<1>2. CASE CallModel(w)
  <2>1. PICK result \in ModelResults(c.task, c.rc, backend[w]) :
          ToStage(w, IF c.lost THEN Idle ELSE Decide(c, result))
    BY <1>2 DEF CallModel, c
  <2>2. Placed(Decide(c, result))
    BY <1>c, <1>t, ModelResultsNamed, DecidePlaced
  <2>3. QED
    BY <1>2, <2>1, <2>2, IdlePlaced, ReadTyped DEF CallModel
<1>3. CASE WriteArrears(w)
  <2>1. Leave(r, "arrears", r.retries, r.next) \in AnyRow
    BY <1>t, LeaveTyped, StagesNamed
  <2>2. QED
    BY <1>3, <2>1, WriteTyped DEF WriteArrears, c, r
<1>4. CASE WriteBlocked(w)
  <2>1. c.at + ControlBlockRetry \in Int
    BY <1>c, NumberAssumption
  <2>2. Leave(r, "pending", c.rc, c.at + ControlBlockRetry) \in AnyRow
    BY <1>c, <1>t, <2>1, LeaveTyped, StagesNamed
  <2>3. QED
    BY <1>4, <2>2, WriteTyped DEF WriteBlocked, c, r
<1>5. CASE WriteRetry(w)
  <2>1. PICK delay \in 0..RetryCap(c.rc + 1) :
          WriteOwned(w, "retry", Leave(r, "pending", c.rc + 1, c.at + delay))
    BY <1>5 DEF WriteRetry, c, r
  <2>2. c.rc + 1 \in Nat /\ c.at + delay \in Int
    BY <1>c, <2>1
  <2>3. Leave(r, "pending", c.rc + 1, c.at + delay) \in AnyRow
    BY <1>t, <2>2, LeaveTyped, StagesNamed
  <2>4. QED
    BY <2>1, <2>3, WriteTyped
<1>6. CASE WriteDeadLetter(w)
  <2>1. c.rc + 1 \in Nat
    BY <1>c
  <2>2. Leave(r, "dlq", c.rc + 1, r.next) \in AnyRow
    BY <1>t, <2>1, LeaveTyped, StagesNamed
  <2>3. QED
    BY <1>6, <2>2, WriteTyped DEF WriteDeadLetter, c, r
<1>7. CASE Finalize(w)
  BY <1>7, FinalizeTyped
<1>8. CASE FinalizeRefused(w)
  <2>1. Placed([c EXCEPT !.pc = "shortage"])
    BY <1>c, <1>t, MovePlaced, StagesNamed
  <2>2. QED
    BY <1>8, <2>1, IdlePlaced, ReadTyped DEF FinalizeRefused, c
<1>9. CASE CheckShortage(w)
  <2>1. Placed(Intend(c, "arrears"))
    BY <1>c, <1>t, IntendPlaced, StagesNamed
  <2>2. QED
    BY <1>9, <2>1, IdlePlaced, ReadTyped DEF CheckShortage, c
<1>10. QED
  BY <1>1, <1>2, <1>3, <1>4, <1>5, <1>6, <1>7, <1>8, <1>9

LEMMA HeartbeatTyped ==
  ASSUME Types,
         \/ \E w \in Workers : HeartbeatBegin(w)
         \/ \E r \in renewals : RenewCommit(r) \/ RenewError(r)
  PROVE  Types'
<1>1. ASSUME NEW w \in Workers, HeartbeatBegin(w)
      PROVE  Types'
  <2> DEFINE r == [owner |-> w, task |-> thread[w].task, gen |-> thread[w].gen, at |-> 0]
  <2>1. thread[w].task \in Tasks /\ thread[w].gen \in Nat
    BY <1>1 DEF HeartbeatBegin, Types, Placed, Thread, Working
  <2>2. r \in Renewal /\ r.at = 0
    BY <2>1 DEF Renewal
  <2>3. renewals' = renewals \cup {r}
    BY <1>1 DEF HeartbeatBegin
  <2> HIDE DEF r
  <2>4. QED
    BY <1>1, <2>2, <2>3 DEF HeartbeatBegin, KeepTables, Types, Placed
<1>2. ASSUME NEW r \in renewals, RenewCommit(r)
      PROVE  Types'
  <2> DEFINE c == thread[r.owner]
  <2>1. r.owner \in Workers /\ r.task \in Tasks /\ r.at \in Int
    BY DEF Types, Renewal
  <2>2. submissions' \in [Tasks -> AnyRow]
    <3>1. submissions[r.task] \in AnyRow /\ r.at + Lease \in Int
      BY <2>1, NumberAssumption DEF Types
    <3>2. [submissions[r.task] EXCEPT !.lease = r.at + Lease] \in AnyRow
      BY <3>1, Zenon DEF AnyRow
    <3>3. \/ submissions' = submissions
          \/ submissions' = [submissions EXCEPT ![r.task] =
                               [submissions[r.task] EXCEPT !.lease = r.at + Lease]]
      BY <1>2, <2>1 DEF RenewCommit, Types
    <3>4. QED
      BY <2>1, <3>2, <3>3 DEF Types
  <2>3. c.pc \in Working => Placed([c EXCEPT !.lost = TRUE])
    <3>1. Placed(c) /\ (c.pc \in Working => c.task \in Tasks)
      BY <2>1 DEF Types, Placed, Working
    <3> HIDE DEF c
    <3>2. QED
      BY <3>1, MovePlaced, StagesNamed
  <2>4. \/ thread' = thread
        \/ Placed([c EXCEPT !.lost = TRUE]) /\ ToStage(r.owner, [c EXCEPT !.lost = TRUE])
    BY <1>2, <2>3 DEF RenewCommit
  <2> DEFINE d == [c EXCEPT !.lost = TRUE]
  <2> HIDE DEF d
  <2>5. thread' \in [Workers -> Thread] /\ \A v \in Workers : thread'[v] = thread[v] \/ Placed(thread'[v])
    <3>1. thread' = thread \/ (Placed(d) /\ ToStage(r.owner, d))
      BY <2>4 DEF d
    <3>2. QED
      BY <2>1, <3>1 DEF ToStage, Types, Placed
  <2>6. QED
    BY <1>2, <2>2, <2>5 DEF RenewCommit, Types, Placed
<1>3. ASSUME NEW r \in renewals, RenewError(r)
      PROVE  Types'
  BY <1>3 DEF RenewError, KeepTables, Types, Placed
<1>4. QED
  BY <1>1, <1>2, <1>3

LEMMA EnvironmentTyped ==
  ASSUME Types,
         \/ \E w \in Workers : Abandon(w) \/ Restart(w)
         \/ \E t \in Tasks : Accept(t)
         \/ \E u \in Users : Grant(u)
  PROVE  Types'
<1>1. ASSUME NEW w \in Workers, Abandon(w) \/ Restart(w)
      PROVE  Types'
  <2>1. thread' \in [Workers -> Thread] /\ \A v \in Workers : thread'[v] \in {Idle, thread[v]}
    BY <1>1, IdlePlaced DEF Abandon, Restart, ToStage, Types, Placed
  <2>2. renewals' \in SUBSET renewals /\ faults' \in Nat
    BY <1>1 DEF Abandon, Restart, Types
  <2>3. backend' \in [Workers -> {"internal", "external"}]
    BY <1>1, BackendAssumption DEF Abandon, Restart, Types
  <2>4. QED
    BY <1>1, <2>1, <2>2, <2>3, IdlePlaced DEF Abandon, Restart, KeepTables, Types
<1>2. ASSUME NEW t \in Tasks, Accept(t)
      PROVE  Types'
  <2>1. [submissions[t] EXCEPT !.status = "pending"] \in AnyRow
    BY StagesNamed DEF Types, AnyRow
  <2>2. QED
    BY <1>2, <2>1 DEF Accept, KeepEnv, Types, Placed
<1>3. ASSUME NEW u \in Users, Grant(u)
      PROVE  Types'
  BY <1>3, NumberAssumption DEF Grant, KeepEnv, Types, Placed
<1>4. QED
  BY <1>1, <1>2, <1>3

LEMMA AgedInt ==
  ASSUME NEW i \in Int PROVE Aged(i) \in Int
BY PastInt DEF Aged

LEMMA TickTyped ==
  ASSUME Types, Tick
  PROVE  Types'
<1>1. submissions' \in [Tasks -> AnyRow]
  <2>1. ASSUME NEW t \in Tasks
        PROVE  [submissions[t] EXCEPT !.lease = Aged(@), !.next = Aged(@)] \in AnyRow
    <3>1. submissions[t] \in AnyRow /\ submissions[t].lease \in Int /\ submissions[t].next \in Int
      BY DEF Types, AnyRow
    <3>2. Aged(submissions[t].lease) \in Int /\ Aged(submissions[t].next) \in Int
      BY <3>1, AgedInt
    <3>3. [submissions[t] EXCEPT !.lease = Aged(submissions[t].lease),
                                 !.next = Aged(submissions[t].next)] \in AnyRow
      BY <3>1, <3>2, Zenon DEF AnyRow
    <3>4. QED
      BY <3>1, <3>3 DEF AnyRow
  <2>2. QED
    BY <2>1 DEF Tick
<1>2. ASSUME NEW w \in Workers
      PROVE  /\ [thread[w] EXCEPT !.at = @ - 1] \in Thread
             /\ Placed([thread[w] EXCEPT !.at = @ - 1])
  <2>1. thread[w] \in Thread /\ thread[w].at \in Int /\ Placed(thread[w])
    BY DEF Types, Thread
  <2>2. QED
    BY <2>1 DEF Thread, Placed
<1>3. thread' \in [Workers -> Thread] /\ \A w \in Workers : Placed(thread'[w])
  BY <1>2 DEF Tick, Types
<1>4. \A r \in renewals : [r EXCEPT !.at = @ - 1] \in Renewal /\ [r EXCEPT !.at = @ - 1].at <= 0
  BY DEF Types, Renewal
<1>5. renewals' \in SUBSET Renewal /\ \A r \in renewals' : r.at <= 0
  BY <1>4 DEF Tick
<1>6. QED
  BY <1>1, <1>3, <1>5 DEF Tick, Types

THEOREM Typing == Spec => []Types
<1>1. Init => Types
  <2> SUFFICES ASSUME Init PROVE Types
    OBVIOUS
  <2>1. Reserved \in AnyRow
    BY StagesNamed, PastInt DEF Reserved, AnyRow
  <2>2. Idle \in Thread
    BY IdlePlaced DEF Placed
  <2>3. submissions \in [Tasks -> AnyRow] /\ thread \in [Workers -> Thread]
    BY <2>1, <2>2 DEF Init
  <2>4. \A w \in Workers : Placed(thread[w])
    BY IdlePlaced DEF Init
  <2>5. backend \in [Workers -> {"internal", "external"}]
    BY BackendAssumption DEF Init
  <2>6. QED
    BY <2>3, <2>4, <2>5, UsersAssumption DEF Init, Types
<1>2. Types /\ [Next]_vars => Types'
  <2> SUFFICES ASSUME Types, [Next]_vars PROVE Types'
    OBVIOUS
  <2>1. CASE \E w \in Workers : ThreadStep(w)
    BY <2>1, ClaimingTyped, HandlingTyped DEF ThreadStep
  <2>2. CASE \/ \E w \in Workers : HeartbeatBegin(w)
             \/ \E r \in renewals : RenewCommit(r) \/ RenewError(r)
    BY <2>2, HeartbeatTyped
  <2>3. CASE \/ \E w \in Workers : Abandon(w) \/ Restart(w)
             \/ \E t \in Tasks : Accept(t)
             \/ \E u \in Users : Grant(u)
    BY <2>3, EnvironmentTyped
  <2>4. CASE Tick
    BY <2>4, TickTyped
  <2>5. CASE UNCHANGED vars
    BY <2>5 DEF vars, Types, Placed
  <2>6. QED
    BY <2>1, <2>2, <2>3, <2>4, <2>5 DEF Next, Steps, Environment
<1>3. QED
  BY <1>1, <1>2, PTL DEF Spec

-----------------------------------------------------------------------------
(***************************************************************************)
(* Ownership.  A step either leaves the columns a row is fenced by alone   *)
(* (RowKept), or takes the row out of every claim (RowLeft), or is a claim *)
(* or the load that follows it; a thread either follows the claim it has   *)
(* or has none (Follows).                                                  *)
(***************************************************************************)
OInv == Types /\ OwnershipInv

RowKept(t) ==
  /\ submissions'[t].status = submissions[t].status
  /\ submissions'[t].owner = submissions[t].owner
  /\ submissions'[t].gen = submissions[t].gen
  /\ submissions'[t].retries = submissions[t].retries
  /\ submissions[t].status # "processing" /\ submissions[t].lease = Past
       => submissions'[t].lease = Past

RowLeft(t) ==
  /\ submissions'[t].status # "processing"
  /\ submissions'[t].owner = NoOwner
  /\ submissions'[t].gen = submissions[t].gen
  /\ submissions'[t].lease = Past
  /\ submissions'[t].retries <= MaxRetry
  /\ submissions'[t].status = "dlq" <=> submissions'[t].retries = MaxRetry

SoundIntent(c) ==
  c.pc = "write" => /\ c.intent = "dlq" => c.rc + 1 >= MaxRetry
                    /\ c.intent = "retry" => c.rc + 1 < MaxRetry

SameClaim(c, d) ==
  /\ c.pc = d.pc \/ {c.pc, d.pc} \subseteq Working
  /\ d.task = c.task /\ d.gen = c.gen /\ d.won = c.won /\ d.rc = c.rc

Follows(w) ==
  /\ thread'[w].pc \in Working \cup {"load"} => SameClaim(thread[w], thread'[w])
  /\ SoundIntent(thread'[w])

LEMMA FollowPreserves ==
  ASSUME OInv, Types', \A t \in Tasks : RowKept(t) \/ RowLeft(t),
         \A w \in Workers : Follows(w)
  PROVE  OwnershipInv'
<1>1. OwnedIffProcessing'
  <2> SUFFICES ASSUME NEW t \in Tasks
               PROVE  LET r == submissions'[t] IN
                      /\ (r.status = "processing") <=> (r.owner # NoOwner)
                      /\ r.status = "processing" => r.gen > 0
                      /\ r.status # "processing" => r.lease = Past
    BY DEF OwnedIffProcessing
  <2>1. CASE RowKept(t)
    BY <2>1 DEF OInv, OwnershipInv, OwnedIffProcessing, RowKept
  <2>2. CASE RowLeft(t)
    BY <2>2 DEF RowLeft
  <2>3. QED
    BY <2>1, <2>2
<1>2. RetriesBounded'
  <2> SUFFICES ASSUME NEW t \in Tasks
               PROVE  LET r == submissions'[t] IN
                      r.retries <= MaxRetry /\ (r.status = "dlq" <=> r.retries = MaxRetry)
    BY DEF RetriesBounded
  <2>1. CASE RowKept(t)
    BY <2>1 DEF OInv, OwnershipInv, RetriesBounded, RowKept
  <2>2. CASE RowLeft(t)
    BY <2>2 DEF RowLeft
  <2>3. QED
    BY <2>1, <2>2
<1>3. ClaimsKept'
  <2> SUFFICES ASSUME NEW w \in Workers
               PROVE  LET c == thread'[w]
                          r == submissions'[c.task] IN
                      /\ c.pc \in Working \cup {"load"} =>
                           c.won <= r.gen /\ (r.owner = w => c.won = r.gen)
                      /\ c.pc \in Working =>
                           c.gen <= r.gen /\ (r.status = "processing" /\ c.gen = r.gen
                                                => c.rc = r.retries)
                      /\ SoundIntent(c)
    BY DEF ClaimsKept, SoundIntent
  <2>1. SoundIntent(thread'[w])
    BY DEF Follows
  <2>2. CASE thread'[w].pc \notin Working \cup {"load"}
    BY <2>1, <2>2
  <2>3. CASE thread'[w].pc \in Working \cup {"load"}
    <3> DEFINE t == thread[w].task
    <3>1. SameClaim(thread[w], thread'[w])
      BY <2>3 DEF Follows
    <3>2. t \in Tasks /\ thread'[w].task = t /\ thread[w].pc \in Working \cup {"load"}
      BY <2>3, <3>1 DEF SameClaim, OInv, Types, Placed, Working
    <3>3. w # NoOwner
      BY OwnerAssumption
    <3>4. /\ submissions'[t].gen = submissions[t].gen
          /\ submissions'[t].owner = w => submissions[t].owner = w
          /\ submissions'[t].status = "processing" => RowKept(t)
      BY <3>2, <3>3 DEF RowKept, RowLeft
    <3>5. /\ thread[w].won <= submissions[t].gen
          /\ submissions[t].owner = w => thread[w].won = submissions[t].gen
          /\ thread[w].pc \in Working =>
               /\ thread[w].gen <= submissions[t].gen
               /\ submissions[t].status = "processing" /\ thread[w].gen = submissions[t].gen
                    => thread[w].rc = submissions[t].retries
      BY <3>2 DEF OInv, OwnershipInv, ClaimsKept
    <3>6. thread'[w].pc \in Working => thread[w].pc \in Working
      BY <3>1 DEF SameClaim
    <3> HIDE DEF t
    <3>7. QED
      BY <2>1, <3>1, <3>2, <3>4, <3>5, <3>6 DEF SameClaim, RowKept
  <2>4. QED
    BY <2>2, <2>3
<1>4. QED
  BY <1>1, <1>2, <1>3 DEF OwnershipInv

(* A thread record outside handle_one.                                      *)
Away(c) == c.pc \notin Working \cup {"load"}

LEMMA IdleAway ==
  /\ Away(Idle) /\ Away([Idle EXCEPT !.pc = "select"])
  /\ \A t \in Tasks : Away([Idle EXCEPT !.pc = "recover", !.task = t])
BY DEF Away, Idle, Working

LEMMA AllFollow ==
  ASSUME OInv, NEW w \in Workers, NEW rec, ToStage(w, rec),
         Away(rec) \/ (SameClaim(thread[w], rec) /\ SoundIntent(rec))
  PROVE  \A v \in Workers : Follows(v)
<1>1. \A v \in Workers : SoundIntent(thread[v])
  BY DEF OInv, OwnershipInv, ClaimsKept, SoundIntent
<1>2. \A v \in Workers : SameClaim(thread[v], thread[v])
  BY DEF SameClaim
<1>3. Away(rec) => SoundIntent(rec)
  BY DEF Away, SoundIntent, Working
<1>4. \A v \in Workers : thread'[v] = IF v = w THEN rec ELSE thread[v]
  BY DEF ToStage, OInv, Types
<1>5. QED
  BY <1>1, <1>2, <1>3, <1>4 DEF Follows, Away

LEMMA ReadKeeps ==
  ASSUME OInv, Types', NEW w \in Workers, NEW rec, ToStage(w, rec), UNCHANGED submissions,
         Away(rec) \/ (SameClaim(thread[w], rec) /\ SoundIntent(rec))
  PROVE  OwnershipInv'
<1>1. \A t \in Tasks : RowKept(t)
  BY DEF RowKept
<1>2. QED
  BY <1>1, AllFollow, FollowPreserves

(* The row was offered to w and is w's now.  No older claim of w is left:   *)
(* w was not inside handle_one.                                             *)
LEMMA ClaimPreserves ==
  ASSUME OInv, Types', NEW w \in Workers, ClaimCommit(w)
  PROVE  OwnershipInv'
<1> DEFINE c == thread[w]
           t == c.task
<1>1. t \in Tasks /\ c.gen \in Nat /\ c \in Thread
  BY DEF ClaimCommit, OInv, Types, Placed, Thread
<1>2. /\ submissions'[t].status = "processing" /\ submissions'[t].owner = w
      /\ submissions'[t].gen = submissions[t].gen + 1
      /\ submissions'[t].retries = submissions[t].retries
      /\ submissions[t].gen = c.gen
      /\ submissions[t].status \in {"pending", "processing"}
      /\ \A s \in Tasks \ {t} : submissions'[s] = submissions[s]
  <2>1. submissions[t] \in AnyRow
    BY <1>1 DEF OInv, Types
  <2> DEFINE row == Claimed(submissions[t], w, c.gen + 1, c.at + Lease)
  <2>2. row.status = "processing" /\ row.owner = w /\ row.gen = c.gen + 1
        /\ row.retries = submissions[t].retries
    BY <2>1 DEF Claimed, AnyRow
  <2>3. row \in AnyRow
    <3>1. c.gen + 1 \in Nat /\ c.at + Lease \in Int
      BY <1>1, NumberAssumption DEF Thread
    <3>2. QED
      BY <2>1, <3>1, ClaimedTyped
  <2> HIDE DEF row
  <2>4. LET new == [row EXCEPT !.next = Past] IN
        /\ new.status = "processing" /\ new.owner = w /\ new.gen = c.gen + 1
        /\ new.retries = submissions[t].retries
    BY <2>2, <2>3 DEF AnyRow
  <2>5. submissions' = [submissions EXCEPT ![t] =
                          IF c.pc = "claim_pending" THEN [row EXCEPT !.next = Past] ELSE row]
    BY DEF ClaimCommit, ClaimUpdate, row
  <2>6. submissions[t].gen = c.gen /\ submissions[t].status \in {"pending", "processing"}
    BY DEF ClaimCommit, CanClaim
  <2>7. QED
    BY <1>1, <2>2, <2>4, <2>5, <2>6 DEF OInv, Types
<1>3. /\ thread'[w].pc = "load" /\ thread'[w].task = t /\ thread'[w].won = c.gen + 1
      /\ \A v \in Workers \ {w} : thread'[v] = thread[v]
  <2>1. thread' = [thread EXCEPT ![w] = [c EXCEPT !.pc = "load", !.at = 0, !.won = c.gen + 1]]
    BY DEF ClaimCommit, ClaimUpdate, ToStage
  <2>2. LET d == [c EXCEPT !.pc = "load", !.at = 0, !.won = c.gen + 1] IN
        d.pc = "load" /\ d.task = t /\ d.won = c.gen + 1
    BY <1>1, Zenon DEF Thread
  <2>3. QED
    BY <2>1, <2>2 DEF OInv, Types
<1>a. submissions[t].gen \in Nat /\ w # NoOwner /\ \A s \in Tasks : submissions[s].gen \in Nat
  BY <1>1, OwnerAssumption DEF OInv, Types, AnyRow
<1> HIDE DEF c, t
<1>4. OwnedIffProcessing'
  BY <1>1, <1>2, <1>a DEF OInv, OwnershipInv, OwnedIffProcessing
<1>5. RetriesBounded'
  <2>1. submissions[t].status # "dlq" /\ submissions[t].retries # MaxRetry
        /\ submissions[t].retries <= MaxRetry
    BY <1>1, <1>2 DEF OInv, OwnershipInv, RetriesBounded
  <2>2. QED
    BY <1>2, <2>1 DEF OInv, OwnershipInv, RetriesBounded
<1>6. ClaimsKept'
  <2> SUFFICES ASSUME NEW v \in Workers
               PROVE  LET d == thread'[v]
                          r == submissions'[d.task] IN
                      /\ d.pc \in Working \cup {"load"} =>
                           d.won <= r.gen /\ (r.owner = v => d.won = r.gen)
                      /\ d.pc \in Working =>
                           d.gen <= r.gen /\ (r.status = "processing" /\ d.gen = r.gen
                                                => d.rc = r.retries)
                      /\ d.pc = "write" =>
                           /\ d.intent = "dlq" => d.rc + 1 >= MaxRetry
                           /\ d.intent = "retry" => d.rc + 1 < MaxRetry
    BY DEF ClaimsKept
  <2>1. CASE v = w
    BY <1>1, <1>2, <1>3, <1>a, <2>1 DEF Working
  <2>2. CASE v # w
    <3> DEFINE d == thread[v]
               r == submissions[d.task]
    <3>1. /\ thread'[v] = d /\ d.gen \in Nat /\ d.won \in Nat
          /\ d.pc \in Working \cup {"load"} => d.task \in Tasks
      BY <1>3, <2>2 DEF OInv, Types, Placed, Thread, Working
    <3>2. /\ d.pc \in Working \cup {"load"} =>
               d.won <= r.gen /\ (r.owner = v => d.won = r.gen)
          /\ d.pc \in Working =>
               d.gen <= r.gen /\ (r.status = "processing" /\ d.gen = r.gen => d.rc = r.retries)
          /\ d.pc = "write" =>
               /\ d.intent = "dlq" => d.rc + 1 >= MaxRetry
               /\ d.intent = "retry" => d.rc + 1 < MaxRetry
      BY DEF OInv, OwnershipInv, ClaimsKept
    <3>3. CASE d.task = t
      BY <1>2, <1>a, <2>2, <3>1, <3>2, <3>3 DEF Working
    <3>4. CASE d.task # t
      BY <1>2, <1>a, <3>1, <3>2, <3>4 DEF Working
    <3>5. QED
      BY <3>3, <3>4
  <2>3. QED
    BY <2>1, <2>2
<1>7. QED
  BY <1>4, <1>5, <1>6 DEF OwnershipInv

LEMMA LoadPreserves ==
  ASSUME OInv, Types', NEW w \in Workers, ClaimLoad(w)
  PROVE  OwnershipInv'
<1> DEFINE c == thread[w]
           t == c.task
<1>1. t \in Tasks /\ c \in Thread
  BY DEF ClaimLoad, OInv, Types, Placed
<1>2. UNCHANGED submissions
  BY DEF ClaimLoad, KeepTables
<1>3. /\ thread'[w].pc \in {"quota", "model"} /\ thread'[w].task = t
      /\ thread'[w].won = c.won /\ thread'[w].gen = submissions[t].gen
      /\ thread'[w].rc = submissions[t].retries
      /\ \A v \in Workers \ {w} : thread'[v] = thread[v]
  <2>1. ASSUME NEW pc \in {"quota", "model"}
        PROVE  LET d == [c EXCEPT !.pc = pc, !.gen = submissions[t].gen,
                                  !.rc = submissions[t].retries] IN
               /\ d.pc = pc /\ d.task = t /\ d.won = c.won /\ d.gen = submissions[t].gen
               /\ d.rc = submissions[t].retries
    BY <1>1, Zenon DEF Thread
  <2>2. thread' = [thread EXCEPT ![w] =
                     [c EXCEPT !.pc = IF UsesExternal(w) THEN "quota" ELSE "model",
                               !.gen = submissions[t].gen, !.rc = submissions[t].retries]]
    BY DEF ClaimLoad, ToStage
  <2>3. QED
    BY <2>1, <2>2 DEF OInv, Types
<1>a. submissions[t].gen \in Nat
  BY <1>1 DEF OInv, Types, AnyRow
<1>4. c.won <= submissions[t].gen /\ (submissions[t].owner = w => c.won = submissions[t].gen)
  BY DEF OInv, OwnershipInv, ClaimsKept, ClaimLoad
<1> HIDE DEF c, t
<1>5. ClaimsKept'
  BY <1>1, <1>2, <1>3, <1>4, <1>a DEF OInv, OwnershipInv, ClaimsKept
<1>6. OwnedIffProcessing' /\ RetriesBounded'
  BY <1>2 DEF OInv, OwnershipInv, OwnedIffProcessing, RetriesBounded
<1>7. QED
  BY <1>5, <1>6 DEF OwnershipInv

(* A fenced write: the row that passes the fence leaves the claim with the  *)
(* retry count the outcome asks for, every other row is kept.               *)
LEMMA RowsAfterLeave ==
  ASSUME OInv, NEW t \in Tasks, NEW s \in Statuses, NEW n \in Nat, NEW i \in Int,
         submissions' = [submissions EXCEPT ![t] = Leave(submissions[t], s, n, i)],
         s # "processing", n <= MaxRetry, s = "dlq" <=> n = MaxRetry
  PROVE  \A u \in Tasks : RowKept(u) \/ RowLeft(u)
<1>1. submissions[t] \in AnyRow
  BY DEF OInv, Types
<1>2. LET r == Leave(submissions[t], s, n, i) IN
      /\ r.status = s /\ r.owner = NoOwner /\ r.gen = submissions[t].gen
      /\ r.lease = Past /\ r.retries = n
  BY <1>1, Zenon DEF Leave, AnyRow
<1>3. RowLeft(t)
  BY <1>2 DEF RowLeft, OInv, Types
<1>4. \A u \in Tasks \ {t} : RowKept(u)
  BY DEF RowKept, OInv, Types
<1>5. QED
  BY <1>3, <1>4

LEMMA WritePreserves ==
  ASSUME OInv, Types', NEW w \in Workers, NEW intent, NEW s \in Statuses, NEW n \in Nat,
         NEW i \in Int, thread[w].task \in Tasks,
         WriteOwned(w, intent, Leave(submissions[thread[w].task], s, n, i)),
         Fence(thread[w].task, w, thread[w].gen, thread[w].at)
           => s # "processing" /\ n <= MaxRetry /\ (s = "dlq" <=> n = MaxRetry)
  PROVE  OwnershipInv'
<1>1. \A t \in Tasks : RowKept(t) \/ RowLeft(t)
  <2>1. CASE Fence(thread[w].task, w, thread[w].gen, thread[w].at)
    BY <2>1, RowsAfterLeave DEF WriteOwned
  <2>2. CASE ~Fence(thread[w].task, w, thread[w].gen, thread[w].at)
    BY <2>2 DEF WriteOwned, RowKept
  <2>3. QED
    BY <2>1, <2>2
<1>2. \A v \in Workers : Follows(v)
  BY AllFollow, IdleAway DEF WriteOwned
<1>3. QED
  BY <1>1, <1>2, FollowPreserves

(* Behind the fence a thread knows the row's retry count, and that it is    *)
(* not used up yet.                                                         *)
LEMMA FencedIsFresh ==
  ASSUME OInv, NEW w \in Workers, thread[w].pc \in Working,
         NEW a, Fence(thread[w].task, w, thread[w].gen, a)
  PROVE  /\ thread[w].task \in Tasks
         /\ thread[w].rc = submissions[thread[w].task].retries
         /\ thread[w].rc < MaxRetry
         /\ thread[w].won = submissions[thread[w].task].gen
<1>1. thread[w].task \in Tasks
  BY DEF OInv, Types, Placed, Working
<1>2. /\ thread[w].rc = submissions[thread[w].task].retries
      /\ thread[w].won = submissions[thread[w].task].gen
  BY DEF OInv, OwnershipInv, ClaimsKept, Fence
<1>3. submissions[thread[w].task].status = "processing"
  BY DEF Fence
<1>4. /\ submissions[thread[w].task].retries <= MaxRetry
      /\ submissions[thread[w].task].retries # MaxRetry
  BY <1>1, <1>3 DEF OInv, OwnershipInv, RetriesBounded
<1>5. submissions[thread[w].task].retries \in Nat
  BY <1>1 DEF OInv, Types, AnyRow
<1>6. QED
  BY <1>1, <1>2, <1>4, <1>5, NumberAssumption

LEMMA ClaimingPreserves ==
  ASSUME OInv, Types', NEW w \in Workers,
         \/ RecoverFind(w) \/ RecoverCheck(w) \/ Requeue(w) \/ ClaimSelect(w)
         \/ ClaimCommit(w) \/ ClaimMiss(w) \/ ClaimLoad(w)
  PROVE  OwnershipInv'
<1> DEFINE c == thread[w]
<1>c. c \in Thread
  BY DEF OInv, Types
<1>1. CASE RecoverFind(w)
  <2>1. PICK rec : ToStage(w, rec) /\ Away(rec)
    BY <1>1, IdleAway DEF RecoverFind
  <2>2. QED
    BY <1>1, <2>1, ReadKeeps DEF RecoverFind, KeepTables
<1>2. CASE RecoverCheck(w)
  <2>1. Away([c EXCEPT !.pc = "requeue"])
    BY <1>c DEF Thread, Away, Working
  <2>2. PICK rec : ToStage(w, rec) /\ Away(rec)
    BY <1>2, <2>1, IdleAway DEF RecoverCheck
  <2>3. QED
    BY <1>2, <2>2, ReadKeeps DEF RecoverCheck, KeepTables
<1>3. CASE Requeue(w)
  <2> DEFINE t == c.task
  <2>1. t \in Tasks
    BY <1>3 DEF Requeue, OInv, Types, Placed
  <2>2. \A u \in Tasks : RowKept(u) \/ RowLeft(u)
    <3>1. CASE submissions[t].status = "arrears"
      <4>1. submissions[t] \in AnyRow
        BY <2>1 DEF OInv, Types
      <4>2. LET r == [submissions[t] EXCEPT !.status = "pending", !.next = Past] IN
            /\ r.status = "pending" /\ r.owner = submissions[t].owner
            /\ r.gen = submissions[t].gen /\ r.lease = submissions[t].lease
            /\ r.retries = submissions[t].retries
        BY <4>1, Zenon DEF AnyRow
      <4>3. submissions' = [submissions EXCEPT ![t] =
                              [submissions[t] EXCEPT !.status = "pending", !.next = Past]]
        BY <1>3, <2>1, <3>1 DEF Requeue, OInv, Types
      <4>4. /\ submissions[t].owner = NoOwner /\ submissions[t].lease = Past
            /\ submissions[t].retries <= MaxRetry /\ submissions[t].retries # MaxRetry
        BY <2>1, <3>1 DEF OInv, OwnershipInv, OwnedIffProcessing, RetriesBounded
      <4> HIDE DEF t
      <4>5. RowLeft(t)
        BY <2>1, <4>2, <4>3, <4>4 DEF RowLeft, OInv, Types
      <4>6. \A u \in Tasks \ {t} : RowKept(u)
        BY <4>3 DEF RowKept, OInv, Types
      <4>7. QED
        BY <4>5, <4>6
    <3>2. CASE submissions[t].status # "arrears"
      BY <1>3, <3>2 DEF Requeue, RowKept
    <3>3. QED
      BY <3>1, <3>2
  <2>3. \A v \in Workers : Follows(v)
    BY <1>3, AllFollow, IdleAway DEF Requeue
  <2>4. QED
    BY <2>2, <2>3, FollowPreserves
<1>4. CASE ClaimSelect(w)
  <2>1. ASSUME NEW t \in Tasks, NEW pc \in {"claim_pending", "take_over"}
        PROVE  Away([c EXCEPT !.pc = pc, !.task = t, !.gen = submissions[t].gen])
    <3>1. [c EXCEPT !.pc = pc, !.task = t, !.gen = submissions[t].gen].pc = pc
      BY <1>c, Zenon DEF Thread
    <3>2. QED
      BY <3>1 DEF Away, Working
  <2>2. PICK rec : ToStage(w, rec) /\ Away(rec)
    BY <1>4, <2>1, IdleAway DEF ClaimSelect
  <2>3. QED
    BY <1>4, <2>2, ReadKeeps DEF ClaimSelect, KeepTables
<1>5. CASE ClaimCommit(w)
  BY <1>5, ClaimPreserves
<1>6. CASE ClaimMiss(w)
  BY <1>6, IdleAway, ReadKeeps DEF ClaimMiss, KeepTables
<1>7. CASE ClaimLoad(w)
  BY <1>7, LoadPreserves
<1>8. QED
  BY <1>1, <1>2, <1>3, <1>4, <1>5, <1>6, <1>7

LEMMA IntendFollows ==
  ASSUME NEW c \in Thread, c.pc \in Working, NEW i \in Intents,
         i = "dlq" => c.rc + 1 >= MaxRetry, i = "retry" => c.rc + 1 < MaxRetry
  PROVE  SameClaim(c, Intend(c, i)) /\ SoundIntent(Intend(c, i))
<1>1. LET d == Intend(c, i) IN
      /\ d.pc = "write" /\ d.intent = i /\ d.task = c.task
      /\ d.gen = c.gen /\ d.won = c.won /\ d.rc = c.rc
  BY Zenon DEF Intend, Thread
<1>2. QED
  BY <1>1 DEF SameClaim, SoundIntent, Working

LEMMA MoveFollows ==
  ASSUME NEW c \in Thread, c.pc \in Working, NEW pc \in Working \ {"write"}
  PROVE  /\ SameClaim(c, [c EXCEPT !.pc = pc]) /\ SoundIntent([c EXCEPT !.pc = pc])
         /\ SameClaim(c, [c EXCEPT !.pc = pc, !.at = 0])
         /\ SoundIntent([c EXCEPT !.pc = pc, !.at = 0])
<1>1. LET d == [c EXCEPT !.pc = pc] IN
      d.pc = pc /\ d.task = c.task /\ d.gen = c.gen /\ d.won = c.won /\ d.rc = c.rc
  BY Zenon DEF Thread
<1>2. LET d == [c EXCEPT !.pc = pc, !.at = 0] IN
      d.pc = pc /\ d.task = c.task /\ d.gen = c.gen /\ d.won = c.won /\ d.rc = c.rc
  BY Zenon DEF Thread
<1>3. QED
  BY <1>1, <1>2 DEF SameClaim, SoundIntent

LEMMA DecideFollows ==
  ASSUME NEW c \in Thread, c.pc \in Working, NEW result \in {"ok", "fail", "blocked"}
  PROVE  SameClaim(c, Decide(c, result)) /\ SoundIntent(Decide(c, result))
<1>1. CASE result = "ok"
  BY <1>1, MoveFollows DEF Decide, Working
<1>2. CASE result = "blocked"
  BY <1>2, IntendFollows, StagesNamed DEF Decide
<1>3. CASE result = "fail"
  <2>1. c.rc + 1 \in Int /\ MaxRetry \in Int
    BY NumberAssumption DEF Thread
  <2>2. CASE c.rc + 1 >= MaxRetry
    BY <1>3, <2>1, <2>2, IntendFollows, StagesNamed DEF Decide
  <2>3. CASE ~(c.rc + 1 >= MaxRetry)
    BY <1>3, <2>1, <2>3, IntendFollows, StagesNamed DEF Decide
  <2>4. QED
    BY <2>2, <2>3
<1>4. QED
  BY <1>1, <1>2, <1>3

LEMMA FinalizePreserves ==
  ASSUME OInv, Types', NEW w \in Workers, Finalize(w)
  PROVE  OwnershipInv'
<1> DEFINE c == thread[w]
           r == submissions[c.task]
<1>1. c.task \in Tasks /\ c.rc = r.retries /\ c.rc < MaxRetry
  BY FencedIsFresh DEF Finalize, Working
<1>2. r.retries \in Nat /\ r.next \in Int
  BY <1>1 DEF OInv, Types, AnyRow
<1>3. submissions' = [submissions EXCEPT ![c.task] =
                        Leave(submissions[c.task], "done", r.retries, r.next)]
  BY DEF Finalize
<1> HIDE DEF r
<1>4. r.retries <= MaxRetry /\ r.retries # MaxRetry
  BY <1>1, <1>2, NumberAssumption
<1>5. \A t \in Tasks : RowKept(t) \/ RowLeft(t)
  BY <1>1, <1>2, <1>3, <1>4, RowsAfterLeave, StagesNamed
<1>6. \A v \in Workers : Follows(v)
  BY AllFollow, IdleAway DEF Finalize
<1>7. QED
  BY <1>5, <1>6, FollowPreserves

LEMMA HandlingPreserves ==
  ASSUME OInv, Types', NEW w \in Workers,
         \/ CheckQuota(w) \/ CallModel(w)
         \/ WriteArrears(w) \/ WriteBlocked(w) \/ WriteRetry(w) \/ WriteDeadLetter(w)
         \/ Finalize(w) \/ FinalizeRefused(w) \/ CheckShortage(w)
  PROVE  OwnershipInv'
<1> DEFINE c == thread[w]
           r == submissions[c.task]
           passes == Fence(c.task, w, c.gen, c.at)
<1>w. c.pc \in Working
  BY DEF CheckQuota, CallModel, WriteArrears, WriteBlocked, WriteRetry, WriteDeadLetter,
         WriteOwned, Finalize, FinalizeRefused, CheckShortage, Working
<1>c. c \in Thread /\ c.rc \in Nat /\ c.at \in Int /\ c.task \in Tasks
  BY <1>w DEF OInv, Types, Thread, Placed, Working
<1>r. r.retries \in Nat /\ r.next \in Int
  BY <1>c DEF OInv, Types, AnyRow
<1>f. passes => c.rc = r.retries /\ c.rc < MaxRetry
  BY <1>w, FencedIsFresh
<1>i. SoundIntent(c)
  BY DEF OInv, OwnershipInv, ClaimsKept, SoundIntent
<1>m. MaxRetry \in Nat
  BY NumberAssumption
<1> HIDE DEF c, r, passes
<1>1. CASE CheckQuota(w)
  <2>1. SameClaim(c, [c EXCEPT !.pc = "model"]) /\ SoundIntent([c EXCEPT !.pc = "model"])
    BY <1>w, <1>c, MoveFollows DEF Working
  <2>2. SameClaim(c, Intend(c, "arrears")) /\ SoundIntent(Intend(c, "arrears"))
    BY <1>w, <1>c, IntendFollows, StagesNamed
  <2>3. QED
    BY <1>1, <2>1, <2>2, IdleAway, ReadKeeps DEF CheckQuota, KeepTables, c
<1>2. CASE CallModel(w)
  <2>1. PICK result \in {"ok", "fail", "blocked"} :
          ToStage(w, IF c.lost THEN Idle ELSE Decide(c, result))
    BY <1>2, ModelResultsNamed DEF CallModel, c
  <2>2. SameClaim(c, Decide(c, result)) /\ SoundIntent(Decide(c, result))
    BY <1>w, <1>c, DecideFollows
  <2>3. QED
    BY <1>2, <2>1, <2>2, IdleAway, ReadKeeps DEF CallModel, KeepTables, c
<1>3. CASE WriteArrears(w)
  <2>1. WriteOwned(w, "arrears", Leave(submissions[thread[w].task], "arrears", r.retries, r.next))
    BY <1>3 DEF WriteArrears, c, r
  <2>2. passes => r.retries <= MaxRetry /\ r.retries # MaxRetry
    BY <1>f, <1>r, <1>m
  <2>3. QED
    BY <1>c, <1>r, <2>1, <2>2, WritePreserves, StagesNamed DEF c, passes
<1>4. CASE WriteBlocked(w)
  <2>1. WriteOwned(w, "blocked", Leave(submissions[thread[w].task], "pending", c.rc,
                                       c.at + ControlBlockRetry))
    BY <1>4 DEF WriteBlocked, c
  <2>2. c.at + ControlBlockRetry \in Int
    BY <1>c, NumberAssumption
  <2>3. passes => c.rc <= MaxRetry /\ c.rc # MaxRetry
    BY <1>f, <1>c, <1>m
  <2>4. QED
    BY <1>c, <2>1, <2>2, <2>3, WritePreserves, StagesNamed DEF c, passes
<1>5. CASE WriteRetry(w)
  <2>1. PICK delay \in 0..RetryCap(c.rc + 1) :
          WriteOwned(w, "retry", Leave(submissions[thread[w].task], "pending", c.rc + 1, c.at + delay))
    BY <1>5 DEF WriteRetry, c
  <2>2. c.rc + 1 \in Nat /\ c.at + delay \in Int
    BY <1>c, <2>1
  <2>3. c.rc + 1 <= MaxRetry /\ c.rc + 1 # MaxRetry
    BY <1>i, <1>c, <1>m, <2>1 DEF SoundIntent, WriteOwned, c
  <2>4. QED
    BY <1>c, <2>1, <2>2, <2>3, WritePreserves, StagesNamed DEF c
<1>6. CASE WriteDeadLetter(w)
  <2>1. WriteOwned(w, "dlq", Leave(submissions[thread[w].task], "dlq", c.rc + 1, r.next))
    BY <1>6 DEF WriteDeadLetter, c, r
  <2>2. c.rc + 1 \in Nat
    BY <1>c
  <2>3. passes => c.rc + 1 = MaxRetry
    BY <1>i, <1>f, <1>c, <1>m, <2>1 DEF SoundIntent, WriteOwned, c
  <2>4. passes => c.rc + 1 <= MaxRetry
    BY <2>3, <1>m
  <2>5. QED
    BY <1>c, <1>r, <2>1, <2>2, <2>3, <2>4, WritePreserves, StagesNamed DEF c, passes
<1>7. CASE Finalize(w)
  BY <1>7, FinalizePreserves
<1>8. CASE FinalizeRefused(w)
  <2>1. SameClaim(c, [c EXCEPT !.pc = "shortage"]) /\ SoundIntent([c EXCEPT !.pc = "shortage"])
    BY <1>w, <1>c, MoveFollows DEF Working
  <2>2. QED
    BY <1>8, <2>1, IdleAway, ReadKeeps DEF FinalizeRefused, KeepTables, c
<1>9. CASE CheckShortage(w)
  <2>1. SameClaim(c, Intend(c, "arrears")) /\ SoundIntent(Intend(c, "arrears"))
    BY <1>w, <1>c, IntendFollows, StagesNamed
  <2>2. QED
    BY <1>9, <2>1, IdleAway, ReadKeeps DEF CheckShortage, KeepTables, c
<1>10. QED
  BY <1>1, <1>2, <1>3, <1>4, <1>5, <1>6, <1>7, <1>8, <1>9

LEMMA HeartbeatPreserves ==
  ASSUME OInv, Types',
         \/ \E w \in Workers : HeartbeatBegin(w)
         \/ \E r \in renewals : RenewCommit(r) \/ RenewError(r)
  PROVE  OwnershipInv'
<1>1. CASE UNCHANGED <<submissions, thread>>
  BY <1>1 DEF OInv, OwnershipInv, OwnedIffProcessing, RetriesBounded, ClaimsKept
<1>2. ASSUME NEW r \in renewals, RenewCommit(r)
      PROVE  OwnershipInv'
  <2> DEFINE c == thread[r.owner]
  <2>1. r.owner \in Workers /\ r.task \in Tasks /\ c \in Thread
    BY DEF OInv, Types, Renewal
  <2>2. \A t \in Tasks : RowKept(t)
    <3>1. CASE Fence(r.task, r.owner, r.gen, r.at)
      <4>1. submissions[r.task] \in AnyRow /\ submissions[r.task].status = "processing"
        BY <2>1, <3>1 DEF Fence, OInv, Types
      <4>2. submissions' = [submissions EXCEPT ![r.task] =
                              [submissions[r.task] EXCEPT !.lease = r.at + Lease]]
        BY <1>2, <2>1, <3>1 DEF RenewCommit
      <4>3. LET row == [submissions[r.task] EXCEPT !.lease = r.at + Lease] IN
            /\ row.status = submissions[r.task].status /\ row.owner = submissions[r.task].owner
            /\ row.gen = submissions[r.task].gen /\ row.retries = submissions[r.task].retries
        BY <4>1, Zenon DEF AnyRow
      <4>4. QED
        BY <2>1, <4>1, <4>2, <4>3 DEF RowKept, OInv, Types
    <3>2. CASE ~Fence(r.task, r.owner, r.gen, r.at)
      BY <1>2, <3>2 DEF RenewCommit, RowKept
    <3>3. QED
      BY <3>1, <3>2
  <2>3. \A w \in Workers : Follows(w)
    <3>1. SameClaim(c, [c EXCEPT !.lost = TRUE]) /\ SoundIntent([c EXCEPT !.lost = TRUE])
      <4>1. SoundIntent(c)
        BY <2>1 DEF OInv, OwnershipInv, ClaimsKept, SoundIntent
      <4>2. LET d == [c EXCEPT !.lost = TRUE] IN
            /\ d.pc = c.pc /\ d.task = c.task /\ d.gen = c.gen /\ d.won = c.won
            /\ d.rc = c.rc /\ d.intent = c.intent
        BY <2>1, Zenon DEF Thread
      <4>3. QED
        BY <4>1, <4>2 DEF SameClaim, SoundIntent
    <3>2. CASE ToStage(r.owner, [c EXCEPT !.lost = TRUE])
      BY <2>1, <3>1, <3>2, AllFollow
    <3>3. CASE UNCHANGED thread
      BY <3>3 DEF OInv, OwnershipInv, ClaimsKept, Follows, SameClaim, SoundIntent
    <3>4. QED
      BY <1>2, <3>2, <3>3 DEF RenewCommit
  <2>4. QED
    BY <2>2, <2>3, FollowPreserves
<1>3. QED
  BY <1>1, <1>2 DEF HeartbeatBegin, RenewError, KeepTables

LEMMA EnvironmentPreserves ==
  ASSUME OInv, Types',
         \/ \E w \in Workers : Abandon(w) \/ Restart(w)
         \/ \E t \in Tasks : Accept(t)
         \/ \E u \in Users : Grant(u)
  PROVE  OwnershipInv'
<1>1. ASSUME NEW w \in Workers, Abandon(w) \/ Restart(w)
      PROVE  OwnershipInv'
  BY <1>1, IdleAway, ReadKeeps DEF Abandon, Restart, KeepTables
<1>2. ASSUME NEW t \in Tasks, Accept(t)
      PROVE  OwnershipInv'
  <2>1. submissions[t] \in AnyRow
    BY DEF OInv, Types
  <2>2. LET r == [submissions[t] EXCEPT !.status = "pending"] IN
        /\ r.status = "pending" /\ r.owner = submissions[t].owner
        /\ r.gen = submissions[t].gen /\ r.lease = submissions[t].lease
        /\ r.retries = submissions[t].retries
    BY <2>1, Zenon DEF AnyRow
  <2>3. submissions' = [submissions EXCEPT ![t] = [submissions[t] EXCEPT !.status = "pending"]]
        /\ submissions[t].status = "uploading" /\ UNCHANGED thread
    BY <1>2 DEF Accept
  <2>4. /\ submissions[t].owner = NoOwner /\ submissions[t].lease = Past
        /\ submissions[t].retries <= MaxRetry /\ submissions[t].retries # MaxRetry
    BY <2>3 DEF OInv, OwnershipInv, OwnedIffProcessing, RetriesBounded
  <2>5. RowLeft(t) /\ \A s \in Tasks \ {t} : RowKept(s)
    BY <2>2, <2>3, <2>4 DEF RowLeft, RowKept, OInv, Types
  <2>6. \A w \in Workers : Follows(w)
    BY <2>3 DEF OInv, OwnershipInv, ClaimsKept, Follows, SameClaim, SoundIntent
  <2>7. QED
    BY <2>5, <2>6, FollowPreserves
<1>3. ASSUME NEW u \in Users, Grant(u)
      PROVE  OwnershipInv'
  BY <1>3 DEF Grant, OInv, OwnershipInv, OwnedIffProcessing, RetriesBounded, ClaimsKept
<1>4. QED
  BY <1>1, <1>2, <1>3

LEMMA TickPreserves ==
  ASSUME OInv, Types', Tick
  PROVE  OwnershipInv'
<1>1. ASSUME NEW t \in Tasks PROVE RowKept(t)
  <2>1. submissions[t] \in AnyRow
    BY DEF OInv, Types
  <2>2. submissions'[t] = [submissions[t] EXCEPT !.lease = Aged(submissions[t].lease),
                                                 !.next = Aged(submissions[t].next)]
    BY <2>1 DEF Tick, AnyRow
  <2>3. LET r == [submissions[t] EXCEPT !.lease = Aged(submissions[t].lease),
                                        !.next = Aged(submissions[t].next)] IN
        /\ r.status = submissions[t].status /\ r.owner = submissions[t].owner
        /\ r.gen = submissions[t].gen /\ r.retries = submissions[t].retries
        /\ r.lease = Aged(submissions[t].lease)
    BY <2>1, Zenon DEF AnyRow
  <2>4. Aged(Past) = Past
    BY PastInt DEF Aged
  <2>5. QED
    BY <2>2, <2>3, <2>4 DEF RowKept
<1>2. ASSUME NEW w \in Workers PROVE Follows(w)
  <2> DEFINE c == thread[w]
  <2>1. c \in Thread /\ SoundIntent(c)
    BY DEF OInv, Types, OwnershipInv, ClaimsKept, SoundIntent
  <2>2. LET d == [c EXCEPT !.at = c.at - 1] IN
        /\ d.pc = c.pc /\ d.task = c.task /\ d.gen = c.gen /\ d.won = c.won
        /\ d.rc = c.rc /\ d.intent = c.intent
    BY <2>1, Zenon DEF Thread
  <2>3. thread'[w] \in {c, [c EXCEPT !.at = c.at - 1]}
    BY DEF Tick
  <2> HIDE DEF c
  <2>4. SameClaim(c, thread'[w]) /\ SoundIntent(thread'[w])
    BY <2>1, <2>2, <2>3 DEF SameClaim, SoundIntent
  <2>5. QED
    BY <2>4 DEF Follows, c
<1>3. QED
  BY <1>1, <1>2, FollowPreserves

(* Ownership, retry counts and claims stay consistent (db.py:355-455).      *)
THEOREM Ownership == Spec => []OwnershipInv
<1>1. Init => OwnershipInv
  BY NumberAssumption
     DEF Init, OwnershipInv, OwnedIffProcessing, RetriesBounded, ClaimsKept, Reserved, Idle, Working
<1>2. Types /\ Types' /\ OwnershipInv /\ [Next]_vars => OwnershipInv'
  <2> SUFFICES ASSUME OInv, Types', [Next]_vars PROVE OwnershipInv'
    BY DEF OInv
  <2>1. CASE \E w \in Workers : ThreadStep(w)
    BY <2>1, ClaimingPreserves, HandlingPreserves DEF ThreadStep
  <2>2. CASE \/ \E w \in Workers : HeartbeatBegin(w)
             \/ \E r \in renewals : RenewCommit(r) \/ RenewError(r)
    BY <2>2, HeartbeatPreserves
  <2>3. CASE \/ \E w \in Workers : Abandon(w) \/ Restart(w)
             \/ \E t \in Tasks : Accept(t)
             \/ \E u \in Users : Grant(u)
    BY <2>3, EnvironmentPreserves
  <2>4. CASE Tick
    BY <2>4, TickPreserves
  <2>5. CASE UNCHANGED vars
    BY <2>5 DEF vars, OInv, OwnershipInv, OwnedIffProcessing, RetriesBounded, ClaimsKept
  <2>6. QED
    BY <2>1, <2>2, <2>3, <2>4, <2>5 DEF Next, Steps, Environment
<1>3. QED
  BY <1>1, <1>2, Typing, PTL DEF Spec
=============================================================================
