---------------------------- MODULE WorkerLedger ----------------------------
(***************************************************************************)
(* The worker threads (worker.py) and the rows of the submissions and      *)
(* accounts tables they compete for (db.py, state_machine.py, billing.py). *)
(*                                                                         *)
(* One action is one SQL transaction, one autocommit SELECT or one call    *)
(* that leaves the process, so threads interleave wherever the code lets   *)
(* go of the database.  time.time() is read before a connection is         *)
(* borrowed and used after it: a step that did so keeps the reading in     *)
(* "at", and the clock may move in between.                                *)
(*                                                                         *)
(* Every instant is kept relative to the present, which is 0: Tick moves   *)
(* all of them one unit into the past.  No comparison reaches further back *)
(* than MaxAge, so an instant is not aged beyond Past.                     *)
(***************************************************************************)
EXTENDS Integers, FiniteSets

CONSTANTS
  Tasks,             \* submission ids, positive numbers: rows are served in this order
  Users, UserOf,     \* accounts, and submissions.user_id
  Workers,           \* thread names, "worker-<id>-t<i>"
  NoOwner,           \* SQL NULL in processing_owner
  MaxRetry,          \* db.MAX_RETRY
  Cost,              \* billing.COST_PER_CALL
  Opening,           \* accounts.balance at the start
  Lease,             \* PROCESSING_LEASE_SEC
  RetryBase, RetryMax, ControlBlockRetry,  \* the delays of worker.py
  Backends,          \* the values VISION_BACKEND takes in the deployment
  MaxAge,            \* bound: how old a clock reading in use can be
  MaxGen,            \* bound: claims of one submission
  MaxGranted,        \* bound: what an account is ever granted
  MaxFaults          \* bound: exceptions, crashes and restarts

ASSUME TasksAssumption == Tasks \in SUBSET (Nat \ {0})
ASSUME UsersAssumption == UserOf \in [Tasks -> Users] /\ Opening \in [Users -> Nat]
ASSUME OwnerAssumption == NoOwner \notin Workers
ASSUME BackendAssumption == Backends \in SUBSET {"internal", "external"}
ASSUME NumberAssumption ==
  /\ MaxRetry \in Nat \ {0} /\ Cost \in Nat \ {0}
  /\ Lease \in Nat \ {0} /\ MaxAge \in Nat \ {0}
  /\ RetryBase \in Nat /\ RetryMax \in Nat /\ ControlBlockRetry \in Nat
  /\ MaxGen \in Nat /\ MaxGranted \in Nat /\ MaxFaults \in Nat

VARIABLES
  submissions,  \* the table: id -> row
  balance,      \* accounts.balance
  thread,       \* what each worker thread is doing
  renewals,     \* heartbeat renewals that read the clock and have not committed
  backend,      \* VISION_BACKEND of the process a thread runs in
  faults,       \* faults so far
  granted,      \* history: all credit ever given to an account
  external      \* history: the submissions completed by a thread on the external backend

vars == <<submissions, balance, thread, renewals, backend, faults, granted, external>>

Past == 0 - MaxAge
Aged(i) == IF i > Past THEN i - 1 ELSE Past

(* After load a thread runs handle_one on the row it read, its heartbeat    *)
(* alongside; in a timed stage it holds a clock reading.                    *)
Working == {"quota", "model", "write", "finalize", "shortage"}
Timed   == {"select", "claim_pending", "take_over", "write", "finalize"}
Stages  == {"idle", "recover", "requeue", "load"} \cup Working \cup Timed
Intents == {"none", "arrears", "blocked", "retry", "dlq"}
Statuses == {"uploading", "pending", "processing", "arrears", "done", "dlq"}

Row == [status : Statuses, owner : Workers \cup {NoOwner}, gen : Nat,
        lease : Int, next : Int, retries : 0..MaxRetry]

(* gen and rc are the processing_generation and retry_count handle_one      *)
(* read; won is history: the generation this thread's own claim created.    *)
Thread == [pc : Stages, task : Tasks \cup {0}, gen : Nat, won : Nat, rc : Nat,
           at : Int, lost : BOOLEAN, intent : Intents]

Renewal == [owner : Workers, task : Tasks, gen : Nat, at : Int]

TypeOK ==
  /\ submissions \in [Tasks -> Row]
  /\ balance \in [Users -> Nat]
  /\ thread \in [Workers -> Thread]
  /\ renewals \in SUBSET Renewal
  /\ backend \in [Workers -> {"internal", "external"}]
  /\ faults \in Nat
  /\ granted \in [Users -> Nat]
  /\ external \in SUBSET Tasks

Reserved == [status |-> "uploading", owner |-> NoOwner, gen |-> 0,
             lease |-> Past, next |-> Past, retries |-> 0]
Idle == [pc |-> "idle", task |-> 0, gen |-> 0, won |-> 0, rc |-> 0,
         at |-> 0, lost |-> FALSE, intent |-> "none"]

Init ==
  /\ submissions = [t \in Tasks |-> Reserved]
  /\ balance = Opening
  /\ thread = [w \in Workers |-> Idle]
  /\ renewals = {}
  /\ backend \in [Workers -> Backends]
  /\ faults = 0
  /\ granted = Opening
  /\ external = {}

-----------------------------------------------------------------------------
(* Conditions of the SQL statements.                                        *)

(* Mutant of Claimable: expired rows are not offered again.                 *)
ClaimablePending(t, a) == submissions[t].status = "pending" /\ submissions[t].next <= a

Claimable(t, a) ==
  \/ submissions[t].status = "pending" /\ submissions[t].next <= a
  \/ submissions[t].status = "processing" /\ submissions[t].lease <= a

ServedBefore(s, t) ==
  IF submissions[s].status = submissions[t].status
  THEN s < t
  ELSE submissions[s].status = "pending"

(* Mutants of Fence: a WHERE clause without the owner, and one with nothing *)
(* but the live lease.                                                      *)
FenceNoOwner(t, w, g, a) ==
  /\ submissions[t].status = "processing"
  /\ submissions[t].gen = g /\ submissions[t].lease > a
FenceLeaseOnly(t, w, g, a) ==
  submissions[t].status = "processing" /\ submissions[t].lease > a

(* owner + generation + live lease: the fence of every write of a worker    *)
Fence(t, w, g, a) ==
  /\ submissions[t].status = "processing"
  /\ submissions[t].owner = w
  /\ submissions[t].gen = g
  /\ submissions[t].lease > a

IsArrears(u) == balance[u] <= 0
UsesExternal(w) == backend[w] = "external"

RetryCap(n) ==
  LET cap == RetryBase * 2 ^ (n - 1) IN IF cap < RetryMax THEN cap ELSE RetryMax

(* Mutant of Leave: the owner is not cleared.                               *)
LeaveOwned(row, status, retries, next) ==
  [row EXCEPT !.status = status, !.lease = Past, !.retries = retries, !.next = next]

(* Leaving processing clears the owner and the lease.                       *)
Leave(row, status, retries, next) ==
  [row EXCEPT !.status = status, !.owner = NoOwner, !.lease = Past,
              !.retries = retries, !.next = next]

Claimed(row, w, g, lease) ==
  [row EXCEPT !.status = "processing", !.owner = w, !.gen = g, !.lease = lease]

ToStage(w, rec) == thread' = [thread EXCEPT ![w] = rec]
KeepTables == UNCHANGED <<submissions, balance, granted, external>>
KeepEnv == UNCHANGED <<renewals, backend, faults>>

-----------------------------------------------------------------------------
(* worker.loop: recover_arrears.                                            *)

(* find_arrears_id looks at one row only: the oldest in arrears.            *)
RecoverFind(w) ==
  LET suspended == {t \in Tasks : submissions[t].status = "arrears"} IN
  /\ thread[w].pc = "idle"
  /\ \/ suspended = {} /\ ToStage(w, [Idle EXCEPT !.pc = "select"])
     \/ \E t \in suspended :
          /\ \A s \in suspended : t <= s
          /\ ToStage(w, [Idle EXCEPT !.pc = "recover", !.task = t])
  /\ KeepTables /\ KeepEnv

RecoverCheck(w) ==
  /\ thread[w].pc = "recover"
  /\ ToStage(w, IF UsesExternal(w) /\ IsArrears(UserOf[thread[w].task])
                THEN [Idle EXCEPT !.pc = "select"]
                ELSE [thread[w] EXCEPT !.pc = "requeue"])
  /\ KeepTables /\ KeepEnv

(* state_machine.transition reads the row and writes it on condition that   *)
(* the status is still the one it read; only "arrears" leads to an UPDATE,  *)
(* so the two statements act as the conditional write.                      *)
Requeue(w) ==
  LET t == thread[w].task IN
  /\ thread[w].pc = "requeue"
  /\ submissions' = IF submissions[t].status = "arrears"
                    THEN [submissions EXCEPT ![t].status = "pending", ![t].next = Past]
                    ELSE submissions
  /\ ToStage(w, [Idle EXCEPT !.pc = "select"])
  /\ UNCHANGED <<balance, granted, external>> /\ KeepEnv

-----------------------------------------------------------------------------
(* db.claim_next_task: SELECT, conditional UPDATE, SELECT after the commit. *)

ClaimSelect(w) ==
  LET c == thread[w]
      found == {t \in Tasks : Claimable(t, c.at)} IN
  /\ c.pc = "select"
  /\ \/ found = {} /\ ToStage(w, Idle)
     \/ \E t \in found :
          /\ \A s \in found \ {t} : ServedBefore(t, s)
          /\ ToStage(w, [c EXCEPT
               !.pc = IF submissions[t].status = "pending" THEN "claim_pending" ELSE "take_over",
               !.task = t, !.gen = submissions[t].gen])
  /\ KeepTables /\ KeepEnv

(* The conditional UPDATE, in its two forms.                                *)
ClaimUpdate(w, row) ==
  LET c == thread[w] IN
  /\ submissions' = [submissions EXCEPT ![c.task] = row]
  /\ ToStage(w, [c EXCEPT !.pc = "load", !.at = 0, !.won = c.gen + 1])

(* Mutant of CanClaim: no generation in the WHERE clause.                   *)
CanClaimAnyGen(w) ==
  LET c == thread[w] r == submissions[c.task] IN
  \/ c.pc = "claim_pending" /\ r.status = "pending" /\ r.next <= c.at
  \/ c.pc = "take_over" /\ r.status = "processing" /\ r.lease <= c.at

CanClaim(w) ==
  LET c == thread[w] r == submissions[c.task] IN
  /\ r.gen = c.gen
  /\ \/ c.pc = "claim_pending" /\ r.status = "pending" /\ r.next <= c.at
     \/ c.pc = "take_over" /\ r.status = "processing" /\ r.lease <= c.at

ClaimCommit(w) ==
  LET c == thread[w]
      row == Claimed(submissions[c.task], w, c.gen + 1, c.at + Lease) IN
  /\ c.pc \in {"claim_pending", "take_over"}
  /\ CanClaim(w) /\ c.gen < MaxGen
  /\ ClaimUpdate(w, IF c.pc = "claim_pending" THEN [row EXCEPT !.next = Past] ELSE row)
  /\ UNCHANGED <<balance, granted, external>> /\ KeepEnv

ClaimMiss(w) ==
  /\ thread[w].pc \in {"claim_pending", "take_over"}
  /\ ~CanClaim(w) \/ thread[w].gen = MaxGen
  /\ ToStage(w, Idle)
  /\ KeepTables /\ KeepEnv

(* The second SELECT returns the row as it is now, whoever claimed it since.*)
ClaimLoad(w) ==
  LET c == thread[w] IN
  /\ c.pc = "load"
  /\ ToStage(w, [c EXCEPT !.pc = IF UsesExternal(w) THEN "quota" ELSE "model",
                          !.gen = submissions[c.task].gen,
                          !.rc = submissions[c.task].retries])
  /\ KeepTables /\ KeepEnv

-----------------------------------------------------------------------------
(* worker.handle_one.                                                       *)

Intend(c, intent) == [c EXCEPT !.pc = "write", !.intent = intent, !.at = 0]

CheckQuota(w) ==
  LET c == thread[w] IN
  /\ c.pc = "quota"
  /\ ToStage(w, IF ~IsArrears(UserOf[c.task]) THEN [c EXCEPT !.pc = "model"]
                ELSE IF c.lost THEN Idle
                ELSE Intend(c, "arrears"))
  /\ KeepTables /\ KeepEnv

(* Both backends fail on fixed ids; the external one is also blocked while  *)
(* the provider is paused, the token missing or its generation stale.       *)
ModelResults(t, rc, b) ==
  IF b = "internal"
  THEN {IF t % 3 = 0 \/ (t % 5 = 0 /\ rc = 0) THEN "fail" ELSE "ok"}
  ELSE {"blocked", IF t % 11 = 0 \/ (t % 5 = 0 /\ rc = 0) THEN "fail" ELSE "ok"}

(* Mutant of Decide: one attempt too many.                                  *)
DecideLate(c, result) ==
  CASE result = "ok"      -> [c EXCEPT !.pc = "finalize", !.at = 0]
    [] result = "blocked" -> Intend(c, "blocked")
    [] result = "fail"    -> Intend(c, IF c.rc + 1 > MaxRetry THEN "dlq" ELSE "retry")

Decide(c, result) ==
  CASE result = "ok"      -> [c EXCEPT !.pc = "finalize", !.at = 0]
    [] result = "blocked" -> Intend(c, "blocked")
    [] result = "fail"    -> Intend(c, IF c.rc + 1 >= MaxRetry THEN "dlq" ELSE "retry")

CallModel(w) ==
  LET c == thread[w] IN
  /\ c.pc = "model"
  /\ \E result \in ModelResults(c.task, c.rc, backend[w]) :
       ToStage(w, IF c.lost THEN Idle ELSE Decide(c, result))
  /\ KeepTables /\ KeepEnv

(* update_processing_owned: one fenced UPDATE, whatever it writes.          *)
WriteOwned(w, intent, row) ==
  LET c == thread[w] IN
  /\ c.pc = "write" /\ c.intent = intent
  /\ submissions' = IF Fence(c.task, w, c.gen, c.at)
                    THEN [submissions EXCEPT ![c.task] = row]
                    ELSE submissions
  /\ ToStage(w, Idle)
  /\ UNCHANGED <<balance, granted, external>> /\ KeepEnv

WriteArrears(w) ==
  LET r == submissions[thread[w].task] IN
  WriteOwned(w, "arrears", Leave(r, "arrears", r.retries, r.next))

(* Mutant of WriteBlocked: a control block uses up a retry.                 *)
WriteBlockedBurns(w) ==
  LET c == thread[w] IN
  WriteOwned(w, "blocked",
             Leave(submissions[c.task], "pending", c.rc + 1, c.at + ControlBlockRetry))

WriteBlocked(w) ==
  LET c == thread[w] IN
  WriteOwned(w, "blocked",
             Leave(submissions[c.task], "pending", c.rc, c.at + ControlBlockRetry))

WriteRetry(w) ==
  LET c == thread[w] IN
  \E delay \in 0..RetryCap(c.rc + 1) :
    WriteOwned(w, "retry",
               Leave(submissions[c.task], "pending", c.rc + 1, c.at + delay))

WriteDeadLetter(w) ==
  LET c == thread[w] r == submissions[c.task] IN
  WriteOwned(w, "dlq", Leave(r, "dlq", c.rc + 1, r.next))

(* Mutant of Affordable: the charge without "balance >= cost".              *)
AffordableAlways(w, t) == TRUE

(* finalize_processing_and_charge: done and the charge in one transaction.  *)
(* Its first SELECT only lets it give up earlier than the UPDATE would.     *)
Affordable(w, t) == UsesExternal(w) => balance[UserOf[t]] >= Cost

Finalize(w) ==
  LET c == thread[w]
      u == UserOf[c.task]
      r == submissions[c.task] IN
  /\ c.pc = "finalize"
  /\ Fence(c.task, w, c.gen, c.at)
  /\ Affordable(w, c.task)
  /\ submissions' = [submissions EXCEPT ![c.task] = Leave(r, "done", r.retries, r.next)]
  /\ balance' = IF UsesExternal(w) THEN [balance EXCEPT ![u] = @ - Cost] ELSE balance
  /\ external' = IF UsesExternal(w) THEN external \cup {c.task} ELSE external
  /\ ToStage(w, Idle)
  /\ UNCHANGED granted /\ KeepEnv

(* Mutant of FinalizeRefused: "done" is not rolled back when the charge is  *)
(* refused.                                                                 *)
FinalizeHalf(w) ==
  LET c == thread[w]
      r == submissions[c.task] IN
  /\ c.pc = "finalize"
  /\ ~(Fence(c.task, w, c.gen, c.at) /\ Affordable(w, c.task))
  /\ IF Fence(c.task, w, c.gen, c.at)
     THEN /\ submissions' = [submissions EXCEPT ![c.task] = Leave(r, "done", r.retries, r.next)]
          /\ external' = external \cup {c.task}
     ELSE UNCHANGED <<submissions, external>>
  /\ ToStage(w, Idle)
  /\ UNCHANGED <<balance, granted>> /\ KeepEnv

FinalizeRefused(w) ==
  LET c == thread[w] IN
  /\ c.pc = "finalize"
  /\ ~(Fence(c.task, w, c.gen, c.at) /\ Affordable(w, c.task))
  /\ ToStage(w, IF UsesExternal(w) THEN [c EXCEPT !.pc = "shortage"] ELSE Idle)
  /\ KeepTables /\ KeepEnv

CheckShortage(w) ==
  LET c == thread[w] IN
  /\ c.pc = "shortage"
  /\ ToStage(w, IF IsArrears(UserOf[c.task]) THEN Intend(c, "arrears") ELSE Idle)
  /\ KeepTables /\ KeepEnv

-----------------------------------------------------------------------------
(* worker.ProcessingLeaseHeartbeat.  Its thread has one renewal in flight   *)
(* at most.  stop() waits for it only so long: it may outlive handle_one.   *)

HeartbeatBegin(w) ==
  LET c == thread[w] IN
  /\ c.pc \in Working /\ ~c.lost
  /\ \A r \in renewals : <<r.owner, r.task, r.gen>> # <<w, c.task, c.gen>>
  /\ renewals' = renewals \cup {[owner |-> w, task |-> c.task, gen |-> c.gen, at |-> 0]}
  /\ UNCHANGED <<thread, backend, faults>> /\ KeepTables

(* renew_processing_lease: a refusal tells the thread it lost the claim.    *)
RenewCommit(r) ==
  LET c == thread[r.owner] IN
  /\ r \in renewals
  /\ renewals' = renewals \ {r}
  /\ IF Fence(r.task, r.owner, r.gen, r.at)
     THEN /\ submissions' = [submissions EXCEPT ![r.task].lease = r.at + Lease]
          /\ UNCHANGED thread
     ELSE /\ IF c.pc \in Working /\ c.task = r.task /\ c.gen = r.gen
             THEN ToStage(r.owner, [c EXCEPT !.lost = TRUE])
             ELSE UNCHANGED thread
          /\ UNCHANGED submissions
  /\ UNCHANGED <<balance, granted, external, backend, faults>>

(* Mutant of RenewError: a database error is taken for a lost claim.        *)
RenewErrorLoses(r) ==
  LET c == thread[r.owner] IN
  /\ r \in renewals /\ faults < MaxFaults
  /\ renewals' = renewals \ {r}
  /\ faults' = faults + 1
  /\ ToStage(r.owner, IF c.pc \in Working THEN [c EXCEPT !.lost = TRUE] ELSE c)
  /\ UNCHANGED backend /\ KeepTables

(* A database error only leaves the ownership uncertain; the next beat      *)
(* tries again.                                                             *)
RenewError(r) ==
  /\ r \in renewals /\ faults < MaxFaults
  /\ renewals' = renewals \ {r}
  /\ faults' = faults + 1
  /\ UNCHANGED <<thread, backend>> /\ KeepTables

-----------------------------------------------------------------------------
(* Exceptions, crashes, the API, the operator and time.                     *)

(* worker.loop catches the exception and leaves the row to its lease.       *)
Abandon(w) ==
  /\ thread[w].pc # "idle" /\ faults < MaxFaults
  /\ faults' = faults + 1
  /\ ToStage(w, Idle)
  /\ UNCHANGED <<renewals, backend>> /\ KeepTables

(* The process dies and comes back, possibly with another VISION_BACKEND.   *)
Restart(w) ==
  /\ faults < MaxFaults
  /\ faults' = faults + 1
  /\ ToStage(w, Idle)
  /\ renewals' = {r \in renewals : r.owner # w}
  /\ \E b \in Backends : backend' = [backend EXCEPT ![w] = b]
  /\ KeepTables

(* The API completes an upload: state_machine.transition to "pending".      *)
Accept(t) ==
  /\ submissions[t].status = "uploading"
  /\ submissions' = [submissions EXCEPT ![t].status = "pending"]
  /\ UNCHANGED <<balance, granted, external, thread>> /\ KeepEnv

(* The provider's credits are restored from outside.                        *)
Grant(u) ==
  /\ granted[u] + Cost <= MaxGranted
  /\ granted' = [granted EXCEPT ![u] = @ + Cost]
  /\ balance' = [balance EXCEPT ![u] = @ + Cost]
  /\ UNCHANGED <<submissions, external, thread>> /\ KeepEnv

(* No connection is waited for longer than MaxAge (pool timeout and         *)
(* busy_timeout): a clock reading that old is used before time moves on.    *)
Tick ==
  /\ \A w \in Workers : thread[w].pc \in Timed => thread[w].at > Past
  /\ \A r \in renewals : r.at > Past
  /\ submissions' = [t \in Tasks |->
       [submissions[t] EXCEPT !.lease = Aged(@), !.next = Aged(@)]]
  /\ thread' = [w \in Workers |->
       IF thread[w].pc \in Timed THEN [thread[w] EXCEPT !.at = @ - 1] ELSE thread[w]]
  /\ renewals' = {[r EXCEPT !.at = @ - 1] : r \in renewals}
  /\ UNCHANGED <<balance, granted, external, backend, faults>>

ThreadStep(w) ==
  \/ RecoverFind(w) \/ RecoverCheck(w) \/ Requeue(w)
  \/ ClaimSelect(w) \/ ClaimCommit(w) \/ ClaimMiss(w) \/ ClaimLoad(w)
  \/ CheckQuota(w) \/ CallModel(w)
  \/ WriteArrears(w) \/ WriteBlocked(w) \/ WriteRetry(w) \/ WriteDeadLetter(w)
  \/ Finalize(w) \/ FinalizeRefused(w) \/ CheckShortage(w)

Environment ==
  \/ \E w \in Workers : Abandon(w) \/ Restart(w)
  \/ \E r \in renewals : RenewError(r)
  \/ \E t \in Tasks : Accept(t)
  \/ \E u \in Users : Grant(u)

Steps ==
  \/ \E w \in Workers : ThreadStep(w) \/ HeartbeatBegin(w)
  \/ \E r \in renewals : RenewCommit(r)
  \/ Environment

Next == Steps \/ Tick

Spec == Init /\ [][Next]_vars

-----------------------------------------------------------------------------
(* A run in which heartbeats are in time: PROCESSING_HEARTBEAT_SEC is at    *)
(* most half a lease, so a thread that is at work on its claim has renewed  *)
(* it before the lease can run out.                                         *)
HeartbeatInTime ==
  \A w \in Workers :
    LET c == thread[w] IN
    c.pc \in Working \cup {"load"} /\ submissions[c.task].owner = w
      => submissions[c.task].lease > 1

TimelyNext == Steps \/ (HeartbeatInTime /\ Tick)

Fairness ==
  /\ \A w \in Workers : WF_vars(ThreadStep(w)) /\ WF_vars(HeartbeatBegin(w))
  /\ WF_vars(\E r \in renewals : RenewCommit(r))
  /\ WF_vars(HeartbeatInTime /\ Tick)

TimelySpec == Init /\ [][TimelyNext]_vars /\ Fairness

-----------------------------------------------------------------------------
(* Properties.                                                              *)

(* The columns written together stay together: a row is owned, at a         *)
(* generation somebody claimed, exactly while it is being processed         *)
(* (db.claim_next_task sets what update_processing_owned clears).           *)
OwnedIffProcessing ==
  \A t \in Tasks :
    LET r == submissions[t] IN
    /\ (r.status = "processing") <=> (r.owner # NoOwner)
    /\ r.status = "processing" => r.gen > 0
    /\ r.status # "processing" => r.lease = Past

(* A retry_count that will be written is never out of date: between the     *)
(* load in handle_one and the fenced write a long model call passes, and    *)
(* rc + 1 is computed from the row as it was before.  Whoever still passes  *)
(* the fence read the count that is in the row.                             *)
RetryCountIsFresh ==
  \A w \in Workers :
    LET c == thread[w] IN
    c.pc \in Working /\ Fence(c.task, w, c.gen, c.at)
      => c.rc = submissions[c.task].retries

(* What the previous three rest on, made inductive.                         *)
RetriesBounded ==
  \A t \in Tasks :
    LET r == submissions[t] IN
    r.retries <= MaxRetry /\ (r.status = "dlq" <=> r.retries = MaxRetry)

ClaimsKept ==
  \A w \in Workers :
    LET c == thread[w]
        r == submissions[c.task] IN
    /\ c.pc \in Working \cup {"load"} =>
         c.won <= r.gen /\ (r.owner = w => c.won = r.gen)
    /\ c.pc \in Working =>
         c.gen <= r.gen /\ (r.status = "processing" /\ c.gen = r.gen => c.rc = r.retries)
    /\ c.pc = "write" =>
         /\ c.intent = "dlq" => c.rc + 1 >= MaxRetry
         /\ c.intent = "retry" => c.rc + 1 < MaxRetry

OwnershipInv == OwnedIffProcessing /\ RetriesBounded /\ ClaimsKept

(* A thread that was told it lost the claim did lose it (worker.py:40): no  *)
(* write it could still start would pass the fence, so no result that is    *)
(* thrown away after the model call was one the table would have taken.     *)
LostMeansLost ==
  \A w \in Workers :
    LET c == thread[w] IN
    c.pc \in Working /\ c.lost => ~Fence(c.task, w, c.gen, 0)

(* Only the thread whose own claim created the current generation can move  *)
(* a row out of processing, though the SELECT after the commit may hand a   *)
(* thread the generation of a later claimant.                               *)
OutcomeByClaimant ==
  [][\A t \in Tasks :
       submissions[t].status = "processing" /\ submissions'[t].status # "processing"
         => \E w \in Workers :
              /\ thread[w].pc \in {"write", "finalize"} /\ thread'[w] = Idle
              /\ thread[w].task = t
              /\ submissions[t].owner = w
              /\ thread[w].won = submissions[t].gen]_vars

(* A generation is a fencing token: it grows by one with each claim, at no  *)
(* other time, and a lease in force is never taken over by another thread.  *)
TakeOverNeedsExpiry ==
  [][\A t \in Tasks :
       /\ submissions'[t].gen \in {submissions[t].gen, submissions[t].gen + 1}
       /\ submissions'[t].owner \notin {submissions[t].owner, NoOwner}
            => submissions'[t].gen = submissions[t].gen + 1
       /\ submissions[t].status = "processing" /\ submissions[t].lease > 0
            => submissions'[t].gen = submissions[t].gen]_vars

Ledger == INSTANCE TaskLedger WITH
  status <- [t \in Tasks |-> submissions[t].status],
  attempts <- [t \in Tasks |-> submissions[t].retries],
  credit <- balance

(* The promise of TaskLedger.tla is kept by the threads.                    *)
DeadLetterIffExhausted == Ledger!DeadLetterIffExhausted
CreditConserved == Ledger!CreditConserved
ImplementsLedger == Ledger!LedgerSpec

(* With heartbeats in time every accepted submission is decided, whatever   *)
(* finitely many exceptions and crashes happen on the way (internal model). *)
EverySubmissionSettles ==
  \A t \in Tasks : submissions[t].status = "pending" ~> submissions[t].status \in {"done", "dlq"}

(* worker.py:294: once credits are back, a suspended submission is queued   *)
(* again.                                                                   *)
RecoveredCreditRequeues ==
  \A t \in Tasks :
    LET suspended == submissions[t].status = "arrears"
        funded == balance[UserOf[t]] > 0 IN
    (suspended /\ funded) ~> (~suspended \/ ~funded)
=============================================================================
