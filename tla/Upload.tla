------------------------------- MODULE Upload -------------------------------
(***************************************************************************)
(* POST /api/submit (app.py, Handler.handle_submit): several clients and   *)
(* API instances, one row per (user_id, idempotency_key), one object per   *)
(* row.  The database and the object store share no transaction, so a      *)
(* submission is reserved as "uploading", its object written, and the row  *)
(* then advanced to "pending"; whoever sends the same request again picks  *)
(* up what a failed or killed handler left behind.                         *)
(*                                                                         *)
(* One action is one SQL transaction or one operation on the final object. *)
(* A row is named by its key: the unique index makes ids and keys          *)
(* correspond, and rows are never deleted.  Leases are untimed: one may    *)
(* run out at any moment (Expire), however long a handler takes.           *)
(***************************************************************************)
EXTENDS Naturals, FiniteSets

CONSTANTS
  Keys,       \* (user_id, idempotency_key) pairs
  Files,      \* file contents; a file stands for its SHA-256 too
  NoFile,     \* no object, no file_hash
  Clients,    \* clients, each with one request at a time
  Message,    \* what a client sends, now and when it retries
  MaxFaults   \* bound: errors and crashes

ASSUME FileAssumption == NoFile \notin Files
ASSUME MessageAssumption == Message \in [Clients -> [key : Keys, file : Files, valid : BOOLEAN]]
ASSUME FaultsAssumption == MaxFaults \in Nat

VARIABLES
  rows,     \* submissions: status, file_hash, and whether upload_lease_until lies ahead
  object,   \* the final objects in UPLOAD_DIR, by submission
  pc,       \* where each client's handler is in handle_submit
  told,     \* history: the <<key, file>> that were answered 200
  faults    \* errors and crashes so far

uploadVars == <<rows, object, pc, told, faults>>

Served   == {"pending", "processing", "arrears", "done", "dlq"}
Statuses == {"none", "uploading", "rejected"} \cup Served
Stages   == {"idle", "find", "reject", "reserve", "probe", "recover", "claim",
             "write", "advance", "release", "reply"}

(* Mutant of ALLOWED: an edge to a status no reader knows.                  *)
ALLOWEDFailed == {<<"uploading", "pending">>, <<"pending", "processing">>,
                  <<"processing", "done">>, <<"processing", "failed">>,
                  <<"arrears", "pending">>}

(* state_machine.ALLOWED                                                    *)
ALLOWED == {<<"uploading", "pending">>, <<"pending", "processing">>,
            <<"processing", "done">>, <<"processing", "pending">>,
            <<"processing", "dlq">>, <<"processing", "arrears">>,
            <<"arrears", "pending">>}

TypeOK ==
  /\ rows \in [Keys -> [status : Statuses, hash : Files \cup {NoFile}, live : BOOLEAN]]
  /\ object \in [Keys -> Files \cup {NoFile}]
  /\ pc \in [Clients -> Stages]
  /\ told \in SUBSET (Keys \X Files)
  /\ faults \in Nat

Init ==
  /\ rows = [k \in Keys |-> [status |-> "none", hash |-> NoFile, live |-> FALSE]]
  /\ object = [k \in Keys |-> NoFile]
  /\ pc = [c \in Clients |-> "idle"]
  /\ told = {}
  /\ faults = 0

Key(c)  == Message[c].key
File(c) == Message[c].file
Current(c) == rows[Key(c)]

Go(c, from, to) == pc[c] = from /\ pc' = [pc EXCEPT ![c] = to]
Store(c, row) == rows' = [rows EXCEPT ![Key(c)] = row]

(* Mutant of SameFile: a key is answered whatever file comes with it.       *)
SameFileAny(c) == TRUE

(* The request's fingerprint is the one the key was first used with.        *)
SameFile(c) == Current(c).hash = File(c)

(* What an existing row means for a request: 409, recovery or a replay.     *)
Meet(c) == IF ~SameFile(c) THEN "idle"
           ELSE IF Current(c).status = "uploading" THEN "probe" ELSE "reply"

-----------------------------------------------------------------------------
(* handle_submit, once the token, the credit and the headers are checked.   *)

Submit(c) == Go(c, "idle", "find") /\ UNCHANGED <<rows, object, told, faults>>

Find(c) ==
  /\ Go(c, "find", IF Current(c).status # "none" THEN Meet(c)
                   ELSE IF Message[c].valid THEN "reserve" ELSE "reject")
  /\ UNCHANGED <<rows, object, told, faults>>

(* Mutant of Reject: INSERT OR REPLACE, the rejection takes the row over.    *)
RejectReplacing(c) ==
  /\ Go(c, "reject", "idle")
  /\ Store(c, [status |-> "rejected", hash |-> File(c), live |-> FALSE])
  /\ UNCHANGED <<object, told, faults>>

(* insert_rejected; a row that came first stays, and the answer is 400 or   *)
(* 409 all the same.                                                        *)
Reject(c) ==
  /\ Go(c, "reject", "idle")
  /\ IF Current(c).status = "none"
     THEN Store(c, [status |-> "rejected", hash |-> File(c), live |-> FALSE])
     ELSE UNCHANGED rows
  /\ UNCHANGED <<object, told, faults>>

(* Mutant of Reserve: the row is queued before there is an object.          *)
ReservePending(c) ==
  /\ IF Current(c).status = "none"
     THEN Go(c, "reserve", "write")
          /\ Store(c, [status |-> "pending", hash |-> File(c), live |-> TRUE])
     ELSE Go(c, "reserve", Meet(c)) /\ UNCHANGED rows
  /\ UNCHANGED <<object, told, faults>>

(* reserve_upload: the unique index decides which request creates the row.  *)
Reserve(c) ==
  /\ IF Current(c).status = "none"
     THEN Go(c, "reserve", "write")
          /\ Store(c, [status |-> "uploading", hash |-> File(c), live |-> TRUE])
     ELSE Go(c, "reserve", Meet(c)) /\ UNCHANGED rows
  /\ UNCHANGED <<object, told, faults>>

(* _complete_or_recover_upload for a row this request did not create.       *)
Probe(c) ==
  /\ Go(c, "probe", IF object[Key(c)] = NoFile THEN "claim"
                    ELSE IF object[Key(c)] = File(c) THEN "recover" ELSE "idle")
  /\ UNCHANGED <<rows, object, told, faults>>

(* Mutant of Stale: WHERE status='pending'.                                 *)
StalePending(c) == Current(c).status = "pending" /\ SameFile(c) /\ ~Current(c).live

(* claim_stale_upload takes over only when the lease has run out.           *)
Stale(c) == Current(c).status = "uploading" /\ SameFile(c) /\ ~Current(c).live

Claim(c) ==
  /\ IF Stale(c)
     THEN Go(c, "claim", "write") /\ Store(c, [Current(c) EXCEPT !.live = TRUE])
     ELSE Go(c, "claim", "reply") /\ UNCHANGED rows
  /\ UNCHANGED <<object, told, faults>>

(* put_object_stream: the temporary file is complete and its hash checked;  *)
(* os.replace makes it the object.                                          *)
Write(c) ==
  /\ Go(c, "write", "advance")
  /\ object' = [object EXCEPT ![Key(c)] = File(c)]
  /\ UNCHANGED <<rows, told, faults>>

(* Mutant of WriteFails: the cleanup takes the final object with it.        *)
WriteFailsRemoving(c) ==
  /\ Go(c, "write", "release")
  /\ object' = [object EXCEPT ![Key(c)] = NoFile]
  /\ IF Message[c].valid THEN faults < MaxFaults /\ faults' = faults + 1 ELSE UNCHANGED faults
  /\ UNCHANGED <<rows, told>>

(* The write fails: the disk, or the extension of a file that is not valid. *)
(* Only the temporary file is removed.                                      *)
WriteFails(c) ==
  /\ Go(c, "write", "release")
  /\ IF Message[c].valid THEN faults < MaxFaults /\ faults' = faults + 1 ELSE UNCHANGED faults
  /\ UNCHANGED <<rows, object, told>>

(* state_machine.transition to "pending".  It reads the row, and writes it  *)
(* if the status it read may lead to "pending" and has not changed since.   *)
(* "processing" is for workers only, and a status equal to the target is    *)
(* refused.  Whoever is refused finds the row advanced and replays it.      *)
Advanceable(s) == s # "processing" /\ <<s, "pending">> \in ALLOWED

Advance(c) ==
  /\ pc[c] \in {"recover", "advance"}
  /\ Go(c, pc[c], "reply")
  /\ IF Advanceable(Current(c).status)
     THEN Store(c, [Current(c) EXCEPT !.status = "pending", !.hash = File(c), !.live = FALSE])
     ELSE UNCHANGED rows
  /\ UNCHANGED <<object, told, faults>>

(* The except branch: the reservation is kept, its lease cleared, whoever   *)
(* holds it now.                                                            *)
Release(c) ==
  /\ Go(c, "release", "idle")
  /\ IF Current(c).status = "uploading"
     THEN Store(c, [Current(c) EXCEPT !.live = FALSE])
     ELSE UNCHANGED rows
  /\ UNCHANGED <<object, told, faults>>

(* 200 with the status of the row, "uploading" included; a rejected row is  *)
(* replayed as 400.                                                         *)
Reply(c) ==
  /\ Go(c, "reply", "idle")
  /\ told' = IF Current(c).status = "rejected" THEN told ELSE told \cup {<<Key(c), File(c)>>}
  /\ UNCHANGED <<rows, object, faults>>

-----------------------------------------------------------------------------
(* What handle_submit does not control.                                     *)

(* A database error is answered 500; once the object is written the except  *)
(* branch comes first.                                                      *)
Error(c) ==
  /\ pc[c] \notin {"idle", "write"} /\ faults < MaxFaults
  /\ Go(c, pc[c], IF pc[c] = "advance" THEN "release" ELSE "idle")
  /\ faults' = faults + 1
  /\ UNCHANGED <<rows, object, told>>

(* The API process is killed.                                               *)
Crash(c) ==
  /\ pc[c] # "idle" /\ faults < MaxFaults
  /\ Go(c, pc[c], "idle")
  /\ faults' = faults + 1
  /\ UNCHANGED <<rows, object, told>>

Expire(k) ==
  /\ rows[k].live
  /\ rows' = [rows EXCEPT ![k].live = FALSE]
  /\ UNCHANGED <<object, pc, told, faults>>

(* Workers move a queued row along the other edges (WorkerLedger.tla).      *)
Serve(k) ==
  /\ rows[k].status \in Served
  /\ \E edge \in ALLOWED :
       /\ edge[1] = rows[k].status
       /\ rows' = [rows EXCEPT ![k].status = edge[2]]
  /\ UNCHANGED <<object, pc, told, faults>>

Handle(c) ==
  \/ Find(c) \/ Reject(c) \/ Reserve(c) \/ Probe(c) \/ Claim(c)
  \/ Write(c) \/ Advance(c) \/ Release(c) \/ Reply(c)

Next ==
  \/ \E c \in Clients : Submit(c) \/ Handle(c) \/ WriteFails(c) \/ Error(c) \/ Crash(c)
  \/ \E k \in Keys : Expire(k) \/ Serve(k)

Spec == Init /\ [][Next]_uploadVars

Progress ==
  /\ \A c \in Clients : WF_uploadVars(Handle(c))
  /\ \A k \in Keys : WF_uploadVars(Expire(k))

(* Clients that send their request again and again, but for the one whose   *)
(* file name is refused each time: it gives up.                             *)
RetrySpec ==
  /\ Spec /\ Progress
  /\ \A c \in Clients : IF Message[c].valid THEN WF_uploadVars(Submit(c)) ELSE <>[](pc[c] = "idle")

(* Clients that retry until they are told 200 (README.md:212).              *)
Unanswered(c) == <<Key(c), File(c)>> \notin told
UntilSuccessSpec ==
  Spec /\ Progress /\ \A c \in Clients : WF_uploadVars(Unanswered(c) /\ Submit(c))

-----------------------------------------------------------------------------
(* Properties.                                                              *)

(* A worker never meets a submission without its screenshot: the object of  *)
(* every queued row is complete and has the row's file_hash, and there is   *)
(* no object without a reservation, however many handlers wrote it.         *)
ObjectsMatchRows ==
  \A k \in Keys :
    /\ rows[k].status \in Served => object[k] = rows[k].hash /\ object[k] # NoFile
    /\ object[k] # NoFile =>
         rows[k].status \in Served \cup {"uploading"} /\ object[k] = rows[k].hash

(* A client that is told 200 is told so about its own file: neither a race  *)
(* for the key nor a recovery answers one file with another's submission.   *)
SuccessIsOwnFile ==
  \A k \in Keys, f \in Files :
    <<k, f>> \in told => rows[k].hash = f /\ rows[k].status # "rejected"

(* Once there is an object it stays as it is: a slow handler, its lease     *)
(* lost, and the one that took over put the same bytes in its place.        *)
ObjectStable ==
  [][\A k \in Keys : object[k] # NoFile => object'[k] = object[k]]_uploadVars

(* How far a submission has come, for those who only know the promise.      *)
StageOf(status) ==
  CASE status = "none"      -> "free"
    [] status = "rejected"  -> "refused"
    [] status = "uploading" -> "taken"
    [] status \in Served    -> "queued"

Intake == INSTANCE Intake WITH
  stage <- [k \in Keys |-> StageOf(rows[k].status)],
  owner <- [k \in Keys |-> rows[k].hash],
  kept <- object,
  answered <- told

(* The promise of Intake.tla is kept by the handlers.                       *)
ImplementsIntake == Intake!IntakeSpec

(* As long as clients retry, no reservation is stuck (README.md:96): what a *)
(* failed or killed handler left behind is taken over and queued.           *)
UploadsConverge == \A k \in Keys : rows[k].status = "uploading" ~> rows[k].status # "uploading"

(* README.md:212: after 200 there is nothing left to retry, so what was     *)
(* answered 200 is queued sooner or later.                                  *)
SuccessIsQueued ==
  \A c \in Clients :
    ~Unanswered(c) ~> rows[Key(c)].status \in Served
=============================================================================
