# Verification of screenshot-version-check

TLA+ models of the screenshot version check service, model-checked with TLC, and
theorems about them that the TLAPS proof system checks. All paths without a directory
are files of the repository root (`db.py`, `worker.py`, ...).

## 1. The system

Three API processes take screenshots, worker processes with several threads each have
them recognised by an internal or an external model, and everything they share is one
SQLite database, one directory of objects and, for the external model, one control row.

| Component | State | Operations | What makes it correct |
|---|---|---|---|
| Worker pipeline: `worker.py`, `db.py` 355-542, `billing.py`, `recognize.py` | rows of `submissions` (status, owner, generation, lease, retry count, next attempt), `accounts.balance`, a heartbeat per job | claim or take over, renew, fenced write, finalize and charge, recover arrears | only the current claimant decides; a retry is counted once; done and charge are one step; whatever is accepted is decided |
| State machine: `state_machine.py` | `ALLOWED` | `transition`, `transition_owned`, `finalize_done_owned` | rows only walk its edges |
| Upload path: `app.py` `handle_submit`, `_complete_or_recover_upload`; `db.py` 255-336; `object_store.py`; `validate.py` | reservation row, upload lease, object file | find, reject, reserve, claim a stale upload, write, advance, replay | nothing is queued without its object; a key stands for one file; a half done upload is finished by the retry |
| Provider control: `provider_control.py`, `token_incident.py`, `external_provider.py` | control row (enabled, credential version, token status, active incident), append-only events, a credential in each worker's environment | begin, record, close; call | containment is never half done; a revoked credential is not used; incidents do not mix |
| Connection pool: `db.py` 25-115 | queue, `_created`, the write lock of the open transactions | borrow, open, wait, return | a connection is in one place, the pool is never overdrawn, nothing outlives its call |
| Authentication: `auth_token.py`, `db.py` 202-252 | `is_active`, `token_version`, tokens in circulation | log in, issue, verify, disable, enable, revoke | a token is dead after a disable or a revocation, for ever |
| Status query and cache: `app.py` 70-105 and `handle_status`, `cache.py` | one cache of rows an instance | get, set, invalidate, purge | what is cached is final; an answer is never older than what was settled when it was asked for |
| Admission: `bounded_http.py`, `request_limits.py`, upload slots of `app.py` | semaphores, watchdog timers, handlers | accept, reject, expire, release | a slot taken is a slot released, once, whatever the client does |
| Health and rollback: `healthd.py`, `rollback.py`, `metrics.py` | `ci/versions.json`, `health_history.json`, the checkout, the units | sample, record, decide, roll back, re-check | it goes back only to what was recorded good; no rollback without its streak; a bad version is left |
| Deployment: `cd/` | systemd units, the checkout, the record | staging, gate, prod, rollback, capacity plan | a failed gate leaves the old version; the units follow the files |
| CI, portal, logging | reports, the page | scripts | no state of interest |

**How they interact.** The API and the workers never call each other: the API's last
step on a row (`uploading -> pending`) is the worker's first input. Every one of them
takes a connection from its process' pool for one transaction or one autocommit
SELECT, and the behaviour in between is unconstrained. `external_provider` reads the
control row that `token_incident` commands write from other processes. `healthd` reads
the submissions table and restarts the units; it shares the checkout and the record of
versions with deployments and with people at the console, without a lock.

**What is hard about it.** Clock readings taken before a connection is waited for;
a SELECT that decides what a later UPDATE writes; a heartbeat thread that outlives the
job; crashes between the reservation, the object and the queue; two operators running
incident commands; a file of versions that is read, rewritten, truncated and put back
by git; caches written from rows that have moved on; clients that never finish what
they began. `PROJECT.json` lists each such place ("hazards") with the property
that would catch it, or the reason why none does yet.

## 2. Modules

| Module | What it is |
|---|---|
| `TaskLedger` | the abstract promise of the submissions table: edges, attempts, credit; no threads, leases or clock |
| `WorkerLedger` | the worker threads, the table, the heartbeats; refines `TaskLedger` |
| `Intake` | the abstract promise of `POST /api/submit`: who takes a key, what is kept, queued and answered; no handlers, leases or errors |
| `Upload` | `POST /api/submit` with several handlers, the object store, errors and crashes; refines `Intake` |
| `ProviderControl` | incident commands and external calls |
| `Release` | health daemon, deployment and console over one checkout and one record |
| `StatusQuery` | `GET /api/status` on several instances, with tokens and caches, over the table of `TaskLedger` |
| `ConnectionPool`, `RequestSlots` | the pool and the server of one API process |
| `ApiServer` | the two composed with the handlers that borrow connections, and with the upload slots |
| `MCWorkerLedger`, `MCUpload`, `MCProviderControl`, `MCRelease`, `MCStatusQuery`, `MCApiServer` | the instances that TLC checks |
| `WorkerLedger_proofs`, `WorkerSafety_proofs`, `WorkerRefinement_proofs`, `Upload_proofs`, `ProviderControl_proofs`, `Release_proofs`, `StatusQuery_proofs`, `ApiServer_proofs` | theorems and proofs |

`StatusQuery` reads the table through the abstract `TaskLedger`: that the workers keep
to it is what `WorkerLedger`'s refinement shows, so a query meets every row that the
workers can produce and none of their threads has to be carried along.

### 2.1 WorkerLedger

One action is one SQL transaction, one autocommit SELECT or one call that leaves the
process. `thread[w]` holds the local variables of `loop`/`handle_one` that survive a
step: stage, submission, `generation`, `rc`, whether the heartbeat reported `lost`,
what is about to be written, and, in the stages that captured `time.time()` before
borrowing a connection, that reading (`at`).

| Action | Code |
|---|---|
| `RecoverFind`, `RecoverCheck`, `Requeue` | `find_arrears_id`; the credit check; `transition(sid, "pending")` |
| `ClaimSelect`, `ClaimCommit`/`ClaimMiss`, `ClaimLoad` | the SELECT of `claim_next_task`; its conditional UPDATE; the SELECT after the commit |
| `CheckQuota`, `CallModel` | the external credit check; the model, then the look at `heartbeat.lost` |
| `WriteArrears`, `WriteBlocked`, `WriteRetry`, `WriteDeadLetter` | `update_processing_owned` with the four sets of fields `handle_one` passes |
| `Finalize`, `FinalizeRefused`, `CheckShortage` | `finalize_processing_and_charge` and the branch after a refusal |
| `HeartbeatBegin`, `RenewCommit`, `RenewError` | one beat: clock read, fenced UPDATE and its report, or a database error |
| `Abandon`, `Restart` | the `except` of `loop`; a process that dies and comes back, maybe with another backend |
| `Accept`, `Grant`, `Tick` | the API queues a row; credit is restored; time passes |

Abstractions. Time is relative: the present is 0 and `Tick` moves every instant one
unit into the past; `MaxAge` bounds how long a clock reading is held (the pool timeout
and SQLite's `busy_timeout`). A call that raises ("database is locked", a timeout of
the pool) fails before or in its first write and changes nothing, so it is `Abandon`
before the action. That the transaction Python began for the write stays open on the
pooled connection is in `ConnectionPool`; what a later SELECT on that connection sees
is not modelled. The reads inside one write transaction, and the
SELECT-then-conditional-UPDATE of `transition`, are merged with their UPDATE: the
UPDATE repeats the whole condition, so the earlier read can only give up where the
UPDATE would have failed. `ClaimMiss` at `MaxGen` is a bound of the model. Models
answer as the deterministic stand-ins of `recognize.py` and `external_provider.py` do;
the external one may also be blocked. Balances are whole multiples of the cost.
The recognised version and the verdict are payload and left out.

### 2.2 Upload

A row is named by its `(user_id, idempotency_key)`: the unique index makes it one row.
`pc[c]` is where the handler of client `c` stands in `handle_submit`. Upload leases
are untimed: `Expire` may happen at once or never before the handler is done, which
covers every relation of handler speed to `UPLOAD_LEASE_SEC`. `Write` is `os.replace`
of a complete, hashed temporary file; `WriteFails` is any failure before it, with the
clean-up of the temporary file only. `Advance` is `transition(sid, "pending")`,
`Release` the except branch, `Reply` the replay of whatever the row is then. `Serve`
stands for the workers and walks the other edges of `ALLOWED`. The branch that raises
"上传完成但状态无法推进到 pending" cannot be reached in the model: a refused transition
means that the row has left "uploading". Upload slots are in `ApiServer`. Left out: headers, the 402 check,
temporary-file collection, the bodies of answers.

`Intake` is what is left without handlers: a key is free, taken by a file, refused with
one, or queued with its kept object, and files are answered. Under the mapping in
`Upload` (`StageOf` the status, `owner` the fingerprint, `kept` the object, `answered`
the history `told`) `Reserve` is `Take`, `Reject` of a free key `Refuse`, the first
`Write` `Keep`, the first `Advance` `Queue`, `Reply` `Answer`; everything else
stutters: a second write of the same bytes, a refused advance, claims, errors,
crashes, leases and the workers.

### 2.3 ProviderControl

`begin_token_exposure_incident`, `record_event(require_active=True)` and
`close_incident` read the control row in autocommit and open their transaction only
with the first INSERT, so each is a read action (`StartRead`, `RecordCheck`,
`CloseRead`) and a commit action (`StartCommit`, `RecordCommit`, `CloseCommit`). The
events of one transaction are one entry of the trail. `start` goes on with two notes,
`scope` and `vendor` are one. A call reads the row (`CallRead`) and goes on later
(`CallAnswer`); "answered" means that the credential was used, whatever the provider
says. `Deploy` restarts a worker with the current credential, at any time. A close
without its three confirmations stops before it reads anything and is left out.

### 2.4 Release

`job[p]` is where the daemon and the console stand; `tree` is what is checked out,
`head` what git's HEAD names, `running[u]` what a unit loaded when it was last
restarted, `versions` the content of `ci/versions.json`.

| Action | Code |
|---|---|
| `Sample`, `SampleTorn`, `Observe` | `on_health_sample` up to `decide`, with `push_history`; killed inside it; the sleep of `healthd.py` |
| `Current`, `ChooseTarget` | `current_commit`, with its "unknown" when git fails (`HeadSays`); `last_good` and the mark on the commit that is given up |
| `Load`, `Name`, `Save` | `load_versions`, the commit that `record` names by itself (`HeadSays` again), `save_versions` |
| `Checkout`, `Restart`, `RestartFails`, `Recheck` | `do_rollback` |
| `GitRefuses` | a checkout or reset to a name that git cannot resolve |
| `Stage`, `Reset`, `RestartAll`, `RestartSome`, `Gate` | `cd/deploy.sh --env prod`, with `cd/health_gate.py` |
| `Resize` | `capacity.py --apply`, by hand or by a deployment |
| `RecordByHand`, `RollBackByHand`, `Dies` | `rollback.py --record`, `--to`; a program that ends early |

`versions.json` is tracked by git, so `Checkout` and `Reset` bring back the content
committed with that version; `Readable` adds the truncated file that a reader meets
while another program rewrites it. What `metrics.evaluate` may find is `Findings`: a
sick commit shows as soon as a unit runs it, and noise may show at any time.

A name is a commit or `Unknown`, which stands for all that git cannot resolve: the
"unknown" of `current_commit`, which is recorded like any other commit and may be found
as a last good one, and a mistyped argument. Other spellings of a commit (branch names,
`HEAD~1`, full hashes) are not told apart from its short hash. `--to` and `--commit` take
any name. What passes the staging gate is an image, and `cd/deploy.sh` resets production
to a commit that is set apart from it, so `Stage` resets to any name and the model says
nothing of what was staged. The baseline is HEAD, or empty when git fails. The field
`current` of `versions.json` is left out, as nothing decides on it. `vouched`
(names ever recorded good, by a program or in a committed record) and `unwell` are
history.

### 2.5 StatusQuery

A request is `Authorise` (`verify_token` against the account row), `AskCache`
(`CACHE.get`), `ReadRow` (the SELECT) and `Store` (`CACHE.set` or `invalidate`), then
`Reply`; the table moves between any two of them (`LedgerStep`). A login is
`CheckPassword` and, later, `IssueToken`, which reads the account again. `Disable`,
`Enable` and `RevokeTokens` are single transactions. An entry passes its TTLs at any
moment (`Age`), an instance may restart (`Restart`) and has no cache if it is not in
`Caching`. The row stands for the whole payload. `late`, `signed`, `cut` and `clock`
are history.

### 2.6 ConnectionPool, RequestSlots, ApiServer

`_acquire` looks into the queue, then at `_created` under the lock, then waits:
`Take`, `FindEmpty`, `Open`/`OpenFails`, `StartWaiting`, `WaitsTooLong`. A call reads,
or writes and ends its transaction (`Read`, `Write`, `EndWrite`). `Locked` is "database
is locked": another connection, of this process or of a worker's, has the write lock,
or the connection's own old transaction reads a snapshot that is out of date.
`DuplicateKey` is the `IntegrityError` of `insert_rejected`. Neither is rolled back, so the
connection returns to the pool with its transaction open; `left` has those
connections, until a later write on them ends it. `Release` puts the connection back or closes it.
`Accept`, `StartThread`, `NoThread` are `process_request`; `StartWatchdog`,
`WatchdogFails`, `Close`, `SetFinished`, `ReleaseSlot` `process_request_thread`;
`Expire` and `Shutdown` the two halves of `_expire_request`. In `ApiServer` a handler
reads its headers, takes an upload slot if it needs one, checks its token with one
call, reads the body of an upload, makes up to `MaxCalls` calls and replies; the
client may leave in every step that waits for it, and the watchdog then ends the
handler (`CutOff`). Which calls a route makes does not matter to the pool, so every
number of them is allowed. The threads of `Threads` are the requests themselves.

## 3. What is checked

| Run | Question | Properties |
|---|---|---|
| `worker_fence` | does only the current claimant decide, with expiring leases, late clocks and renewals, one exception, crash or restart, both backends? | `TypeOK`, `OwnedIffProcessing`, `RetryCountIsFresh`, `LostMeansLost`, `DeadLetterIffExhausted`, `OutcomeByClaimant`, `TakeOverNeedsExpiry`, `ImplementsLedger` |
| `worker_credit` | is the last credit spent once, by the submission that is done? | `CreditConserved`, `ImplementsLedger` |
| `worker_settles` | is every accepted submission decided, though a thread dies on the way? | `EverySubmissionSettles` |
| `upload` | four requests for one key (the same file twice, once under a forbidden name, and another file), two errors or crashes: nothing is queued without its object, and retries finish what was begun | `TypeOK`, `ObjectsMatchRows`, `SuccessIsOwnFile`, `ObjectStable`, `ImplementsIntake`, `UploadsConverge` |
| `provider_incident` | two operators against each other, one worker, three incidents | `TypeOK`, `ActiveMeansContained`, `NoCallWithExposed` |
| `release` | daemon, deployment and console against each other, one of them killed: what does the daemon go back to, and when, do the units follow the files, and is a sick version left? | `TypeOK`, `RollsBackToGood`, `UnitsFollowTree`, `Debounced`, `SickIsLeft` |
| `status_query` | two requests on two instances while the table, the account and the cache change: is what is cached final, is what is settled seen, is what is revoked out? | `TypeOK`, `CacheIsFinal`, `FinalIsSeen`, `RevokedIsOut` |
| `api` | two requests, one connection, one upload slot, stalling clients, one fault of a thread, timer or connection: is everything given back, once, and in the end, and does nobody wait with room in the pool? | `TypeOK`, `OneHolder`, `SlotsConserved`, `NothingLeftBehind`, `LockIsAttended`, `WaitsForOthers`, `SlotComesBack` |

The other four runs expect a violation and show where the code departs from what it
or its documentation says:

| Run | Says | Does |
|---|---|---|
| `worker_arrears` | credit back, submission queued again (worker.py:294) | only the oldest suspended row is looked at (db.py:526): others wait behind a user who never pays |
| `upload_unqueued` | 200 is success, nothing to retry (README.md:212) | a retry within the lease of a killed handler is told 200 with status "uploading"; nobody is left to finish it |
| `provider_resume` | the provider resumes on approval (provider_control.py:159) | a close checked before another incident took over resumes the provider under it |
| `release_head` | a rollback is a git reset (README.md:229) | it checks files out and leaves HEAD on the rejected commit (rollback.py:195); the next record without a commit marks that one, whatever runs |

**Bounds.** *Worker:* two threads are the claimant and the one it competes with; three
generations let a thread be overtaken twice, one fault is one exception or restart,
`MaxRetry = 2` (3 in the code) still separates retry, last retry and dead letter, and
submission 55 is the one both backends can fail (it is a multiple of 5 and 11).
`worker_credit` has two submissions, one credit and one more that may be granted at any time. A lease of one unit with
readings up to one unit old makes every order of expiry, write and renewal
possible. *Upload:* a key with four requests includes every race for the
unique index; more keys are independent of each other. *Provider:* two operators,
three incidents and four entries a trail, enough for a command to be overtaken by a
whole other incident. *Release:* two commits (the one that runs and a
sick one, whose record holds the first as good and a bad entry "unknown") and a name
that git does not know, a streak of two in a window of two, an api and a worker unit, two
deployments or commands and one fault; the daemon itself samples without a bound.
*Status:* one submission and one user (rows and accounts do not meet in a query), two
requests so that one may overtake the other, an instance with and one without a
cache, two admin commands (disable then enable, or a revocation on top).
*Api:* one connection for two threads is the pool at its limit, one upload slot for two
requests the same for uploads, three calls let a request go wrong before, in and after
its work. Symmetry is used for threads, operators and requests, in safety runs only.

**Fairness.** `EverySubmissionSettles` and `RecoveredCreditRequeues` run under
`TimelySpec`: weak fairness of each thread and heartbeat (the operating system
schedules them, and `loop` never ends), of the renewals under way (a database call
ends) and of time, and `HeartbeatInTime`: a thread at work renews before its lease can
run out, which is what `PROCESSING_HEARTBEAT_SEC <= PROCESSING_LEASE_SEC / 2`
(worker.py:20-26) is for. Without it a slow thread and its successor may
take a submission from each other for ever. No fairness is assumed of faults, uploads
or grants. `UploadsConverge` needs handlers to go on, leases to run out and clients with
a valid request to retry (`RetrySpec`); the client whose name is refused gives up in
the end, because it can otherwise hold the key's reservation busy for ever without
being able to finish it. `SuccessIsQueued` is refuted for clients that retry until they
are told 200 (`UntilSuccessSpec`). `SickIsLeft` runs under weak fairness of the daemon,
which systemd keeps alive and which samples in an endless loop, and of the console's
next step, because scripts run to their end; nobody has to start a deployment.
`SlotComesBack` runs under weak fairness of what a thread does by itself and of the
watchdog's timer; waiting for a connection or for the write lock ends by a timeout.
Clients get no fairness at all: the watchdog is what ends a request that they hold.

## 4. What is proved

For every number of threads, submissions, users, clients, keys, operators, workers,
commits, units, instances, requests, connections and slots, and every value of the
bounds; the assumptions are those that the modules state about their constants. Every
invariant and every safety action property that a passing run checks is a theorem.

*Worker* (`WorkerLedger_proofs`, `WorkerSafety_proofs`). `Typing` is the type
invariant with the ranges that need an argument: a retry count stays below the
limit only because a thread that goes on to "retry" or "dlq" carries an `rc` below it,
and a balance stays natural because the charge is conditional. `Ownership` adds:
whoever has loaded a row has a generation no newer than the row's, and, if
it is still the row's, the retry count of the row; a thread that owns a row won the
row's generation. `OwnedIffProcessing`, `RetryCountIsFresh`, `DeadLetterIffExhausted`
and the action property `OutcomeByClaimant` follow. None of this uses the clock: it
holds for readings of any age, so a write that passes an expired lease is harmless to it.

*Refinement* (`WorkerRefinement_proofs`). `Refinement` is the step simulation: each
fenced write is one move of `TaskLedger` or a stutter, with `attempts` mapped to the
row's retry count; it needs `Ownership`, because the ledger counts a failure from the
row and the thread from what it read at the claim. `CreditIsConserved` is then proved
over the ledger's steps instead of the program's; `CreditInv` adds that the set of
external completions is finite, without which its cardinality says nothing.
`LeasesAreRespected` comes from what every action may do to a row (it stays, is
renewed, is left by its claimant, or is taken over under the guard of the claim). `LostIsLost`
needs `LostInv`: for one claim at most one renewal is under way, and none once the
claim is reported lost; a second one could give back the lease after the report.

Three more theorems say what the refinement and the invariants are good for.
`SubmissionsWalk` reads the walk of a row off the ledger's steps: only edges of
`ALLOWED`, a failure counted once and leading to "dlq" exactly at the limit, final
states final; it is what `Serve` in `Upload` and the table of `StatusQuery` take for
granted of the workers. `HeldForABoundedTime` bounds how far a lease and a delay can
lie ahead at any moment; the cap of the backoff is a lemma (`RetryIsCapped`). It is
the part of `EverySubmissionSettles` that needs no fairness: whoever dies, its row is
free for others after one lease. `TokensUnique` says that two threads at work on one
submission never hold the same generation, whatever both selected; here
a claim that is under way is left alone by every other action (`GoesOn`), and
a new claim takes a generation above all that are held, by `Ownership`.

*Upload* (`Upload_proofs`). `UploadInv` says that a handler past the lookup works on a row
with its own fingerprint that is "uploading" or served, that an object has the row's
fingerprint, and that a handler about to advance has a complete object. `ObjectsMatchRows`,
`SuccessIsOwnFile` and `ObjectStable` follow.
`UploadRefinement` is the step simulation into `Intake`. It needs the whole of
`UploadInv`: a late write stutters only because the object already is the row's,
an advance is `Queue` only because the object is there, and a reply is `Answer` only
because the row still has the client's file. `NothingIsUndone` is then proved over the
five steps of `Intake` and holds for the handlers.

*Provider* (`ProviderControl_proofs`). `ControlInv`: a command works on an incident that has begun;
every revoked generation is below the current one; a call that saw a generation saw
one above all that were revoked when it began. `ActiveMeansContained` and
`NoCallWithExposed` follow, also for overlapping incidents. What a step can do to the
control row and the trails is one lemma (`TrailSteps`: begin, note, close, or
nothing); three theorems rest on it. `ControlIsAudited`: the control row changes only
together with the opening or closing entry of a trail, and trails only grow.
`TrailsWhole`: a trail begins with its containment and has no other.
`OneGenerationEach`: there are as many revoked generations as incidents, so two
starts that both saw no active incident still revoke different ones; it counts the
begun incidents with the library's theorems on finite sets.

*Release* (`Release_proofs`). `RollsBackToGood` is about the daemon's target, which was read
steps before from a record that every program rewrites. It needs `AllHonest`: every copy of
the record, on the disk, in a commit or in a program's memory, calls good only what
was recorded good, and a program about to save a verdict has one of its own. `Fits`
adds what a program carries at each of its steps: the target of the daemon is good from
`ChooseTarget` on, also while it writes its mark. `Debounced` needs `streak <= unwell`: the window may
forget samples, it never invents one; and it needs the reaction to include the record
that precedes the checkout. `UnitsFollowTree` is inductive by itself.

*Status* (`StatusQuery_proofs`). `SettledStays` is the lemma on the table: no step of
the ledger touches a settled row. `QueryInv` says what a request carries (`Sound`): an
entry it found, or a settled row it read, is the row of the table, and so is whatever a
request reads that was admitted after its submission settled. `CacheIsFinal` alone is not inductive, as an
entry is written from what was read steps before. `TokensInv`: a token of the
current version was signed after the last command that revoked; `RevokedIsOut` follows
from it, because only `Authorise` admits a request.

*Api* (`ApiServer_proofs`). `PoolInv` adds to `OneHolder` that a thread has a connection exactly
in the places that use one; the counting is done with the library's theorems on
finite sets. `SlotsInv` gives the ranges of the semaphores from `SlotsConserved`.
`Fits` relates a handler to its thread and its call: it exists while the request is
served, has a connection only where it calls or answers, and an upload slot only between
its headers and its end; `NothingLeftBehind` follows. `LockHeld` is `LockIsAttended`
with the reason: the thread that has the holder is in the middle of its write, or an
exception left the transaction open.
`WaitsForOthers` needs `WaitInv`: who waits found the pool fully created, and it stays
so, because a place once given to a connection is never given up. The same
fact makes `ConnectionsAreKept`: a connection that is returned always fits into the
queue, so the branch of `_release` that closes one cannot be reached.
`RequestsRunDown` is the variant of a request: `Rank` counts the steps that its thread,
handler, call and watchdog have left, every step of its own lowers it and no other
step touches it. That is all of `SlotComesBack` but the fairness: it is left to TLC
that the next step is taken.

The operators `SubmissionsAdvance`, `NothingIsHeldLong`, `TokensAreUnique`, `ControlFollowsTrail`,
`TrailsAreWhole`, `GenerationsAreSpent`, `OpenStaysOpen` and `RunsDown` are stated in
the proof modules, next to their theorems (`NothingUndone` in `Intake`), and no run of this
project checks them.

Only model-checked: the liveness properties `EverySubmissionSettles`, `UploadsConverge`,
`SickIsLeft` and `SlotComesBack` (the prover does not handle fairness) and, of course,
everything that is refuted.

## 5. Not modelled, and seen on the way

**Not modelled.** `ci/`, `portal/`, `logutil.py` and `cd/prod-container/` keep no state of
interest to these properties. `metrics.py` is arithmetic over SELECTs; that its figures
are cumulative, so that an old failure shows for long, is inside the noise of
`Findings`. `request_limits.py` counts the bytes of one request. The plan of `capacity.py` is
arithmetic on measured figures: only its restarts are modelled. Also left out: the
status of a submission that does not exist (404), version strings and their comparison,
two consoles at once, `rollback.py --check`
beside the daemon, `reset_pool` and `close_all`, which only tests call, and collection of
old temporary files.

**Noted while reading and checking; no run refutes a property with them.**

- The clock is read before the connection is waited for (db.py:444, 474), so a write may be
  accepted after the lease ran out. The fence on owner and generation still
  holds (`OutcomeByClaimant`), so nobody else's result is touched.
- The check for an active incident is outside the transaction (provider_control.py:113): two
  starts at the same time both succeed, although README-PROVIDERS.md:99 excludes it.
- `transition` also takes "arrears" to "pending" (state_machine.py:26), so an upload handler that was overtaken
  requeues a suspended submission (app.py:167).
- A note may be appended to an incident's trail after its closing entry (provider_control.py:80-93).
- Neither `connection()` (db.py:53-59) nor `insert_rejected` (db.py:330) rolls back: after
  an `IntegrityError` or "database is locked" the connection returns to the pool with its
  transaction open. It keeps the write lock, or reads an old snapshot and has its writes
  refused, until a commit or rollback on it. `LockIsAttended` takes these connections
  (`left`) out, and the reads of `StatusQuery` are taken to be current.
- The staging gate tests an image (cd/deploy.sh:71-82) and production is reset to a commit
  (cd/deploy.sh:114) that is set apart from it (cd/deploy.sh:28-30, 54-61), although
  README-PIPELINE.md:28 and 39 say that what goes to production is what staging passed.
- When git fails, "unknown" is recorded like a commit (rollback.py:57, 143); recorded
  good, it is what the next rollback chooses, and git refuses it.
- A verdict "bad" may be lost, by a rewrite from an older copy or by the checkout itself,
  and the "good" before it comes back: the daemon may return to a commit
  that it has given up before (rollback.py:141-158).
- A thread whose watchdog timer cannot start keeps its slot (bounded_http.py:159), and a connection that cannot be
  opened its place (db.py:68). The properties count these as `leaked` and `lost`; with as many of them
  as slots, the instance answers 503, or has no connection, until it is restarted.
- An account disabled and enabled again between the password check and the signing gives
  a valid token of the new version (auth_token.py:23); `RevokedIsOut` holds, because that token is
  signed after the revocation.
- `handle_submit` answers 402 in internal mode too (app.py:370), although
  billing.py:4 and README.md:214 restrict credit to the external mode.
- `tests/test_worker_ownership.py:257` expects a charge with the default backend, which is free.
- A deployment takes HEAD as the baseline to return to (cd/deploy.sh:102), which after a rollback is the
  rejected commit; a failed re-check marks HEAD, not the target that was checked (rollback.py:212).
- HEAD is read after the sample (rollback.py:143): a deployment in between has its commit
  judged by samples of its predecessor, and the streak in the window survives it too.
- A deployment restarts the fixed set of workers (cd/deploy.sh:121), also those that `capacity.py:227` has stopped.
- The plan multiplies whole instances by threads (capacity.py:143-149): with a ceiling of 5 and 4 threads it
  gives 8, although "never_exceed" (capacity.py:189) names the ceiling.

## 6. What could come next

- The capacity plan and the version comparison as pure functions
  against reference definitions, and `LimitedReader` over short chunks.
- `ProviderControl` composed with `WorkerLedger`: there a containment is the nondeterministic
  answer "blocked" of the external call.
- `Upload` over `TaskLedger`: there the workers are `Serve`, which walks the edges of `ALLOWED`
  (that the workers do is `SubmissionsWalk`).
- A second console in `Release`.
