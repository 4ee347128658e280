------------------------------ MODULE Release ------------------------------
(***************************************************************************)
(* What runs in production and what is recorded about it.  The health      *)
(* daemon (healthd.py) and the console, where a person runs a deployment   *)
(* (cd/deploy.sh with cd/health_gate.py) or rollback.py --record, share    *)
(* the git checkout, the systemd units and the file ci/versions.json       *)
(* without any lock.                                                       *)
(*                                                                         *)
(* versions.json is tracked by git: a checkout or a reset brings back the  *)
(* content committed with that version.  A program reads the whole file    *)
(* and later truncates and rewrites it; a reader that meets the truncated  *)
(* file parses nothing and goes on with an empty history.  That window is  *)
(* the control point "save" here.                                          *)
(*                                                                         *)
(* A commit is named by what git rev-parse --short prints; Unknown stands  *)
(* for every name that git cannot resolve: the "unknown" that              *)
(* current_commit returns when git fails, and a mistyped --to or --commit. *)
(***************************************************************************)
EXTENDS Naturals, Sequences, FiniteSets

CONSTANTS
  Commits,         \* commits of the repository
  Start,           \* the one that runs at the beginning
  Sick,            \* those that fail in production
  Committed,       \* the history in ci/versions.json as each commit holds it
  Unknown,         \* a name that is no commit
  NoCommit,        \* no name given or found
  Units,           \* the systemd units of the api and of the workers
  WorkerUnits,     \* those of the workers
  UnhealthyStreak, \* UNHEALTHY_STREAK
  HistoryWindow,   \* samples that health_history.json keeps (20)
  MaxRuns,         \* bound: deployments, records and rollbacks by hand
  MaxFaults        \* bound: programs killed, git or systemctl failing

Names == Commits \cup {Unknown}
Entry == [commit : Names, good : BOOLEAN]

ASSUME CommitAssumption ==
  /\ Start \in Commits /\ Sick \subseteq Commits
  /\ Unknown \notin Commits /\ NoCommit \notin Names
ASSUME CommittedAssumption == Committed \in [Commits -> Seq(Entry)]
ASSUME StreakAssumption ==
  /\ UnhealthyStreak \in Nat \ {0} /\ HistoryWindow \in Nat
  /\ UnhealthyStreak <= HistoryWindow
ASSUME UnitAssumption == WorkerUnits \subseteq Units
ASSUME BoundAssumption == MaxRuns \in Nat /\ MaxFaults \in Nat

VARIABLES
  head,      \* the commit git HEAD names
  tree,      \* the commit whose files are checked out
  running,   \* the commit each unit loaded when it was last restarted
  versions,  \* ci/versions.json: oldest entry first, one per commit
  streak,    \* unhealthy samples at the end of health_history.json
  job,       \* what each program is doing
  vouched,   \* history: names that were recorded good
  unwell,    \* history: unhealthy samples since the last healthy one
  used       \* runs and faults so far

vars == <<head, tree, running, versions, streak, job, vouched, unwell, used>>

Programs == {"healthd", "console"}
Steps == {"idle", "reset", "restart all", "gate", "observe", "current", "last good",
          "load", "name", "save", "checkout", "restart", "recheck"}
Idle == [pc |-> "idle", commit |-> NoCommit, target |-> NoCommit, read |-> << >>,
         mark |-> NoCommit, good |-> FALSE, next |-> "idle"]

TypeOK ==
  /\ head \in Commits /\ tree \in Commits
  /\ running \in [Units -> Commits]
  /\ versions \in Seq(Entry)
  /\ streak \in 0..HistoryWindow /\ unwell \in Nat
  /\ job \in [Programs -> [pc : Steps, commit : Names \cup {NoCommit},
                           target : Names \cup {NoCommit}, read : Seq(Entry),
                           mark : Names \cup {NoCommit}, good : BOOLEAN,
                           next : {"idle", "checkout"}]]
  /\ vouched \in SUBSET Names
  /\ used \in [runs : Nat, faults : Nat]

\* The names that a history holds as good.
GoodNames(hist) == {hist[n].commit : n \in {m \in 1..Len(hist) : hist[m].good}}

Init ==
  /\ head = Start /\ tree = Start
  /\ running = [u \in Units |-> Start]
  /\ versions \in {Committed[Start], << >>}
  /\ streak = 0 /\ unwell = 0
  /\ job = [p \in Programs |-> Idle]
  /\ vouched = UNION {GoodNames(Committed[c]) : c \in Commits}
  /\ used = [runs |-> 0, faults |-> 0]

At(p, pc)    == job[p].pc = pc
Become(p, r) == job' = [job EXCEPT ![p] = r]
Goto(p, pc)  == job' = [job EXCEPT ![p].pc = pc]
NewRun == used.runs < MaxRuns /\ used' = [used EXCEPT !.runs = @ + 1]
Fault  == used.faults < MaxFaults /\ used' = [used EXCEPT !.faults = @ + 1]

\* What current_commit returns: the name of HEAD, or "unknown" when git fails.
HeadSays(c) ==
  \/ c = head /\ UNCHANGED used
  \/ c = Unknown /\ Fault

KeepGit     == UNCHANGED <<head, tree, running>>
KeepSamples == UNCHANGED <<streak, unwell>>

-----------------------------------------------------------------------------
(* The version record.                                                      *)

\* record: the entry of the commit is changed in place or a new one added last.
Recorded(hist, c, good) ==
  IF \E n \in 1..Len(hist) : hist[n].commit = c
  THEN [n \in 1..Len(hist) |->
          IF hist[n].commit = c THEN [hist[n] EXCEPT !.good = good] ELSE hist[n]]
  ELSE Append(hist, [commit |-> c, good |-> good])

\* Mutant: takes the last entry of another commit, good or bad.
GoodEntriesAny(hist, exclude) == {n \in 1..Len(hist) : hist[n].commit # exclude}

\* The entries last_good accepts, and what it returns: the commit of the last of
\* them, or nothing.
GoodEntries(hist, exclude) ==
  {n \in 1..Len(hist) : hist[n].good /\ hist[n].commit # exclude}
LastGood(hist, exclude) ==
  {hist[n].commit : n \in {m \in GoodEntries(hist, exclude) :
                             \A k \in GoodEntries(hist, exclude) : k <= m}}

\* What load_versions may return to p.
Readable(p) ==
  {versions} \cup {h \in {<< >>} : \E q \in Programs \ {p} : At(q, "save")}

\* A program that calls record(good, c), and then ends.
Marking(c, good) == [Idle EXCEPT !.pc = "load", !.mark = c, !.good = good]

Load(p) ==
  /\ At(p, "load")
  /\ \E hist \in Readable(p) :
       Become(p, [job[p] EXCEPT !.read = hist,
                    !.pc = IF job[p].mark = NoCommit THEN "name" ELSE "save"])
  /\ KeepGit /\ KeepSamples /\ UNCHANGED <<versions, vouched, used>>

\* record() without a commit marks whatever HEAD names by now.
Name(p) ==
  /\ At(p, "name")
  /\ \E c \in Names :
       HeadSays(c) /\ Become(p, [job[p] EXCEPT !.mark = c, !.pc = "save"])
  /\ KeepGit /\ KeepSamples /\ UNCHANGED <<versions, vouched>>

Save(p) ==
  /\ At(p, "save")
  /\ versions' = Recorded(job[p].read, job[p].mark, job[p].good)
  /\ vouched' = vouched \cup (IF job[p].good THEN {job[p].mark} ELSE {})
  /\ Become(p, [Idle EXCEPT !.pc = job[p].next, !.target = job[p].target])
  /\ KeepGit /\ KeepSamples /\ UNCHANGED used

-----------------------------------------------------------------------------
(* A health sample, and the daemon's reaction to it.                        *)

Kinds == {"quality", "capacity", "resource"}

\* What evaluate may find: a sick commit shows as soon as a unit runs it, and
\* noise may show at any time.
Findings ==
  IF \E u \in Units : running[u] \in Sick THEN {k \in SUBSET Kinds : "quality" \in k}
  ELSE SUBSET Kinds

\* Mutant: failing work alone is no reason to roll back.
RollsBackOnBacklog(kinds, stuck, finished) ==
  "capacity" \in kinds /\ stuck /\ ~finished

\* decide, with what inspect_tasks says of stuck and finished tasks.
RollsBack(kinds, stuck, finished) ==
  "quality" \in kinds \/ ("capacity" \in kinds /\ stuck /\ ~finished)

\* Mutant: the window is never cut.
PushedUncut(kinds, n) == IF kinds = {} THEN 0 ELSE n + 1

\* push_history: the unhealthy samples at the end of the window.
Pushed(kinds, n) ==
  IF kinds = {} THEN 0 ELSE IF n < HistoryWindow THEN n + 1 ELSE n

\* Mutant: the sample that is being judged counts twice.
SampleTwice ==
  /\ At("healthd", "idle")
  /\ \E kinds \in Findings, stuck, finished \in BOOLEAN :
       /\ streak' = Pushed(kinds, streak)
       /\ unwell' = Pushed(kinds, unwell)
       /\ IF kinds = {} THEN Become("healthd", Marking(NoCommit, TRUE))
          ELSE IF RollsBack(kinds, stuck, finished) /\ streak' + 1 >= UnhealthyStreak
               THEN Become("healthd", [Idle EXCEPT !.pc = "current"])
               ELSE Goto("healthd", "observe")
  /\ KeepGit /\ UNCHANGED <<versions, vouched, used>>

Sample ==
  /\ At("healthd", "idle")
  /\ \E kinds \in Findings, stuck, finished \in BOOLEAN :
       /\ streak' = Pushed(kinds, streak)
       /\ unwell' = Pushed(kinds, unwell)
       /\ IF kinds = {} THEN Become("healthd", Marking(NoCommit, TRUE))
          ELSE IF RollsBack(kinds, stuck, finished) /\ streak' >= UnhealthyStreak
               THEN Become("healthd", [Idle EXCEPT !.pc = "current"])
               ELSE Goto("healthd", "observe")
  /\ KeepGit /\ UNCHANGED <<versions, vouched, used>>

\* Nothing is done about the sample: healthd.py sleeps and samples again.
Observe ==
  /\ At("healthd", "observe")
  /\ Become("healthd", Idle)
  /\ KeepGit /\ KeepSamples /\ UNCHANGED <<versions, vouched, used>>

\* Killed inside push_history: the window file is truncated, the next run
\* starts it again.
SampleTorn ==
  /\ At("healthd", "idle") /\ Fault
  /\ \E kinds \in Findings : unwell' = Pushed(kinds, unwell)
  /\ streak' = 0
  /\ KeepGit /\ UNCHANGED <<versions, job, vouched>>

Current ==
  /\ At("healthd", "current")
  /\ \E c \in Names :
       /\ HeadSays(c)
       /\ Become("healthd", [job["healthd"] EXCEPT !.pc = "last good", !.commit = c])
  /\ KeepGit /\ KeepSamples /\ UNCHANGED <<versions, vouched>>

\* last_good, and the mark on the commit that is given up.
ChooseTarget ==
  /\ At("healthd", "last good")
  /\ \E hist \in Readable("healthd") :
       LET cur == job["healthd"].commit IN
         \/ LastGood(hist, cur) = {} /\ Become("healthd", Idle)
         \/ \E t \in LastGood(hist, cur) :
              Become("healthd", [Marking(cur, FALSE) EXCEPT !.target = t, !.next = "checkout"])
  /\ KeepGit /\ KeepSamples /\ UNCHANGED <<versions, vouched, used>>

-----------------------------------------------------------------------------
(* do_rollback, run by healthd and by the deployment.                       *)

\* Mutant: goes to the re-check without a restart.
CheckoutOnly(p) ==
  /\ At(p, "checkout") /\ job[p].target \in Commits
  /\ tree' = job[p].target
  /\ versions' = Committed[job[p].target]
  /\ Goto(p, "recheck")
  /\ KeepSamples /\ UNCHANGED <<head, running, vouched, used>>

\* git checkout <target> -- . : the files, with versions.json among them; HEAD
\* stays where it was.
Checkout(p) ==
  /\ At(p, "checkout") /\ job[p].target \in Commits
  /\ tree' = job[p].target
  /\ versions' = Committed[job[p].target]
  /\ Goto(p, "restart")
  /\ KeepSamples /\ UNCHANGED <<head, running, vouched, used>>

\* git knows no such commit: do_rollback gives up, and deploy.sh exits.
GitRefuses(p) ==
  /\ \/ At(p, "checkout") /\ job[p].target \notin Commits
     \/ At(p, "reset") /\ job[p].commit \notin Commits
  /\ Become(p, Idle)
  /\ KeepGit /\ KeepSamples /\ UNCHANGED <<versions, vouched, used>>

Restart(p) ==
  /\ At(p, "restart")
  /\ running' = [u \in Units |-> tree]
  /\ Goto(p, "recheck")
  /\ KeepSamples /\ UNCHANGED <<head, tree, versions, vouched, used>>

\* Some units come back and some do not: do_rollback gives up.
RestartFails(p) ==
  /\ At(p, "restart") /\ Fault
  /\ \E done \in SUBSET Units : running' = [u \in Units |-> IF u \in done THEN tree ELSE running[u]]
  /\ Become(p, Idle)
  /\ KeepSamples /\ UNCHANGED <<head, tree, versions, vouched>>

Recheck(p) ==
  /\ At(p, "recheck")
  /\ \E kinds \in Findings :
       Become(p, IF kinds = {} THEN Marking(job[p].target, TRUE)
                 ELSE Marking(NoCommit, FALSE))
  /\ KeepGit /\ KeepSamples /\ UNCHANGED <<versions, vouched, used>>

-----------------------------------------------------------------------------
(* cd/deploy.sh --env prod.                                                 *)

\* Everything before the reset.  What passed the staging gate is an image; the
\* commit that production is reset to is given or found apart from it, by
\* --commit, in last_build.json or as HEAD, and may be any.  HEAD is noted as
\* the baseline, or nothing when git fails.  A failed staging gate ends the
\* script with nothing changed in production.
Stage ==
  /\ At("console", "idle") /\ NewRun
  /\ \E c \in Names, baseline \in {head, NoCommit} :
       Become("console", [Idle EXCEPT !.pc = "reset", !.commit = c, !.target = baseline])
  /\ KeepGit /\ KeepSamples /\ UNCHANGED <<versions, vouched>>

Reset ==
  /\ At("console", "reset") /\ job["console"].commit \in Commits
  /\ head' = job["console"].commit /\ tree' = job["console"].commit
  /\ versions' = Committed[job["console"].commit]
  /\ Become("console", [job["console"] EXCEPT !.pc = "restart all", !.commit = NoCommit])
  /\ KeepSamples /\ UNCHANGED <<running, vouched, used>>

RestartAll ==
  /\ At("console", "restart all")
  /\ running' = [u \in Units |-> tree]
  /\ Goto("console", "gate")
  /\ KeepSamples /\ UNCHANGED <<head, tree, versions, vouched, used>>

\* The exit status of systemctl is not looked at.
RestartSome ==
  /\ At("console", "restart all") /\ Fault
  /\ \E done \in SUBSET Units : running' = [u \in Units |-> IF u \in done THEN tree ELSE running[u]]
  /\ Goto("console", "gate")
  /\ KeepSamples /\ UNCHANGED <<head, tree, versions, vouched>>

\* capacity.py --apply, by hand or before the reset of a deployment: it restarts
\* the workers that the plan keeps, and does not look whether they come up.
Resize ==
  /\ At("console", "idle") \/ At("console", "reset")
  /\ \E done \in SUBSET WorkerUnits :
       running' = [u \in Units |-> IF u \in done THEN tree ELSE running[u]]
  /\ KeepSamples /\ UNCHANGED <<head, tree, versions, job, vouched, used>>

\* The production gate: healthy is recorded, unhealthy rolls back to the
\* baseline unless --no-rollback was given; without a baseline rollback.py
\* prints its usage.
Gate ==
  /\ At("console", "gate")
  /\ \E kinds \in Findings, rollback \in BOOLEAN :
       Become("console", IF kinds = {} THEN Marking(NoCommit, TRUE)
                        ELSE IF rollback /\ job["console"].target # NoCommit
                        THEN [job["console"] EXCEPT !.pc = "checkout"]
                        ELSE Idle)
  /\ KeepGit /\ KeepSamples /\ UNCHANGED <<versions, vouched, used>>

-----------------------------------------------------------------------------

\* rollback.py --record good|bad.
RecordByHand ==
  /\ At("console", "idle") /\ NewRun
  /\ \E good \in BOOLEAN : Become("console", Marking(NoCommit, good))
  /\ KeepGit /\ KeepSamples /\ UNCHANGED <<versions, vouched>>

\* rollback.py --to, with any name.
RollBackByHand ==
  /\ At("console", "idle") /\ NewRun
  /\ \E c \in Names : Become("console", [Idle EXCEPT !.pc = "checkout", !.target = c])
  /\ KeepGit /\ KeepSamples /\ UNCHANGED <<versions, vouched>>

\* A program ends early: killed, an exception, or git failing.  Killed while
\* it rewrites versions.json it leaves the truncated file.
Dies(p) ==
  /\ ~At(p, "idle") /\ Fault
  /\ \/ UNCHANGED versions
     \/ At(p, "save") /\ versions' = << >>
  /\ Become(p, Idle)
  /\ KeepGit /\ KeepSamples /\ UNCHANGED vouched

Recording(p) == Load(p) \/ Name(p) \/ Save(p)
RollingBack(p) == Checkout(p) \/ GitRefuses(p) \/ Restart(p) \/ Recheck(p)

Healthd == \/ Sample \/ Observe \/ Current \/ ChooseTarget
           \/ Recording("healthd") \/ RollingBack("healthd")
Console == \/ Reset \/ RestartAll \/ Gate
           \/ Recording("console") \/ RollingBack("console")

Next ==
  \/ Healthd \/ Console
  \/ Stage \/ RecordByHand \/ RollBackByHand \/ Resize
  \/ SampleTorn \/ RestartSome
  \/ \E p \in Programs : Dies(p) \/ RestartFails(p)

Spec == Init /\ [][Next]_vars

\* The daemon loops for ever under systemd and every script runs to its end;
\* nobody has to start another deployment.
FairSpec ==
  Spec /\ WF_vars(Healthd) /\ WF_vars(Console)

-----------------------------------------------------------------------------

\* healthd goes back only to a name that some program recorded good.  Several
\* programs read versions.json, rewrite it whole from what they read, truncate
\* it when they are killed and get an old one back from git: verdicts are lost
\* and come back that way, and HEAD names the wrong commit after a rollback,
\* but no good verdict is made up (rollback.py:141-166).
RollsBackToGood ==
  job["healthd"].pc \in {"checkout", "restart", "recheck"}
    => job["healthd"].target \in vouched

\* When no program is between changing the files and restarting the units, and
\* nothing failed, every unit runs the files that are checked out: a rollback
\* and a deployment that overlap cannot leave the old code running
\* (rollback.py:195-201, cd/deploy.sh:114-121).
UnitsFollowTree ==
  (used.faults = 0 /\ \A p \in Programs : job[p].pc \notin {"restart", "restart all"})
    => \A u \in Units : running[u] = tree

\* healthd starts a rollback only after UNHEALTHY_STREAK samples in a row that
\* were all unhealthy, also across crashes that tear the sample window
\* (rollback.py:170, rollback.py:243).
Debounced ==
  job["healthd"].pc \in {"current", "last good", "checkout", "restart", "recheck"}
    => unwell >= UnhealthyStreak

\* A sick commit that HEAD names and all units run is left, as long as the last
\* good name of the record but itself is a commit (rollback.py:250-256).
Suffers(c) ==
  /\ head = c /\ \A u \in Units : running[u] = c
  /\ LastGood(versions, c) \cap Commits # {}
SickIsLeft == \A c \in Sick : Suffers(c) ~> ~Suffers(c)

\* When everything rests and nothing failed, HEAD names the version that runs:
\* README.md:229 and cd/prod-container/README.md:63 call the rollback a git
\* reset, and every record made without a commit relies on it.  rollback.py:195
\* leaves HEAD on the commit it gave up.
HeadIsWhatRuns ==
  (used.faults = 0 /\ \A p \in Programs : At(p, "idle")) => head = tree
=============================================================================
