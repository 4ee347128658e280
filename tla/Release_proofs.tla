--------------------------- MODULE Release_proofs ---------------------------
(***************************************************************************)
(* Safety of Release.tla for every set of commits and units, every record  *)
(* that the commits carry, and any number of runs and faults.              *)
(***************************************************************************)
EXTENDS Release, SequenceTheorems, TLAPS

Jobs == [pc : Steps, commit : Names \cup {NoCommit}, target : Names \cup {NoCommit},
         read : Seq(Entry), mark : Names \cup {NoCommit}, good : BOOLEAN,
         next : {"idle", "checkout"}]

\* A history that holds as good only names of K.
Honest(hist, K) == \A n \in 1..Len(hist) : hist[n].good => hist[n].commit \in K

\* A program that goes back to another commit, or will once it has recorded.
GoesBack(j) == j.pc \in {"checkout", "restart", "recheck"} \/ j.next = "checkout"

\* A job of p that read an honest history and has the name it is to record; the
\* daemon goes back only to names of K.
Fits(p, j, K) ==
  /\ Honest(j.read, K)
  /\ j.next = "checkout" => j.pc \in {"load", "name", "save"}
  /\ j.pc = "save" => j.mark # NoCommit
  /\ p = "healthd" /\ GoesBack(j) => j.target \in K

\* Whatever is recorded as good, in the file, in a commit or in the memory of a
\* program, was recorded good by somebody.
AllHonest ==
  /\ Honest(versions, vouched)
  /\ \A c \in Commits : Honest(Committed[c], vouched)
  /\ \A p \in Programs : Fits(p, job[p], vouched)

ReleaseInv == TypeOK /\ AllHonest

-----------------------------------------------------------------------------
(* Jobs.                                                                    *)

LEMMA JobsTyped ==
  ASSUME TypeOK, NEW p \in Programs
  PROVE  job[p] \in Jobs /\ job \in [Programs -> Jobs]
BY DEF TypeOK, Jobs

LEMMA NothingHonest ==
  ASSUME NEW K
  PROVE  Honest(<< >>, K)
BY DEF Honest

LEMMA IdleFits ==
  ASSUME NEW p, NEW K
  PROVE  Idle \in Jobs /\ Fits(p, Idle, K)
BY DEF Idle, Jobs, Fits, GoesBack, Honest, Steps

LEMMA MarkingFits ==
  ASSUME NEW p, NEW K, NEW c \in Names \cup {NoCommit}, NEW good \in BOOLEAN
  PROVE  Marking(c, good) \in Jobs /\ Fits(p, Marking(c, good), K)
<1>0. Idle \in Jobs /\ "load" \in Steps
  BY IdleFits DEF Steps
<1>1. Marking(c, good) \in Jobs
  BY <1>0, Zenon DEF Marking, Jobs
<1>2. Fits(p, Marking(c, good), K)
  BY DEF Marking, Idle, Fits, GoesBack, Honest
<1>3. QED BY <1>1, <1>2

\* A job goes on: with another step, with what it read, or with what git says.
LEMMA GoingOnTyped ==
  ASSUME NEW j \in Jobs, NEW pc \in Steps
  PROVE  /\ [j EXCEPT !.pc = pc] \in Jobs
         /\ \A hist \in Seq(Entry) : [j EXCEPT !.read = hist, !.pc = pc] \in Jobs
         /\ \A c \in Names : [j EXCEPT !.mark = c, !.pc = pc] \in Jobs
         /\ \A c \in Names \cup {NoCommit} : [j EXCEPT !.pc = pc, !.commit = c] \in Jobs
<1>1. ASSUME NEW hist \in Seq(Entry) PROVE [j EXCEPT !.read = hist, !.pc = pc] \in Jobs
  BY Zenon DEF Jobs
<1>2. ASSUME NEW c \in Names PROVE [j EXCEPT !.mark = c, !.pc = pc] \in Jobs
  <2>1. c \in Names \cup {NoCommit} OBVIOUS
  <2>2. QED BY <2>1, Zenon DEF Jobs
<1>3. ASSUME NEW c \in Names \cup {NoCommit} PROVE [j EXCEPT !.pc = pc, !.commit = c] \in Jobs
  BY Zenon DEF Jobs
<1>4. [j EXCEPT !.pc = pc] \in Jobs
  BY Zenon DEF Jobs
<1>5. QED BY <1>1, <1>2, <1>3, <1>4

\* A new job, or the rest of one that has recorded.
LEMMA StartingTyped ==
  ASSUME NEW t \in Names \cup {NoCommit}, NEW c \in Names \cup {NoCommit}, NEW pc \in Steps
  PROVE  /\ [Idle EXCEPT !.pc = pc] \in Jobs
         /\ [Idle EXCEPT !.pc = pc, !.target = t] \in Jobs
         /\ [Idle EXCEPT !.pc = pc, !.commit = c, !.target = t] \in Jobs
         /\ [Marking(c, FALSE) EXCEPT !.target = t, !.next = "checkout"] \in Jobs
<1>0. Idle \in Jobs /\ Marking(c, FALSE) \in Jobs
  BY IdleFits, MarkingFits
<1>1. [Idle EXCEPT !.pc = pc] \in Jobs
  BY <1>0, Zenon DEF Jobs
<1>2. [Idle EXCEPT !.pc = pc, !.target = t] \in Jobs
  BY <1>0, Zenon DEF Jobs
<1>3. [Idle EXCEPT !.pc = pc, !.commit = c, !.target = t] \in Jobs
  BY <1>0, Zenon DEF Jobs
<1>4. [Marking(c, FALSE) EXCEPT !.target = t, !.next = "checkout"] \in Jobs
  BY <1>0, Zenon DEF Jobs
<1>5. QED BY <1>1, <1>2, <1>3, <1>4

\* What was recorded good stays so.
LEMMA FitsMore ==
  ASSUME NEW p, NEW j, NEW K, NEW L, K \subseteq L, Fits(p, j, K)
  PROVE  Fits(p, j, L)
BY DEF Fits, Honest

-----------------------------------------------------------------------------
(* The record.                                                              *)

\* A recorded verdict makes no other one up.
LEMMA RecordedHonest ==
  ASSUME NEW K, NEW hist \in Seq(Entry), Honest(hist, K),
         NEW c \in Names, NEW good \in BOOLEAN, good => c \in K
  PROVE  Recorded(hist, c, good) \in Seq(Entry) /\ Honest(Recorded(hist, c, good), K)
<1>1. CASE \E n \in 1..Len(hist) : hist[n].commit = c
  <2> DEFINE new == [n \in 1..Len(hist) |->
                      IF hist[n].commit = c THEN [hist[n] EXCEPT !.good = good] ELSE hist[n]]
  <2>1. ASSUME NEW n \in 1..Len(hist)
        PROVE  new[n] \in Entry /\ (new[n].good => new[n].commit \in K)
    <3>1. hist[n] \in Entry /\ (hist[n].good => hist[n].commit \in K) BY DEF Honest
    <3>2. [hist[n] EXCEPT !.good = good] \in Entry BY <3>1, Zenon DEF Entry
    <3>3. /\ [hist[n] EXCEPT !.good = good].commit = hist[n].commit
          /\ [hist[n] EXCEPT !.good = good].good = good
      BY <3>1 DEF Entry
    <3>4. CASE hist[n].commit = c
      <4>1. new[n] = [hist[n] EXCEPT !.good = good] BY <3>4
      <4>2. QED BY <3>2, <3>3, <3>4, <4>1
    <3>5. CASE hist[n].commit # c BY <3>1, <3>5
    <3>6. QED BY <3>4, <3>5
  <2>2. Len(hist) \in Nat BY LenProperties
  <2>3. new \in [1..Len(hist) -> Entry] BY <2>1
  <2>4. new \in Seq(Entry) /\ Len(new) = Len(hist)
    BY <2>2, <2>3, IsASeq, LenProperties
  <2>5. Honest(new, K) BY <2>1, <2>4 DEF Honest
  <2>6. Recorded(hist, c, good) = new BY <1>1 DEF Recorded
  <2>7. QED BY <2>4, <2>5, <2>6
<1>2. CASE ~ \E n \in 1..Len(hist) : hist[n].commit = c
  <2> DEFINE e == [commit |-> c, good |-> good]
  <2>1. Recorded(hist, c, good) = Append(hist, e) BY <1>2 DEF Recorded
  <2>2. e \in Entry /\ e.commit = c /\ e.good = good BY DEF Entry
  <2> HIDE DEF e
  <2>3. /\ Append(hist, e) \in Seq(Entry) /\ Len(Append(hist, e)) = Len(hist) + 1
        /\ \A i \in 1..Len(hist) : Append(hist, e)[i] = hist[i]
        /\ Append(hist, e)[Len(hist) + 1] = e
    BY <2>2, AppendProperties
  <2>4. Honest(Append(hist, e), K) BY <2>2, <2>3, LenProperties DEF Honest
  <2>5. QED BY <2>1, <2>3, <2>4
<1>3. QED BY <1>1, <1>2

\* last_good returns a name that the history holds as good.
LEMMA LastGoodHonest ==
  ASSUME NEW K, NEW hist \in Seq(Entry), Honest(hist, K), NEW x, NEW t \in LastGood(hist, x)
  PROVE  t \in K /\ t \in Names
<1>1. PICK n \in 1..Len(hist) : hist[n].good /\ t = hist[n].commit
  BY DEF LastGood, GoodEntries
<1>2. hist[n] \in Entry OBVIOUS
<1>3. QED BY <1>1, <1>2 DEF Honest, Entry

\* A truncated file says nothing, the file on disk only what was recorded.
LEMMA ReadableHonest ==
  ASSUME ReleaseInv, NEW p \in Programs, NEW hist \in Readable(p)
  PROVE  hist \in Seq(Entry) /\ Honest(hist, vouched)
<1>1. hist = versions \/ hist = << >> BY DEF Readable
<1>2. versions \in Seq(Entry) /\ Honest(versions, vouched) BY DEF ReleaseInv, TypeOK, AllHonest
<1>3. << >> \in Seq(Entry) /\ Honest(<< >>, vouched) BY EmptySeq DEF Honest
<1>4. QED BY <1>1, <1>2, <1>3

\* So does the file that a checkout brings back.
LEMMA CommittedHonest ==
  ASSUME ReleaseInv, NEW c \in Commits
  PROVE  Committed[c] \in Seq(Entry) /\ Honest(Committed[c], vouched)
BY CommittedAssumption DEF ReleaseInv, AllHonest

-----------------------------------------------------------------------------
(* Steps.                                                                   *)

\* One program gets a job that fits; what else changes stays honest.
LEMMA StepKeeps ==
  ASSUME ReleaseInv, NEW p \in Programs, NEW r \in Jobs, job' = [job EXCEPT ![p] = r],
         vouched \subseteq vouched', vouched' \subseteq Names, Fits(p, r, vouched'),
         head' \in Commits, tree' \in Commits, running' \in [Units -> Commits],
         versions' \in Seq(Entry), Honest(versions', vouched'),
         streak' \in 0..HistoryWindow, unwell' \in Nat, used' \in [runs : Nat, faults : Nat]
  PROVE  ReleaseInv'
<1>1. job' \in [Programs -> Jobs]
  BY JobsTyped DEF ReleaseInv
<1>2. TypeOK'
  BY <1>1 DEF TypeOK, Jobs
<1>3. ASSUME NEW q \in Programs PROVE Fits(q, job'[q], vouched')
  <2>1. CASE q = p BY <2>1, JobsTyped DEF ReleaseInv
  <2>2. CASE q # p
    <3>1. job'[q] = job[q] BY <2>2, JobsTyped DEF ReleaseInv
    <3>2. Fits(q, job[q], vouched) BY DEF ReleaseInv, AllHonest
    <3>3. QED BY <3>1, <3>2, FitsMore
  <2>3. QED BY <2>1, <2>2
<1>4. \A c \in Commits : Honest(Committed[c], vouched')
  BY DEF ReleaseInv, AllHonest, Honest
<1>5. AllHonest'
  BY <1>3, <1>4 DEF AllHonest
<1>6. QED BY <1>2, <1>5 DEF ReleaseInv

LEMMA UsedTyped ==
  ASSUME ReleaseInv, UNCHANGED used \/ NewRun \/ Fault
  PROVE  used' \in [runs : Nat, faults : Nat]
BY DEF ReleaseInv, TypeOK, NewRun, Fault

\* What every step knows of the state and of the job it continues.
LEMMA JobFacts ==
  ASSUME ReleaseInv, NEW p \in Programs
  PROVE  /\ job[p] \in Jobs /\ Fits(p, job[p], vouched)
         /\ head \in Commits /\ tree \in Commits /\ running \in [Units -> Commits]
         /\ versions \in Seq(Entry) /\ Honest(versions, vouched) /\ vouched \subseteq Names
         /\ streak \in 0..HistoryWindow /\ unwell \in Nat
         /\ used \in [runs : Nat, faults : Nat]
BY JobsTyped DEF ReleaseInv, TypeOK, AllHonest

\* The files, the units and the record stay.
LEMMA JobStepKeeps ==
  ASSUME ReleaseInv, NEW p \in Programs, NEW r \in Jobs, job' = [job EXCEPT ![p] = r],
         Fits(p, r, vouched), KeepGit, UNCHANGED <<versions, vouched>>,
         streak' \in 0..HistoryWindow, unwell' \in Nat, UNCHANGED used \/ NewRun \/ Fault
  PROVE  ReleaseInv'
<1>1. used' \in [runs : Nat, faults : Nat] BY UsedTyped
<1>2. QED BY <1>1, JobFacts, StepKeeps DEF KeepGit

LEMMA PushedTyped ==
  ASSUME NEW kinds, NEW n \in Nat
  PROVE  /\ Pushed(kinds, n) \in Nat
         /\ n <= HistoryWindow => Pushed(kinds, n) \in 0..HistoryWindow
BY StreakAssumption DEF Pushed

\* What git says of HEAD is a name.
LEMMA HeadSaysName ==
  ASSUME NEW c, HeadSays(c)
  PROVE  UNCHANGED used \/ NewRun \/ Fault
BY DEF HeadSays

LEMMA RecordingKeeps ==
  ASSUME ReleaseInv, NEW p \in Programs, Recording(p)
  PROVE  ReleaseInv'
<1>0. /\ job[p] \in Jobs /\ Fits(p, job[p], vouched) /\ vouched \subseteq Names
      /\ streak \in 0..HistoryWindow /\ unwell \in Nat
  BY JobFacts
<1>1. CASE Load(p)
  <2>1. PICK hist \in Readable(p) :
           Become(p, [job[p] EXCEPT !.read = hist,
                        !.pc = IF job[p].mark = NoCommit THEN "name" ELSE "save"])
    BY <1>1 DEF Load
  <2>2. PICK pc \in {"name", "save"} :
           /\ pc = IF job[p].mark = NoCommit THEN "name" ELSE "save"
           /\ pc = "save" => job[p].mark # NoCommit
    OBVIOUS
  <2> DEFINE r == [job[p] EXCEPT !.read = hist, !.pc = pc]
  <2>3. hist \in Seq(Entry) /\ Honest(hist, vouched) BY ReadableHonest
  <2>4. r \in Jobs BY <1>0, <2>3, GoingOnTyped DEF Steps
  <2>5. r.read = hist /\ r.pc = pc /\ r.target = job[p].target /\ r.mark = job[p].mark
        /\ r.next = job[p].next
    BY <1>0 DEF Jobs
  <2>6. job' = [job EXCEPT ![p] = r] BY <2>1, <2>2 DEF Become
  <2>7. KeepGit /\ KeepSamples /\ UNCHANGED <<versions, vouched, used>> BY <1>1 DEF Load
  <2> HIDE DEF r
  <2>8. Fits(p, r, vouched) BY <1>0, <2>2, <2>3, <2>5 DEF Fits, GoesBack
  <2>9. QED BY <1>0, <2>4, <2>6, <2>7, <2>8, JobStepKeeps DEF KeepSamples
<1>2. CASE Name(p)
  <2>1. PICK c \in Names : HeadSays(c) /\ Become(p, [job[p] EXCEPT !.mark = c, !.pc = "save"])
    BY <1>2 DEF Name
  <2> DEFINE r == [job[p] EXCEPT !.mark = c, !.pc = "save"]
  <2>2. r \in Jobs BY <1>0, GoingOnTyped DEF Steps
  <2>3. r.pc = "save" /\ r.mark = c /\ r.read = job[p].read
        /\ r.target = job[p].target /\ r.next = job[p].next
    BY <1>0 DEF Jobs
  <2>4. job' = [job EXCEPT ![p] = r] BY <2>1 DEF Become
  <2>5. KeepGit /\ KeepSamples /\ UNCHANGED <<versions, vouched>> BY <1>2 DEF Name
  <2> HIDE DEF r
  <2>6. c # NoCommit BY CommitAssumption
  <2>7. Fits(p, r, vouched) BY <1>0, <2>3, <2>6 DEF Fits, GoesBack
  <2>8. UNCHANGED used \/ NewRun \/ Fault BY <2>1, HeadSaysName
  <2>9. QED BY <1>0, <2>2, <2>4, <2>5, <2>7, <2>8, JobStepKeeps DEF KeepSamples
<1>3. CASE Save(p)
  <2>1. PICK t \in Names \cup {NoCommit} : t = job[p].target BY <1>0 DEF Jobs
  <2>2. PICK pc \in {"idle", "checkout"} : pc = job[p].next BY <1>0 DEF Jobs
  <2> DEFINE r == [Idle EXCEPT !.pc = pc, !.target = t]
  <2>3. r \in Jobs BY <2>1, <2>2, StartingTyped DEF Steps
  <2>4. r.pc = pc /\ r.target = t /\ r.read = << >> /\ r.next = "idle"
    BY DEF Idle
  <2>5. job' = [job EXCEPT ![p] = r] BY <1>3, <2>1, <2>2 DEF Save, Become
  <2> HIDE DEF r
  <2>6. p = "healthd" /\ pc = "checkout" => t \in vouched BY <1>0, <2>1, <2>2 DEF Fits, GoesBack
  <2>7. PICK c \in Names, good \in BOOLEAN : c = job[p].mark /\ good = job[p].good
    BY <1>0, <1>3 DEF Save, At, Fits, Jobs
  <2>8. /\ vouched' = vouched \cup (IF good THEN {c} ELSE {})
        /\ versions' = Recorded(job[p].read, c, good)
        /\ KeepGit /\ KeepSamples /\ UNCHANGED used
    BY <1>3, <2>7 DEF Save
  <2>9. vouched \subseteq vouched' /\ vouched' \subseteq Names /\ (good => c \in vouched')
    BY <1>0, <2>7, <2>8
  <2>10. Fits(p, r, vouched')
    BY <2>2, <2>4, <2>6, <2>9, NothingHonest DEF Fits, GoesBack
  <2>11. PICK hist \in Seq(Entry) : hist = job[p].read /\ Honest(hist, vouched')
    BY <1>0, <2>9 DEF Jobs, Fits, Honest
  <2>12. PICK K : K = vouched' OBVIOUS
  <2>13. versions' \in Seq(Entry) /\ Honest(versions', K)
    BY <2>8, <2>9, <2>11, <2>12, RecordedHonest
  <2>14. QED
    BY <2>3, <2>5, <2>8, <2>9, <2>10, <2>12, <2>13, JobFacts, StepKeeps DEF KeepGit, KeepSamples
<1>4. QED BY <1>1, <1>2, <1>3 DEF Recording

LEMMA SamplingKeeps ==
  ASSUME ReleaseInv, Sample \/ Observe \/ SampleTorn \/ Current \/ ChooseTarget
  PROVE  ReleaseInv'
<1> DEFINE p == "healthd"
<1>0. p \in Programs BY DEF Programs
<1>1. job[p] \in Jobs /\ Fits(p, job[p], vouched) /\ streak \in 0..HistoryWindow /\ unwell \in Nat
  BY <1>0, JobFacts
<1>2. CASE Sample
  <2>1. PICK kinds \in Findings, stuck \in BOOLEAN, finished \in BOOLEAN :
           /\ streak' = Pushed(kinds, streak) /\ unwell' = Pushed(kinds, unwell)
           /\ IF kinds = {} THEN Become("healthd", Marking(NoCommit, TRUE))
              ELSE IF RollsBack(kinds, stuck, finished) /\ streak' >= UnhealthyStreak
                   THEN Become("healthd", [Idle EXCEPT !.pc = "current"])
                   ELSE Goto("healthd", "observe")
    BY <1>2 DEF Sample
  <2>2. streak' \in 0..HistoryWindow /\ unwell' \in Nat BY <1>1, <2>1, PushedTyped
  <2>3. KeepGit /\ UNCHANGED <<versions, vouched, used>> BY <1>2 DEF Sample
  <2>4. CASE Become(p, Marking(NoCommit, TRUE))
    <3>1. Marking(NoCommit, TRUE) \in Jobs /\ Fits(p, Marking(NoCommit, TRUE), vouched)
      BY MarkingFits
    <3>2. QED BY <1>0, <2>2, <2>3, <2>4, <3>1, JobStepKeeps DEF Become
  <2>5. CASE Become(p, [Idle EXCEPT !.pc = "current"])
    <3> DEFINE r == [Idle EXCEPT !.pc = "current"]
    <3>1. r \in Jobs BY StartingTyped DEF Steps
    <3>2. Fits(p, r, vouched) BY DEF Idle, Fits, GoesBack, Honest
    <3>3. job' = [job EXCEPT ![p] = r] BY <2>5 DEF Become
    <3> HIDE DEF r
    <3>4. QED BY <1>0, <2>2, <2>3, <3>1, <3>2, <3>3, JobStepKeeps
  <2>6. CASE Goto(p, "observe")
    <3> DEFINE r == [job[p] EXCEPT !.pc = "observe"]
    <3>1. r \in Jobs BY <1>1, GoingOnTyped DEF Steps
    <3>2. r.pc = "observe" /\ r.read = job[p].read /\ r.next = job[p].next
      BY <1>1 DEF Jobs
    <3>3. job[p].next # "checkout" BY <1>1, <1>2 DEF Sample, At, Fits
    <3>4. job' = [job EXCEPT ![p] = r] BY <1>0, <2>6, JobsTyped DEF Goto, ReleaseInv
    <3> HIDE DEF r
    <3>5. Fits(p, r, vouched) BY <1>1, <3>2, <3>3 DEF Fits, GoesBack
    <3>6. QED BY <1>0, <2>2, <2>3, <3>1, <3>4, <3>5, JobStepKeeps
  <2>7. QED BY <2>1, <2>4, <2>5, <2>6
<1>3. CASE Observe
  <2>1. Idle \in Jobs /\ Fits(p, Idle, vouched) BY IdleFits
  <2>2. QED BY <1>0, <1>1, <1>3, <2>1, JobStepKeeps DEF Observe, Become, KeepSamples
<1>4. CASE SampleTorn
  <2>1. PICK kinds \in Findings : unwell' = Pushed(kinds, unwell) BY <1>4 DEF SampleTorn
  <2>2. unwell' \in Nat /\ streak' \in 0..HistoryWindow
    BY <1>1, <1>4, <2>1, PushedTyped, StreakAssumption DEF SampleTorn
  <2>3. job' = [job EXCEPT ![p] = job[p]] BY <1>4, JobsTyped, <1>0 DEF SampleTorn, ReleaseInv
  <2>4. QED BY <1>0, <1>1, <1>4, <2>2, <2>3, JobStepKeeps DEF SampleTorn
<1>5. CASE Current
  <2>1. PICK c \in Names :
           HeadSays(c) /\ Become(p, [job[p] EXCEPT !.pc = "last good", !.commit = c])
    BY <1>5 DEF Current
  <2> DEFINE r == [job[p] EXCEPT !.pc = "last good", !.commit = c]
  <2>2. r \in Jobs BY <1>1, GoingOnTyped DEF Steps
  <2>3. r.pc = "last good" /\ r.read = job[p].read /\ r.next = job[p].next
    BY <1>1 DEF Jobs
  <2>4. job[p].next # "checkout" BY <1>1, <1>5 DEF Current, At, Fits
  <2>5. job' = [job EXCEPT ![p] = r] BY <2>1 DEF Become
  <2> HIDE DEF r
  <2>6. Fits(p, r, vouched) BY <1>1, <2>3, <2>4 DEF Fits, GoesBack
  <2>7. UNCHANGED used \/ NewRun \/ Fault BY <2>1, HeadSaysName
  <2>8. QED BY <1>0, <1>1, <1>5, <2>2, <2>5, <2>6, <2>7, JobStepKeeps DEF Current, KeepSamples
<1>6. CASE ChooseTarget
  <2>1. /\ KeepGit /\ UNCHANGED <<versions, vouched, used>>
        /\ streak' \in 0..HistoryWindow /\ unwell' \in Nat
    BY <1>1, <1>6 DEF ChooseTarget, KeepSamples
  <2>2. PICK hist \in Readable(p) :
           \/ Become(p, Idle)
           \/ \E t \in LastGood(hist, job[p].commit) :
                Become(p, [Marking(job[p].commit, FALSE) EXCEPT !.target = t, !.next = "checkout"])
    BY <1>6 DEF ChooseTarget
  <2>3. CASE Become(p, Idle)
    <3>1. Idle \in Jobs /\ Fits(p, Idle, vouched) BY IdleFits
    <3>2. QED BY <1>0, <2>1, <2>3, <3>1, JobStepKeeps DEF Become
  <2>4. ASSUME NEW t \in LastGood(hist, job[p].commit),
               Become(p, [Marking(job[p].commit, FALSE) EXCEPT !.target = t, !.next = "checkout"])
        PROVE  ReleaseInv'
    <3>1. t \in vouched /\ t \in Names BY <1>0, <2>2, <2>4, ReadableHonest, LastGoodHonest
    <3>2. PICK cur \in Names \cup {NoCommit} : cur = job[p].commit BY <1>1 DEF Jobs
    <3> DEFINE r == [Marking(cur, FALSE) EXCEPT !.target = t, !.next = "checkout"]
    <3>3. r \in Jobs BY <3>1, StartingTyped DEF Steps
    <3>4. r.pc = "load" /\ r.target = t /\ r.next = "checkout" /\ r.read = << >>
      BY DEF Marking, Idle
    <3>5. job' = [job EXCEPT ![p] = r] BY <2>4, <3>2 DEF Become
    <3> HIDE DEF r
    <3>6. Fits(p, r, vouched) BY <3>1, <3>4, NothingHonest DEF Fits, GoesBack
    <3>7. QED BY <1>0, <2>1, <3>3, <3>5, <3>6, JobStepKeeps
  <2>5. QED BY <2>2, <2>3, <2>4
<1>7. QED BY <1>2, <1>3, <1>4, <1>5, <1>6

\* A program that only moves on to another step of its deployment or rollback.
LEMMA GotoKeeps ==
  ASSUME ReleaseInv, NEW p \in Programs, NEW pc \in {"restart all", "gate", "restart", "recheck"},
         \/ job[p].pc \in {"reset", "restart all", "gate"} /\ p = "console"
         \/ job[p].pc \in {"checkout", "restart", "recheck"},
         Goto(p, pc), UNCHANGED <<vouched, streak, unwell>>, UNCHANGED used \/ NewRun \/ Fault,
         head' \in Commits, tree' \in Commits, running' \in [Units -> Commits],
         versions' \in Seq(Entry), Honest(versions', vouched)
  PROVE  ReleaseInv'
<1>0. job[p] \in Jobs /\ Fits(p, job[p], vouched)
  BY JobFacts
<1> DEFINE r == [job[p] EXCEPT !.pc = pc]
<1>1. r \in Jobs BY <1>0, GoingOnTyped DEF Steps
<1>2. r.pc = pc /\ r.read = job[p].read /\ r.target = job[p].target /\ r.next = job[p].next
  BY <1>0 DEF Jobs
<1>3. job' = [job EXCEPT ![p] = r] BY JobsTyped DEF Goto, ReleaseInv
<1> HIDE DEF r
<1>4. Fits(p, r, vouched) BY <1>0, <1>2 DEF Fits, GoesBack
<1>5. used' \in [runs : Nat, faults : Nat] BY UsedTyped
<1>6. streak' \in 0..HistoryWindow /\ unwell' \in Nat /\ vouched \subseteq Names BY JobFacts
<1>7. QED BY <1>1, <1>3, <1>4, <1>5, <1>6, StepKeeps

\* Some units come back with the files that are checked out.
LEMMA PartlyRestarted ==
  ASSUME ReleaseInv, NEW done,
         running' = [u \in Units |-> IF u \in done THEN tree ELSE running[u]]
  PROVE  running' \in [Units -> Commits]
BY DEF ReleaseInv, TypeOK

\* A program ends.
LEMMA EndingKeeps ==
  ASSUME ReleaseInv, NEW p \in Programs, Become(p, Idle),
         UNCHANGED <<head, tree, vouched, streak, unwell>>, UNCHANGED used \/ NewRun \/ Fault,
         running' \in [Units -> Commits], versions' \in Seq(Entry), Honest(versions', vouched)
  PROVE  ReleaseInv'
<1>1. Idle \in Jobs /\ Fits(p, Idle, vouched) BY IdleFits
<1>2. used' \in [runs : Nat, faults : Nat] BY UsedTyped
<1>3. QED BY <1>1, <1>2, JobFacts, StepKeeps DEF Become

LEMMA RollingKeeps ==
  ASSUME ReleaseInv, NEW p \in Programs, RollingBack(p) \/ RestartFails(p) \/ Dies(p)
  PROVE  ReleaseInv'
<1>1. /\ job[p] \in Jobs /\ Fits(p, job[p], vouched)
      /\ head \in Commits /\ tree \in Commits /\ running \in [Units -> Commits]
      /\ versions \in Seq(Entry) /\ Honest(versions, vouched)
      /\ streak \in 0..HistoryWindow /\ unwell \in Nat
  BY JobFacts
<1>2. CASE Checkout(p)
  <2>1. PICK t \in Commits : t = job[p].target BY <1>2 DEF Checkout
  <2>2. Committed[t] \in Seq(Entry) /\ Honest(Committed[t], vouched) BY CommittedHonest
  <2>3. QED BY <1>1, <1>2, <2>1, <2>2, GotoKeeps DEF Checkout, At, KeepSamples
<1>3. CASE GitRefuses(p)
  BY <1>1, <1>3, EndingKeeps DEF GitRefuses, KeepGit, KeepSamples
<1>4. CASE Restart(p)
  <2>1. running' \in [Units -> Commits] BY <1>1, <1>4 DEF Restart
  <2>2. QED BY <1>1, <1>4, <2>1, GotoKeeps DEF Restart, At, KeepSamples
<1>5. CASE RestartFails(p)
  <2>1. running' \in [Units -> Commits] BY <1>5, PartlyRestarted DEF RestartFails
  <2>2. QED BY <1>1, <1>5, <2>1, EndingKeeps DEF RestartFails, KeepSamples
<1>6. CASE Recheck(p)
  <2>1. PICK t \in Names \cup {NoCommit} : t = job[p].target BY <1>1 DEF Jobs
  <2>2. PICK r \in {Marking(t, TRUE), Marking(NoCommit, FALSE)} : job' = [job EXCEPT ![p] = r]
    BY <1>6, <2>1 DEF Recheck, Become
  <2>3. r \in Jobs /\ Fits(p, r, vouched) BY <2>2, MarkingFits
  <2>4. KeepGit /\ KeepSamples /\ UNCHANGED <<versions, vouched, used>> BY <1>6 DEF Recheck
  <2>5. QED BY <1>1, <2>2, <2>3, <2>4, JobStepKeeps DEF KeepSamples
<1>7. CASE Dies(p)
  <2>1. versions' \in Seq(Entry) /\ Honest(versions', vouched)
    BY <1>1, <1>7, NothingHonest, EmptySeq DEF Dies
  <2>2. QED BY <1>1, <1>7, <2>1, EndingKeeps DEF Dies, KeepGit, KeepSamples
<1>8. QED BY <1>2, <1>3, <1>4, <1>5, <1>6, <1>7 DEF RollingBack

LEMMA DeployKeeps ==
  ASSUME ReleaseInv,
         \/ Stage \/ Reset \/ RestartAll \/ RestartSome \/ Resize \/ Gate
         \/ RecordByHand \/ RollBackByHand
  PROVE  ReleaseInv'
<1> DEFINE p == "console"
<1>0. p \in Programs /\ p # "healthd" BY DEF Programs
<1>1. /\ job[p] \in Jobs /\ Fits(p, job[p], vouched) /\ vouched \subseteq Names
      /\ head \in Commits /\ tree \in Commits /\ running \in [Units -> Commits]
      /\ versions \in Seq(Entry) /\ Honest(versions, vouched)
      /\ streak \in 0..HistoryWindow /\ unwell \in Nat /\ used \in [runs : Nat, faults : Nat]
  BY <1>0, JobFacts
<1>2. CASE Stage
  <2>1. PICK c \in Names, baseline \in {head, NoCommit} :
           Become(p, [Idle EXCEPT !.pc = "reset", !.commit = c, !.target = baseline])
    BY <1>2 DEF Stage
  <2>2. baseline \in Names \cup {NoCommit} BY <1>1, <2>1 DEF Names
  <2> DEFINE r == [Idle EXCEPT !.pc = "reset", !.commit = c, !.target = baseline]
  <2>3. r \in Jobs BY <2>1, <2>2, StartingTyped DEF Steps
  <2>4. r.pc = "reset" /\ r.read = << >> /\ r.next = "idle" BY DEF Idle
  <2>5. job' = [job EXCEPT ![p] = r] BY <2>1 DEF Become
  <2> HIDE DEF r
  <2>6. Fits(p, r, vouched) BY <2>4, NothingHonest DEF Fits, GoesBack
  <2>7. QED BY <1>0, <1>1, <1>2, <2>3, <2>5, <2>6, JobStepKeeps DEF Stage, KeepSamples
<1>3. CASE Reset
  <2>1. PICK c \in Commits : c = job[p].commit BY <1>3 DEF Reset
  <2>2. Committed[c] \in Seq(Entry) /\ Honest(Committed[c], vouched) BY CommittedHonest
  <2>3. NoCommit \in Names \cup {NoCommit} OBVIOUS
  <2> DEFINE r == [job[p] EXCEPT !.pc = "restart all", !.commit = NoCommit]
  <2>4. r \in Jobs BY <1>1, <2>3, GoingOnTyped DEF Steps
  <2>5. r.pc = "restart all" /\ r.read = job[p].read /\ r.next = job[p].next
    BY <1>1 DEF Jobs
  <2>6. /\ job' = [job EXCEPT ![p] = r] /\ UNCHANGED <<running, vouched, used, streak, unwell>>
        /\ head' = c /\ tree' = c /\ versions' = Committed[c]
    BY <1>3, <2>1 DEF Reset, Become, KeepSamples
  <2>7. job[p].pc = "reset" BY <1>3 DEF Reset, At
  <2> HIDE DEF r
  <2>8. Fits(p, r, vouched) BY <1>0, <1>1, <2>5, <2>7 DEF Fits
  <2>9. QED BY <1>0, <1>1, <2>1, <2>2, <2>4, <2>6, <2>8, StepKeeps
<1>4. CASE RestartAll
  <2>1. running' \in [Units -> Commits] BY <1>1, <1>4 DEF RestartAll
  <2>2. QED BY <1>0, <1>1, <1>4, <2>1, GotoKeeps DEF RestartAll, At, KeepSamples
<1>5. CASE RestartSome
  <2>1. running' \in [Units -> Commits] BY <1>5, PartlyRestarted DEF RestartSome
  <2>2. QED BY <1>0, <1>1, <1>5, <2>1, GotoKeeps DEF RestartSome, At, KeepSamples
<1>6. CASE Resize
  <2>1. running' \in [Units -> Commits] BY <1>6, PartlyRestarted DEF Resize
  <2>2. job' = [job EXCEPT ![p] = job[p]] /\ UNCHANGED <<head, tree, versions, vouched, used, streak, unwell>>
    BY <1>0, <1>6, JobsTyped DEF Resize, KeepSamples, ReleaseInv
  <2>3. QED BY <1>0, <1>1, <2>1, <2>2, StepKeeps
<1>7. CASE Gate
  <2>1. KeepGit /\ KeepSamples /\ UNCHANGED <<versions, vouched, used>> /\ job[p].pc = "gate"
    BY <1>7 DEF Gate, At
  <2>2. \/ Become(p, Marking(NoCommit, TRUE)) \/ Become(p, Idle)
        \/ Become(p, [job[p] EXCEPT !.pc = "checkout"])
    BY <1>7 DEF Gate
  <2>3. ASSUME NEW r \in Jobs, Fits(p, r, vouched), Become(p, r) PROVE ReleaseInv'
    BY <1>0, <1>1, <2>1, <2>3, JobStepKeeps DEF Become, KeepSamples
  <2>4. CASE Become(p, Marking(NoCommit, TRUE)) BY <2>3, <2>4, MarkingFits
  <2>5. CASE Become(p, Idle) BY <2>3, <2>5, IdleFits
  <2>6. CASE Become(p, [job[p] EXCEPT !.pc = "checkout"])
    <3> DEFINE r == [job[p] EXCEPT !.pc = "checkout"]
    <3>1. r \in Jobs BY <1>1, GoingOnTyped DEF Steps
    <3>2. r.pc = "checkout" /\ r.read = job[p].read /\ r.next = job[p].next
      BY <1>1 DEF Jobs
    <3>3. Become(p, r) BY <2>6
    <3> HIDE DEF r
    <3>4. Fits(p, r, vouched) BY <1>0, <1>1, <2>1, <3>2 DEF Fits
    <3>5. QED BY <2>3, <3>1, <3>3, <3>4
  <2>7. QED BY <2>2, <2>4, <2>5, <2>6
<1>8. CASE RecordByHand
  <2>1. PICK good \in BOOLEAN : Become(p, Marking(NoCommit, good)) BY <1>8 DEF RecordByHand
  <2>2. Marking(NoCommit, good) \in Jobs /\ Fits(p, Marking(NoCommit, good), vouched)
    BY <2>1, MarkingFits
  <2>3. QED BY <1>0, <1>1, <1>8, <2>1, <2>2, JobStepKeeps DEF RecordByHand, Become, KeepSamples
<1>9. CASE RollBackByHand
  <2>1. PICK c \in Names : Become(p, [Idle EXCEPT !.pc = "checkout", !.target = c])
    BY <1>9 DEF RollBackByHand
  <2> DEFINE r == [Idle EXCEPT !.pc = "checkout", !.target = c]
  <2>2. r \in Jobs BY <2>1, StartingTyped DEF Steps
  <2>3. r.pc = "checkout" /\ r.read = << >> /\ r.next = "idle" BY DEF Idle
  <2>4. job' = [job EXCEPT ![p] = r] BY <2>1 DEF Become
  <2> HIDE DEF r
  <2>5. Fits(p, r, vouched) BY <1>0, <2>3, NothingHonest DEF Fits
  <2>6. QED BY <1>0, <1>1, <1>9, <2>2, <2>4, <2>5, JobStepKeeps DEF RollBackByHand, KeepSamples
<1>10. QED BY <1>2, <1>3, <1>4, <1>5, <1>6, <1>7, <1>8, <1>9

\* The type of the state and the honesty of every copy of the record are kept
\* by every step.
LEMMA ReleaseStep ==
  ASSUME ReleaseInv, [Next]_vars
  PROVE  ReleaseInv'
<1>1. CASE Next
  BY <1>1, SamplingKeeps, RecordingKeeps, RollingKeeps, DeployKeeps
  DEF Next, Healthd, Console, Programs
<1>2. CASE UNCHANGED vars
  BY <1>2 DEF vars, ReleaseInv, TypeOK, AllHonest
<1>3. QED BY <1>1, <1>2

LEMMA ReleaseInit ==
  ASSUME Init
  PROVE  ReleaseInv
<1>1. ASSUME NEW c \in Commits
      PROVE  Committed[c] \in Seq(Entry) /\ Honest(Committed[c], vouched)
  BY CommittedAssumption DEF Init, GoodNames, Honest
<1>2. versions \in Seq(Entry) /\ Honest(versions, vouched)
  BY <1>1, CommitAssumption, NothingHonest, EmptySeq DEF Init
<1>3. \A p \in Programs : Idle \in Jobs /\ Fits(p, Idle, vouched) BY IdleFits
<1>4. job \in [Programs -> Jobs] /\ \A p \in Programs : job[p] = Idle
  BY <1>3 DEF Init
<1>5. vouched \in SUBSET Names
  <2>1. ASSUME NEW c \in Commits, NEW n \in 1..Len(Committed[c])
        PROVE  Committed[c][n].commit \in Names
    <3>1. Committed[c] \in Seq(Entry) BY CommittedAssumption
    <3>2. Committed[c][n] \in Entry BY <3>1
    <3>3. QED BY <3>2 DEF Entry
  <2>2. QED BY <2>1 DEF Init, GoodNames
<1>6. TypeOK
  BY <1>2, <1>4, <1>5, CommitAssumption, StreakAssumption DEF Init, TypeOK, Jobs
<1>7. AllHonest
  BY <1>1, <1>2, <1>3, <1>4 DEF AllHonest
<1>8. QED BY <1>6, <1>7 DEF ReleaseInv

LEMMA ReleaseHolds == Spec => []ReleaseInv
<1>1. Init => ReleaseInv BY ReleaseInit
<1>2. ReleaseInv /\ [Next]_vars => ReleaseInv' BY ReleaseStep
<1>3. QED BY <1>1, <1>2, PTL DEF Spec

\* The state has its type: what a program reads from versions.json is a history,
\* and only commits that exist are ever checked out (rollback.py:54-77).
THEOREM TypeCorrect == Spec => []TypeOK
<1>1. ReleaseInv => TypeOK BY DEF ReleaseInv
<1>2. QED BY <1>1, ReleaseHolds, PTL

\* healthd goes back only to a name that some program recorded good, whatever is
\* lost, revived or torn in the record (rollback.py:141-166).  The induction
\* needs that of every copy of the record: on disk, in each commit and in the
\* memory of each program.
THEOREM RollsBackToGoodHolds == Spec => []RollsBackToGood
<1>1. ReleaseInv => RollsBackToGood
  BY DEF ReleaseInv, AllHonest, Programs, Fits, GoesBack, RollsBackToGood
<1>2. QED BY <1>1, ReleaseHolds, PTL

-----------------------------------------------------------------------------
(* A rollback waits for a streak.                                           *)

\* A program that rolls back or will do so once it has recorded.
Reacts(j) ==
  \/ j.pc \in {"current", "last good", "checkout", "restart", "recheck"}
  \/ j.next = "checkout"

\* The window never shows more unhealthy samples than there were.
DebounceInv ==
  /\ streak <= unwell
  /\ Reacts(job["healthd"]) => unwell >= UnhealthyStreak

\* One program's step that takes no sample and starts no reaction.
GoesOn(p) ==
  /\ \A q \in Programs \ {p} : job'[q] = job[q]
  /\ Reacts(job'[p]) => Reacts(job[p])
  /\ KeepSamples

LEMMA RecordingGoesOn ==
  ASSUME ReleaseInv, NEW p \in Programs, Recording(p)
  PROVE  GoesOn(p)
<1>0. job[p] \in Jobs /\ job \in [Programs -> Jobs] BY JobsTyped DEF ReleaseInv
<1>1. CASE Load(p)
  <2>1. PICK hist \in Readable(p) :
           Become(p, [job[p] EXCEPT !.read = hist,
                        !.pc = IF job[p].mark = NoCommit THEN "name" ELSE "save"])
    BY <1>1 DEF Load
  <2> DEFINE pc == IF job[p].mark = NoCommit THEN "name" ELSE "save"
  <2>2. job'[p].pc = pc /\ job'[p].next = job[p].next BY <1>0, <2>1 DEF Jobs, Become
  <2>3. \A q \in Programs \ {p} : job'[q] = job[q] BY <1>0, <2>1 DEF Become
  <2>4. QED BY <1>1, <2>2, <2>3 DEF Load, GoesOn, Reacts
<1>2. CASE Name(p)
  <2>1. PICK c \in Names : job' = [job EXCEPT ![p] = [job[p] EXCEPT !.mark = c, !.pc = "save"]]
    BY <1>2 DEF Name, Become
  <2>2. job'[p].pc = "save" /\ job'[p].next = job[p].next BY <1>0, <2>1 DEF Jobs
  <2>3. \A q \in Programs \ {p} : job'[q] = job[q] BY <1>0, <2>1
  <2>4. QED BY <1>2, <2>2, <2>3 DEF Name, GoesOn, Reacts
<1>3. CASE Save(p)
  <2>1. job' = [job EXCEPT ![p] = [Idle EXCEPT !.pc = job[p].next, !.target = job[p].target]]
    BY <1>3 DEF Save, Become
  <2>2. job'[p].pc = job[p].next /\ job'[p].next = "idle" BY <1>0, <2>1 DEF Idle
  <2>3. \A q \in Programs \ {p} : job'[q] = job[q] BY <1>0, <2>1
  <2>4. job[p].next \in {"idle", "checkout"} BY <1>0 DEF Jobs
  <2>5. QED BY <1>3, <2>2, <2>3, <2>4 DEF Save, GoesOn, Reacts
<1>4. QED BY <1>1, <1>2, <1>3 DEF Recording

LEMMA EndingGoesOn ==
  ASSUME ReleaseInv, NEW p \in Programs, NEW c, NEW good, KeepSamples,
         Become(p, Idle) \/ Become(p, Marking(c, good))
  PROVE  GoesOn(p)
<1>0. job \in [Programs -> Jobs] BY JobsTyped DEF ReleaseInv
<1>1. /\ Idle.pc = "idle" /\ Idle.next = "idle"
      /\ Marking(c, good).pc = "load" /\ Marking(c, good).next = "idle"
  BY DEF Idle, Marking
<1>2. QED BY <1>0, <1>1 DEF Become, GoesOn, Reacts

LEMMA RollingGoesOn ==
  ASSUME ReleaseInv, NEW p \in Programs, RollingBack(p) \/ RestartFails(p) \/ Dies(p)
  PROVE  GoesOn(p)
<1>0. job[p] \in Jobs /\ job \in [Programs -> Jobs] BY JobsTyped DEF ReleaseInv
<1>1. CASE Checkout(p) \/ Restart(p)
  <2>1. Reacts(job[p]) /\ KeepSamples /\ \A q \in Programs \ {p} : job'[q] = job[q]
    BY <1>0, <1>1 DEF Checkout, Restart, At, Goto, Reacts
  <2>2. QED BY <2>1 DEF GoesOn
<1>2. CASE Recheck(p)
  <2>1. Become(p, Marking(job[p].target, TRUE)) \/ Become(p, Marking(NoCommit, FALSE))
    BY <1>2 DEF Recheck
  <2>2. QED BY <1>2, <2>1, EndingGoesOn DEF Recheck
<1>3. CASE RestartFails(p) \/ Dies(p) \/ GitRefuses(p)
  BY <1>3, EndingGoesOn DEF RestartFails, Dies, GitRefuses
<1>4. QED BY <1>1, <1>2, <1>3 DEF RollingBack

LEMMA DebounceStep ==
  ASSUME ReleaseInv, DebounceInv, [Next]_vars
  PROVE  DebounceInv'
<1> DEFINE p == "healthd"
<1>0. /\ p \in Programs /\ "console" \in Programs /\ p # "console"
      /\ job[p] \in Jobs /\ job \in [Programs -> Jobs] /\ Fits(p, job[p], vouched)
      /\ streak \in 0..HistoryWindow /\ unwell \in Nat
      /\ UnhealthyStreak \in Nat \ {0} /\ HistoryWindow \in Nat
  BY JobFacts, JobsTyped, StreakAssumption DEF Programs, ReleaseInv
<1>1. ASSUME NEW q \in Programs, GoesOn(q) PROVE DebounceInv'
  BY <1>0, <1>1 DEF GoesOn, KeepSamples, DebounceInv
<1>2. ASSUME job'[p] = job[p], KeepSamples PROVE DebounceInv'
  BY <1>0, <1>2 DEF KeepSamples, DebounceInv
<1>3. CASE Sample
  <2>1. PICK kinds \in Findings, stuck \in BOOLEAN, finished \in BOOLEAN :
           /\ streak' = Pushed(kinds, streak) /\ unwell' = Pushed(kinds, unwell)
           /\ IF kinds = {} THEN Become(p, Marking(NoCommit, TRUE))
              ELSE IF RollsBack(kinds, stuck, finished) /\ streak' >= UnhealthyStreak
                   THEN Become(p, [Idle EXCEPT !.pc = "current"])
                   ELSE Goto(p, "observe")
    BY <1>3 DEF Sample
  <2>2. streak' <= unwell' /\ streak' \in Nat /\ unwell' \in Nat
    BY <1>0, <2>1 DEF Pushed, DebounceInv
  <2>3. CASE Become(p, Marking(NoCommit, TRUE))
    <3>1. job'[p].pc = "load" /\ job'[p].next = "idle" BY <1>0, <2>3 DEF Become, Marking, Idle
    <3>2. QED BY <2>2, <3>1 DEF DebounceInv, Reacts
  <2>4. CASE streak' >= UnhealthyStreak
    BY <1>0, <2>2, <2>4 DEF DebounceInv
  <2>5. CASE Goto(p, "observe")
    <3>1. job'[p].pc = "observe" /\ job'[p].next = job[p].next BY <1>0, <2>5 DEF Goto, Jobs
    <3>2. job[p].next # "checkout" BY <1>0, <1>3 DEF Sample, At, Fits
    <3>3. QED BY <2>2, <3>1, <3>2 DEF DebounceInv, Reacts
  <2>6. QED BY <2>1, <2>3, <2>4, <2>5
<1>4. CASE SampleTorn
  <2>1. job' = job /\ streak' = 0 /\ \E kinds : unwell' = Pushed(kinds, unwell) BY <1>4 DEF SampleTorn
  <2>2. ~Reacts(job[p]) BY <1>0, <1>4 DEF SampleTorn, At, Fits, Reacts
  <2>3. 0 <= unwell' BY <1>0, <2>1 DEF Pushed
  <2>4. QED BY <2>1, <2>2, <2>3 DEF DebounceInv
<1>5. CASE Observe
  BY <1>0, <1>1, <1>5, EndingGoesOn DEF Observe
<1>6. CASE Current
  <2>1. Reacts(job[p]) /\ KeepSamples BY <1>6 DEF Current, At, Reacts
  <2>2. QED BY <2>1 DEF DebounceInv, KeepSamples
<1>7. CASE ChooseTarget
  <2>1. Reacts(job[p]) /\ KeepSamples BY <1>7 DEF ChooseTarget, At, Reacts
  <2>2. QED BY <2>1 DEF DebounceInv, KeepSamples
<1>8. CASE Recording(p) \/ RollingBack(p)
  BY <1>0, <1>1, <1>8, RecordingGoesOn, RollingGoesOn
<1>9. CASE Console
  <2>1. CASE Recording("console") \/ RollingBack("console")
    BY <1>0, <1>1, <2>1, RecordingGoesOn, RollingGoesOn
  <2>2. CASE Reset \/ RestartAll \/ Gate
    BY <1>0, <1>2, <2>2 DEF Reset, RestartAll, Gate, Become, Goto
  <2>3. QED BY <1>9, <2>1, <2>2 DEF Console
<1>10. CASE Stage \/ RecordByHand \/ RollBackByHand \/ Resize \/ RestartSome
  BY <1>0, <1>2, <1>10 DEF Stage, RecordByHand, RollBackByHand, Resize, RestartSome, Become, Goto
<1>11. CASE \E q \in Programs : Dies(q) \/ RestartFails(q)
  BY <1>1, <1>11, RollingGoesOn
<1>12. CASE UNCHANGED vars
  BY <1>2, <1>12 DEF vars, KeepSamples
<1>13. QED
  BY <1>3, <1>4, <1>5, <1>6, <1>7, <1>8, <1>9, <1>10, <1>11, <1>12 DEF Next, Healthd

\* healthd rolls back only after UNHEALTHY_STREAK unhealthy samples in a row,
\* also when a torn window forgot some and when the reaction records the commit
\* it gives up in between (rollback.py:170, rollback.py:243).
THEOREM DebouncedHolds == Spec => []Debounced
<1>1. Init => DebounceInv
  <2>1. Idle.pc = "idle" /\ Idle.next = "idle" BY DEF Idle
  <2> SUFFICES ASSUME Init PROVE DebounceInv OBVIOUS
  <2>2. job["healthd"] = Idle /\ streak = 0 /\ unwell = 0 BY DEF Init, Programs
  <2>3. ~Reacts(job["healthd"]) BY <2>1, <2>2 DEF Reacts
  <2>4. QED BY <2>2, <2>3 DEF DebounceInv
<1>2. ReleaseInv /\ DebounceInv /\ [Next]_vars => DebounceInv'
  BY DebounceStep
<1>3. DebounceInv => Debounced
  BY DEF DebounceInv, Reacts, Debounced
<1>4. QED BY <1>1, <1>2, <1>3, ReleaseHolds, PTL DEF Spec

-----------------------------------------------------------------------------
(* The units and the files.                                                 *)

Restarting == {"restart", "restart all"}

\* A step of p that was not about to restart anything, and leaves files and
\* units alone.
LeavesUnits(p) ==
  /\ job[p].pc \notin Restarting
  /\ \A q \in Programs \ {p} : job'[q] = job[q]
  /\ UNCHANGED <<tree, running>>
  /\ used'.faults = 0 => used.faults = 0

LEMMA RunsKeepFaults ==
  ASSUME ReleaseInv
  PROVE  /\ UNCHANGED used \/ NewRun => used'.faults = used.faults
         /\ Fault => used'.faults # 0
BY DEF ReleaseInv, TypeOK, NewRun, Fault

LEMMA FollowStep ==
  ASSUME ReleaseInv, UnitsFollowTree, [Next]_vars
  PROVE  UnitsFollowTree'
<1>0. "healthd" \in Programs /\ "console" \in Programs /\ job \in [Programs -> Jobs]
  BY JobsTyped DEF Programs, ReleaseInv
<1>1. ASSUME NEW p \in Programs, LeavesUnits(p) PROVE UnitsFollowTree'
  BY <1>1 DEF LeavesUnits, UnitsFollowTree, Restarting
<1>2. ASSUME NEW p \in Programs, NEW pc \in Restarting, job'[p].pc = pc PROVE UnitsFollowTree'
  BY <1>2 DEF UnitsFollowTree, Restarting
<1>3. ASSUME running' = [u \in Units |-> tree], tree' = tree PROVE UnitsFollowTree'
  BY <1>3 DEF UnitsFollowTree
<1>4. ASSUME Fault PROVE UnitsFollowTree'
  BY <1>4, RunsKeepFaults DEF UnitsFollowTree
<1>5. ASSUME NEW p \in Programs, Recording(p) \/ RollingBack(p) PROVE UnitsFollowTree'
  <2>1. CASE Recording(p)
    <3>1. LeavesUnits(p)
      BY <1>0, <2>1, RunsKeepFaults
      DEF Recording, Load, Name, Save, HeadSays, At, Become, KeepGit, LeavesUnits, Restarting
    <3>2. QED BY <1>1, <3>1
  <2>2. CASE Checkout(p)
    <3>1. job'[p].pc = "restart" BY <1>0, <2>2 DEF Checkout, Goto, Jobs
    <3>2. QED BY <1>2, <3>1 DEF Restarting
  <2>3. CASE Restart(p)
    BY <1>3, <2>3 DEF Restart
  <2>4. CASE Recheck(p)
    <3>1. LeavesUnits(p)
      BY <1>0, <2>4, RunsKeepFaults DEF Recheck, At, Become, KeepGit, LeavesUnits, Restarting
    <3>2. QED BY <1>1, <3>1
  <2>5. CASE GitRefuses(p)
    <3>1. LeavesUnits(p)
      BY <1>0, <2>5, RunsKeepFaults DEF GitRefuses, At, Become, KeepGit, LeavesUnits, Restarting
    <3>2. QED BY <1>1, <3>1
  <2>6. QED BY <1>5, <2>1, <2>2, <2>3, <2>4, <2>5 DEF RollingBack
<1>6. CASE Sample \/ Observe \/ Current \/ ChooseTarget
  <2>1. LeavesUnits("healthd")
    BY <1>0, <1>6, RunsKeepFaults
    DEF Sample, Observe, Current, ChooseTarget, HeadSays, At, Become, Goto, KeepGit, LeavesUnits,
        Restarting
  <2>2. QED BY <1>0, <1>1, <2>1
<1>7. CASE Reset
  <2>1. job'["console"].pc = "restart all" BY <1>0, <1>7 DEF Reset, Become, Jobs
  <2>2. QED BY <1>0, <1>2, <2>1 DEF Restarting
<1>8. CASE RestartAll
  BY <1>3, <1>8 DEF RestartAll
<1>9. CASE Gate \/ Stage \/ RecordByHand \/ RollBackByHand
  <2>1. LeavesUnits("console")
    BY <1>0, <1>9, RunsKeepFaults
    DEF Gate, Stage, RecordByHand, RollBackByHand, At, Become, KeepGit, LeavesUnits, Restarting
  <2>2. QED BY <1>0, <1>1, <2>1
<1>10. CASE Resize
  <2>1. PICK done \in SUBSET WorkerUnits :
           running' = [u \in Units |-> IF u \in done THEN tree ELSE running[u]]
    BY <1>10 DEF Resize
  <2>2. UNCHANGED <<tree, job, used>> BY <1>10 DEF Resize
  <2>3. QED BY <2>1, <2>2 DEF UnitsFollowTree
<1>11. CASE SampleTorn \/ RestartSome \/ \E p \in Programs : Dies(p) \/ RestartFails(p)
  BY <1>4, <1>11 DEF SampleTorn, RestartSome, Dies, RestartFails
<1>12. CASE UNCHANGED vars
  BY <1>12 DEF vars, UnitsFollowTree
<1>13. QED
  BY <1>0, <1>5, <1>6, <1>7, <1>8, <1>9, <1>10, <1>11, <1>12 DEF Next, Healthd, Console

\* Without faults every unit runs the checked out files whenever no program is
\* between changing them and restarting, however a rollback of healthd and the
\* deployments overlap (rollback.py:195-201, cd/deploy.sh:114-121).
THEOREM UnitsFollowTreeHolds == Spec => []UnitsFollowTree
<1>1. Init => UnitsFollowTree
  BY DEF Init, UnitsFollowTree
<1>2. ReleaseInv /\ UnitsFollowTree /\ [Next]_vars => UnitsFollowTree'
  BY FollowStep
<1>3. QED BY <1>1, <1>2, ReleaseHolds, PTL DEF Spec
=============================================================================
