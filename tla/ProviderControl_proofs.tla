----------------------- MODULE ProviderControl_proofs -----------------------
(***************************************************************************)
(* Theorems of ProviderControl.tla for any number of operators, workers    *)
(* and incidents.                                                          *)
(*                                                                         *)
(* ActiveMeansContained needs to know that the incident a command works on *)
(* has begun, so that a note or a close which comes late never starts a    *)
(* trail.  NoCallWithExposed needs the order of the generations: every     *)
(* revoked one is below the current one, and a call saw one above all that *)
(* were revoked when it began.                                             *)
(***************************************************************************)
EXTENDS ProviderControl, FiniteSetTheorems, TLAPS

Versions == Nat \ {0}
Controls == [enabled : BOOLEAN, version : Versions, token : {"active", "revoked"},
             status : {"none", "contained", "closed"}, active : Incidents \cup {NoIncident}]
Commands == [pc : {"idle", "begin", "check", "append", "close"},
             incident : Incidents \cup {NoIncident}, notes : 0..2]
Calls    == [pc : {"idle", "seen"} \cup Answers, seen : Nat, known : SUBSET Versions]

OperatorsKnow ==
  \A o \in Operators : op[o].pc \in {"check", "append", "close"}
     => op[o].incident \in Incidents /\ Begun(op[o].incident)

RevokedAreOlder == \A v \in exposed : v < ctl.version

CallSound(w) ==
  /\ call[w].seen # 0 => \A v \in call[w].known : v < call[w].seen
  /\ call[w].pc = "answered" => deployed[w] = call[w].seen /\ call[w].seen # 0

CallsSound == \A w \in Workers : CallSound(w)

ControlInv == TypeOK /\ ActiveMeansContained /\ OperatorsKnow /\ RevokedAreOlder /\ CallsSound

-----------------------------------------------------------------------------

LEMMA InitControl == Init => ControlInv
<1> SUFFICES ASSUME Init PROVE ControlInv
  OBVIOUS
<1>1. TypeOK
  BY DEF Init, TypeOK, Resting, NoCall, Entries, Answers
<1>2. ActiveMeansContained
  BY DEF Init, ActiveMeansContained
<1>3. OperatorsKnow
  BY DEF Init, OperatorsKnow, Resting
<1>4. RevokedAreOlder /\ CallsSound
  BY DEF Init, RevokedAreOlder, CallsSound, CallSound, NoCall
<1> QED
  BY <1>1, <1>2, <1>3, <1>4 DEF ControlInv

(* The steps that leave the control row, the trail and the history alone    *)
(* and move one operator to a command on a begun incident, or to rest.      *)
LEMMA OperatorMoves ==
  ASSUME ControlInv, NEW o \in Operators, NEW rec \in Commands,
         op' = [op EXCEPT ![o] = rec],
         rec.pc \in {"check", "append", "close"}
           => rec.incident \in Incidents /\ Begun(rec.incident),
         UNCHANGED <<ctl, trail, exposed>>, KeepWorkers
  PROVE  ControlInv'
<1>1. TypeOK'
  BY DEF ControlInv, TypeOK, KeepWorkers, Commands
<1>2. ActiveMeansContained'
  BY DEF ControlInv, ActiveMeansContained, Begun, Closed
<1>3. OperatorsKnow'
  BY DEF ControlInv, OperatorsKnow, Begun, TypeOK
<1>4. RevokedAreOlder' /\ CallsSound'
  BY DEF ControlInv, RevokedAreOlder, CallsSound, CallSound, KeepWorkers
<1> QED
  BY <1>1, <1>2, <1>3, <1>4 DEF ControlInv

LEMMA QuietOperatorSteps ==
  ASSUME ControlInv, NEW o \in Operators,
         StartRead(o) \/ RecordStart(o) \/ RecordCheck(o) \/ CloseRead(o) \/ Stop(o)
  PROVE  ControlInv'
<1>0. TypeOK
  BY DEF ControlInv
<1>1. CASE StartRead(o)
  <2> DEFINE rec == [pc |-> "begin", incident |-> NoIncident, notes |-> 0]
  <2>1. rec \in Commands /\ rec.pc = "begin"
    BY DEF Commands
  <2>2. op' = [op EXCEPT ![o] = rec] /\ UNCHANGED <<ctl, trail, exposed>> /\ KeepWorkers
    BY <1>1 DEF StartRead, Run, Resting
  <2> QED
    BY <2>1, <2>2, OperatorMoves
<1>2. CASE RecordStart(o)
  <2>1. PICK i \in Incidents :
           /\ Begun(i)
           /\ op' = [op EXCEPT ![o] = [pc |-> "check", incident |-> i, notes |-> 1]]
    BY <1>2 DEF RecordStart, Run
  <2> DEFINE rec == [pc |-> "check", incident |-> i, notes |-> 1]
  <2>2. rec \in Commands /\ rec.incident = i
    BY DEF Commands
  <2>3. UNCHANGED <<ctl, trail, exposed>> /\ KeepWorkers
    BY <1>2 DEF RecordStart
  <2> QED
    BY <2>1, <2>2, <2>3, OperatorMoves
<1>3. CASE RecordCheck(o)
  <2> DEFINE rec == op'[o]
  <2>0. op[o] \in Commands /\ op[o].pc = "check" /\ Resting \in Commands
    BY <1>0, <1>3 DEF TypeOK, Commands, RecordCheck, Run, Resting
  <2>1. op' = [op EXCEPT ![o] = rec]
    BY <1>0, <1>3 DEF TypeOK, RecordCheck, Run
  <2>2. rec = [op[o] EXCEPT !.pc = "append"] \/ rec = Resting
    BY <1>0, <1>3 DEF TypeOK, RecordCheck, Run
  <2>3. rec \in Commands
    BY <2>0, <2>2 DEF Commands
  <2>4. op[o].incident \in Incidents /\ Begun(op[o].incident)
    BY <2>0 DEF ControlInv, OperatorsKnow
  <2>5. rec.incident = op[o].incident \/ rec.pc = "idle"
    BY <2>0, <2>2 DEF Commands, Resting
  <2>6. UNCHANGED <<ctl, trail, exposed>> /\ KeepWorkers
    BY <1>3 DEF RecordCheck
  <2> HIDE DEF rec
  <2> QED
    BY <2>1, <2>3, <2>4, <2>5, <2>6, OperatorMoves
<1>4. CASE CloseRead(o)
  <2>1. PICK i \in Incidents :
           /\ ctl.active = i
           /\ op' = [op EXCEPT ![o] = [pc |-> "close", incident |-> i, notes |-> 0]]
    BY <1>4 DEF CloseRead, Run, Resting
  <2> DEFINE rec == [pc |-> "close", incident |-> i, notes |-> 0]
  <2>2. rec \in Commands /\ rec.incident = i
    BY DEF Commands
  <2>3. Begun(i)
    BY <2>1, IncidentAssumption DEF ControlInv, ActiveMeansContained
  <2>4. UNCHANGED <<ctl, trail, exposed>> /\ KeepWorkers
    BY <1>4 DEF CloseRead
  <2> QED
    BY <2>1, <2>2, <2>3, <2>4, OperatorMoves
<1>5. CASE Stop(o)
  <2>1. op' = [op EXCEPT ![o] = Resting] /\ UNCHANGED <<ctl, trail, exposed>> /\ KeepWorkers
    BY <1>5 DEF Stop
  <2>2. Resting \in Commands /\ Resting.pc = "idle"
    BY DEF Resting, Commands
  <2> QED
    BY <2>1, <2>2, OperatorMoves
<1> QED
  BY <1>1, <1>2, <1>3, <1>4, <1>5

-----------------------------------------------------------------------------
(* The three transactions.                                                  *)

LEMMA StartCommitStep ==
  ASSUME ControlInv, NEW o \in Operators, StartCommit(o)
  PROVE  ControlInv'
<1>0. TypeOK /\ RevokedAreOlder /\ CallsSound /\ OperatorsKnow
  BY DEF ControlInv
<1>1. PICK i \in Incidents :
         /\ ~Begun(i)
         /\ op' = [op EXCEPT ![o] = [pc |-> "check", incident |-> i, notes |-> 2]]
         /\ trail' = [trail EXCEPT ![i] = <<"contained">>]
         /\ ctl' = [enabled |-> FALSE, version |-> ctl.version + 1, token |-> "revoked",
                    status |-> "contained", active |-> i]
  BY DEF StartCommit, Run, Contained
<1>2. exposed' = exposed \cup {ctl.version} /\ UNCHANGED <<deployed, call>>
  BY DEF StartCommit, KeepWorkers
<1>3. ctl.version \in Nat \ {0} /\ ctl.version + 1 \in Nat \ {0}
  BY <1>0 DEF TypeOK
<1>4. TypeOK'
  <2>1. ctl' \in Controls
    BY <1>1, <1>3 DEF Controls, Versions
  <2>2. trail' \in [Incidents -> Seq(Entries)]
    BY <1>0, <1>1 DEF TypeOK, Entries
  <2>3. [pc |-> "check", incident |-> i, notes |-> 2] \in Commands
    BY DEF Commands
  <2>4. op' \in [Operators -> Commands]
    BY <1>0, <1>1, <2>3 DEF TypeOK, Commands
  <2>5. exposed' \in SUBSET (Nat \ {0})
    BY <1>0, <1>2, <1>3 DEF TypeOK
  <2> QED
    BY <1>0, <1>2, <2>1, <2>2, <2>4, <2>5 DEF TypeOK, Controls, Commands, Versions
<1>5. trail'[i] = <<"contained">>
  BY <1>0, <1>1 DEF TypeOK
<1>6. ActiveMeansContained'
  <2>1. Begun(i)' /\ ~Closed(i)'
    BY <1>5 DEF Begun, Closed
  <2> QED
    BY <1>1, <2>1, IncidentAssumption DEF ActiveMeansContained
<1>7. OperatorsKnow'
  <2>1. \A j \in Incidents : Begun(j) => Begun(j)'
    BY <1>0, <1>1, <1>5 DEF TypeOK, Begun
  <2>2. op'[o].incident = i /\ Begun(i)'
    BY <1>0, <1>1, <1>5 DEF TypeOK, Begun
  <2>3. \A q \in Operators : q # o => op'[q] = op[q]
    BY <1>0, <1>1 DEF TypeOK
  <2> QED
    BY <1>0, <2>1, <2>2, <2>3 DEF OperatorsKnow
<1>8. RevokedAreOlder'
  BY <1>0, <1>1, <1>2, <1>3 DEF RevokedAreOlder, TypeOK
<1>9. CallsSound'
  BY <1>0, <1>2 DEF CallsSound, CallSound
<1> QED
  BY <1>4, <1>6, <1>7, <1>8, <1>9 DEF ControlInv

LEMMA RecordCommitStep ==
  ASSUME ControlInv, NEW o \in Operators, RecordCommit(o)
  PROVE  ControlInv'
<1> DEFINE i == op[o].incident
           rec == op'[o]
<1>0. TypeOK /\ RevokedAreOlder /\ CallsSound /\ OperatorsKnow /\ ActiveMeansContained
  BY DEF ControlInv
<1>1. i \in Incidents /\ Begun(i) /\ op[o] \in Commands
  BY <1>0 DEF RecordCommit, OperatorsKnow, TypeOK, Commands
<1>2. /\ trail' = [trail EXCEPT ![i] = Append(@, "note")]
      /\ UNCHANGED <<ctl, exposed, deployed, call>>
  BY DEF RecordCommit, KeepWorkers
<1>3. op' = [op EXCEPT ![o] = rec]
      /\ \/ rec = [op[o] EXCEPT !.pc = "check", !.notes = @ - 1] /\ op[o].notes > 1
         \/ rec = Resting
  BY <1>0 DEF RecordCommit, Run, TypeOK
<1>4. rec \in Commands /\ (rec.incident = i \/ rec.pc = "idle")
  <2>1. CASE rec = Resting
    BY <2>1 DEF Commands, Resting
  <2>2. CASE rec = [op[o] EXCEPT !.pc = "check", !.notes = @ - 1] /\ op[o].notes > 1
    <3>1. op[o].notes - 1 \in 0..2
      BY <1>1, <2>2 DEF Commands
    <3>2. PICK c \in Commands : c = op[o]
      BY <1>1
    <3>3. PICK n \in 0..2 : n = op[o].notes - 1
      BY <3>1
    <3>4. rec = [c EXCEPT !.pc = "check", !.notes = n] /\ c.incident = i
      BY <2>2, <3>2, <3>3
    <3> HIDE DEF i, rec
    <3> QED
      BY <3>2, <3>3, <3>4 DEF Commands
  <2> QED
    BY <1>3, <2>1, <2>2
<1>5. trail \in [Incidents -> Seq(Entries)] /\ "note" \in Entries
  BY <1>0 DEF TypeOK, Entries
<1>6. /\ trail' \in [Incidents -> Seq(Entries)]
      /\ trail'[i] = Append(trail[i], "note")
      /\ \A j \in Incidents : j # i => trail'[j] = trail[j]
  BY <1>1, <1>2, <1>5
<1>7. \A j \in Incidents : (Begun(j) => Begun(j)') /\ (Closed(j)' => Closed(j))
  <2> SUFFICES ASSUME NEW j \in Incidents
               PROVE  (Begun(j) => Begun(j)') /\ (Closed(j)' => Closed(j))
    OBVIOUS
  <2>1. CASE j # i
    BY <1>6, <2>1 DEF Begun, Closed
  <2>2. CASE j = i
    <3>1. trail[j] \in Seq(Entries) /\ trail'[j] = Append(trail[j], "note")
      BY <1>5, <1>6, <2>2
    <3>2. /\ Len(trail'[j]) = Len(trail[j]) + 1 /\ Len(trail[j]) \in Nat
          /\ trail'[j][Len(trail[j]) + 1] = "note"
          /\ \A n \in 1..Len(trail[j]) : trail'[j][n] = trail[j][n]
      BY <3>1
    <3> QED
      BY <3>2 DEF Begun, Closed
  <2> QED
    BY <2>1, <2>2
<1>8. TypeOK'
  <2>1. op' \in [Operators -> Commands]
    BY <1>0, <1>3, <1>4 DEF TypeOK, Commands
  <2> QED
    BY <1>0, <1>2, <1>6, <2>1 DEF TypeOK, Commands
<1>9. ActiveMeansContained'
  <2>1. ctl.active # NoIncident => ctl.active \in Incidents
    BY <1>0 DEF TypeOK
  <2> QED
    BY <1>0, <1>2, <1>7, <2>1 DEF ActiveMeansContained, Begun, Closed
<1>10. OperatorsKnow'
  <2>1. op'[o] = rec /\ \A q \in Operators : q # o => op'[q] = op[q]
    BY <1>0, <1>3 DEF TypeOK
  <2>2. PICK j \in Incidents : j = i
    BY <1>1
  <2>3. Begun(j)'
    BY <1>1, <1>7, <2>2
  <2>4. op'[o].incident = j \/ op'[o].pc = "idle"
    BY <1>4, <2>2
  <2> HIDE DEF i, rec
  <2>5. ASSUME NEW q \in Operators, op'[q].pc \in {"check", "append", "close"}
        PROVE  op'[q].incident \in Incidents /\ Begun(op[q].incident)'
    <3>1. CASE q = o
      BY <2>2, <2>3, <2>4, <2>5, <3>1 DEF Begun
    <3>2. CASE q # o
      BY <1>0, <1>7, <2>1, <2>5, <3>2 DEF OperatorsKnow, Begun
    <3> QED
      BY <3>1, <3>2
  <2> QED
    BY <2>5 DEF OperatorsKnow
<1>11. RevokedAreOlder' /\ CallsSound'
  BY <1>0, <1>2 DEF RevokedAreOlder, CallsSound, CallSound
<1> QED
  BY <1>8, <1>9, <1>10, <1>11 DEF ControlInv

LEMMA CloseCommitStep ==
  ASSUME ControlInv, NEW o \in Operators, CloseCommit(o)
  PROVE  ControlInv'
<1> DEFINE i == op[o].incident
<1>0. TypeOK /\ RevokedAreOlder /\ CallsSound /\ OperatorsKnow
  BY DEF ControlInv
<1>1. i \in Incidents /\ Begun(i)
  BY <1>0 DEF CloseCommit, OperatorsKnow
<1>2. /\ trail' = [trail EXCEPT ![i] = Append(@, "closed")]
      /\ op' = [op EXCEPT ![o] = Resting]
      /\ UNCHANGED <<exposed, deployed, call>>
  BY DEF CloseCommit, KeepWorkers, Run
<1>3. /\ ctl' \in Controls /\ ctl'.version = ctl.version
      /\ ctl'.active = NoIncident /\ ctl'.enabled /\ ctl'.token = "active"
  BY <1>0 DEF CloseCommit, Resumed, TypeOK, Controls, Versions
<1>4. trail \in [Incidents -> Seq(Entries)] /\ "closed" \in Entries
  BY <1>0 DEF TypeOK, Entries
<1>5. /\ trail' \in [Incidents -> Seq(Entries)]
      /\ trail'[i] = Append(trail[i], "closed")
      /\ \A j \in Incidents : j # i => trail'[j] = trail[j]
  BY <1>1, <1>2, <1>4
<1>6. \A j \in Incidents : Begun(j) => Begun(j)'
  BY <1>1, <1>4, <1>5 DEF Begun
<1>7. TypeOK'
  <2>1. op' \in [Operators -> Commands]
    BY <1>0, <1>2 DEF TypeOK, Commands, Resting
  <2> QED
    BY <1>0, <1>2, <1>3, <1>5, <2>1 DEF TypeOK, Commands, Controls, Versions
<1>8. ActiveMeansContained'
  BY <1>3 DEF ActiveMeansContained
<1>9. OperatorsKnow'
  <2>1. op'[o].pc = "idle" /\ \A q \in Operators : q # o => op'[q] = op[q]
    BY <1>0, <1>2 DEF TypeOK, Resting
  <2> QED
    BY <1>0, <1>6, <2>1 DEF OperatorsKnow
<1>10. RevokedAreOlder' /\ CallsSound'
  BY <1>0, <1>2, <1>3 DEF RevokedAreOlder, CallsSound, CallSound
<1> QED
  BY <1>7, <1>8, <1>9, <1>10 DEF ControlInv

-----------------------------------------------------------------------------
(* The workers.                                                             *)

LEMMA WorkerSteps ==
  ASSUME ControlInv, NEW w \in Workers,
         CallRead(w) \/ CallAnswer(w) \/ CallReturn(w) \/ Deploy(w)
  PROVE  ControlInv'
<1>0. TypeOK /\ RevokedAreOlder /\ CallsSound /\ OperatorsKnow /\ ActiveMeansContained
  BY DEF ControlInv
<1>1. UNCHANGED <<ctl, trail, op, exposed>>
  BY DEF CallRead, CallAnswer, CallReturn, Deploy
<1>2. call[w] \in Calls /\ NoCall \in Calls /\ ctl.version \in Nat /\ exposed \in SUBSET Versions
  BY <1>0 DEF TypeOK, Calls, NoCall, Versions
<1>3. call' = [call EXCEPT ![w] = call'[w]]
  BY <1>0 DEF TypeOK, CallRead, CallAnswer, CallReturn, Deploy
<1>4. call'[w] \in Calls
  <2>1. CASE CallRead(w)
    BY <1>0, <1>2, <2>1 DEF TypeOK, CallRead, Calls
  <2>2. CASE CallAnswer(w)
    <3>1. PICK a \in Answers : call' = [call EXCEPT ![w].pc = a]
      BY <2>2 DEF CallAnswer, Answers
    <3> QED
      BY <1>0, <1>2, <3>1 DEF TypeOK, Calls
  <2>3. CASE CallReturn(w) \/ Deploy(w)
    BY <1>0, <1>2, <2>3 DEF TypeOK, CallReturn, Deploy
  <2> QED
    BY <2>1, <2>2, <2>3
<1>5. deployed' \in [Workers -> Nat]
  BY <1>0, <1>2 DEF TypeOK, CallRead, CallAnswer, CallReturn, Deploy
<1>6. TypeOK'
  <2>1. call' \in [Workers -> Calls]
    BY <1>0, <1>3, <1>4 DEF TypeOK, Calls, Versions
  <2> QED
    BY <1>0, <1>1, <1>5, <2>1 DEF TypeOK, Calls, Versions
<1>7. CallSound(w)'
  <2>1. CASE CallRead(w)
    <3>1. /\ call'[w].pc = "seen" /\ call'[w].known = exposed
          /\ call'[w].seen = 0 \/ call'[w].seen = ctl.version
      BY <1>0, <2>1 DEF TypeOK, CallRead
    <3> QED
      BY <1>0, <3>1 DEF CallSound, RevokedAreOlder
  <2>2. CASE CallAnswer(w)
    <3>1. /\ call'[w].seen = call[w].seen /\ call'[w].known = call[w].known
          /\ deployed' = deployed
          /\ call'[w].pc = "answered" => deployed[w] = call[w].seen /\ call[w].seen # 0
      BY <1>0, <1>2, <2>2 DEF TypeOK, CallAnswer, Calls
    <3> QED
      BY <1>0, <3>1 DEF CallsSound, CallSound
  <2>3. CASE CallReturn(w) \/ Deploy(w)
    <3>1. call'[w] = NoCall
      BY <1>0, <2>3 DEF TypeOK, CallReturn, Deploy
    <3> QED
      BY <3>1 DEF CallSound, NoCall
  <2> QED
    BY <2>1, <2>2, <2>3
<1>8. \A x \in Workers : x # w => call'[x] = call[x] /\ deployed'[x] = deployed[x]
  BY <1>0 DEF TypeOK, CallRead, CallAnswer, CallReturn, Deploy
<1>9. CallsSound'
  BY <1>0, <1>7, <1>8 DEF CallsSound, CallSound
<1>10. ActiveMeansContained' /\ OperatorsKnow' /\ RevokedAreOlder'
  BY <1>0, <1>1 DEF ActiveMeansContained, OperatorsKnow, RevokedAreOlder, Begun, Closed
<1> QED
  BY <1>6, <1>9, <1>10 DEF ControlInv

-----------------------------------------------------------------------------

LEMMA StepControl == ControlInv /\ [Next]_providerVars => ControlInv'
<1> SUFFICES ASSUME ControlInv, [Next]_providerVars PROVE ControlInv'
  OBVIOUS
<1>1. CASE UNCHANGED providerVars
  BY <1>1 DEF providerVars, ControlInv, TypeOK, ActiveMeansContained, OperatorsKnow,
              RevokedAreOlder, CallsSound, CallSound, Begun, Closed
<1>2. ASSUME NEW o \in Operators,
             \/ StartRead(o) \/ RecordStart(o) \/ RecordCheck(o) \/ CloseRead(o) \/ Stop(o)
             \/ StartCommit(o) \/ RecordCommit(o) \/ CloseCommit(o)
      PROVE  ControlInv'
  BY <1>2, QuietOperatorSteps, StartCommitStep, RecordCommitStep, CloseCommitStep
<1>3. ASSUME NEW w \in Workers, CallRead(w) \/ CallAnswer(w) \/ CallReturn(w) \/ Deploy(w)
      PROVE  ControlInv'
  BY <1>3, WorkerSteps
<1> QED
  BY <1>1, <1>2, <1>3 DEF Next

(* The inductive invariant of the control plane.                            *)
THEOREM ControlHolds == Spec => []ControlInv
BY InitControl, StepControl, PTL DEF Spec

(* Type correctness of the control row, the trails and the calls.           *)
THEOREM ControlTypes == Spec => []TypeOK
<1>1. ControlInv => TypeOK
  BY DEF ControlInv
<1> QED
  BY <1>1, ControlHolds, PTL

(* Whatever commands overlap, an active incident goes with a paused         *)
(* provider and an open trail, and no incident with a running provider.     *)
THEOREM Containment == Spec => []ActiveMeansContained
<1>1. ControlInv => ActiveMeansContained
  BY DEF ControlInv
<1> QED
  BY <1>1, ControlHolds, PTL

(* A call begun after a credential was revoked never uses it, for any       *)
(* number of overlapping incidents and of workers restarted at any time.    *)
THEOREM RevokedStaysRevoked == Spec => []NoCallWithExposed
<1>1. ControlInv => NoCallWithExposed
  BY DEF ControlInv, NoCallWithExposed, CallsSound, CallSound, TypeOK
<1> QED
  BY <1>1, ControlHolds, PTL

-----------------------------------------------------------------------------
(* The trail beside the control row.                                        *)

Grow(i, e) == trail' = [trail EXCEPT ![i] = Append(@, e)]

Begins(i) ==
  /\ ~Begun(i) /\ Grow(i, "contained")
  /\ ctl' = Contained(i) /\ exposed' = exposed \cup {ctl.version}
Notes(i)  == Begun(i) /\ Grow(i, "note") /\ UNCHANGED <<ctl, exposed>>
Closes(i) == Begun(i) /\ Grow(i, "closed") /\ ctl' = Resumed /\ UNCHANGED exposed

LEMMA TrailSteps ==
  ASSUME ControlInv, [Next]_providerVars
  PROVE  \/ UNCHANGED <<ctl, trail, exposed>>
         \/ \E i \in Incidents : Begins(i) \/ Notes(i) \/ Closes(i)
<1>0. TypeOK /\ OperatorsKnow
  BY DEF ControlInv
<1>1. CASE UNCHANGED providerVars
  BY <1>1 DEF providerVars
<1>2. ASSUME NEW o \in Operators, StartCommit(o)
      PROVE  \E i \in Incidents : Begins(i)
  <2>1. PICK i \in Incidents :
           /\ ~Begun(i) /\ trail' = [trail EXCEPT ![i] = <<"contained">>]
           /\ ctl' = Contained(i) /\ exposed' = exposed \cup {ctl.version}
    BY <1>2 DEF StartCommit
  <2>2. trail[i] = << >> /\ Append(<< >>, "contained") = <<"contained">>
    BY <2>1 DEF Begun
  <2>3. Grow(i, "contained")
    BY <2>1, <2>2 DEF Grow
  <2> QED
    BY <2>1, <2>3 DEF Begins
<1>3. ASSUME NEW o \in Operators, RecordCommit(o) \/ CloseCommit(o)
      PROVE  \E i \in Incidents : Notes(i) \/ Closes(i)
  <2> DEFINE i == op[o].incident
  <2>1. op[o].pc \in {"append", "close"}
    BY <1>3 DEF RecordCommit, CloseCommit
  <2>2. i \in Incidents /\ Begun(i)
    BY <1>0, <2>1 DEF OperatorsKnow
  <2>3. CASE RecordCommit(o)
    BY <2>2, <2>3 DEF RecordCommit, Notes, Grow
  <2>4. CASE CloseCommit(o)
    BY <2>2, <2>4 DEF CloseCommit, Closes, Grow
  <2> QED
    BY <1>3, <2>3, <2>4
<1>4. ASSUME NEW o \in Operators,
             StartRead(o) \/ RecordStart(o) \/ RecordCheck(o) \/ CloseRead(o) \/ Stop(o)
      PROVE  UNCHANGED <<ctl, trail, exposed>>
  BY <1>4 DEF StartRead, RecordStart, RecordCheck, CloseRead, Stop
<1>5. ASSUME NEW w \in Workers, CallRead(w) \/ CallAnswer(w) \/ CallReturn(w) \/ Deploy(w)
      PROVE  UNCHANGED <<ctl, trail, exposed>>
  BY <1>5 DEF CallRead, CallAnswer, CallReturn, Deploy
<1> QED
  BY <1>1, <1>2, <1>3, <1>4, <1>5 DEF Next

LEMMA GrowFacts ==
  ASSUME TypeOK, NEW i \in Incidents, NEW e \in Entries, Grow(i, e)
  PROVE  /\ trail[i] \in Seq(Entries) /\ trail'[i] = Append(trail[i], e)
         /\ \A j \in Incidents \ {i} : trail'[j] = trail[j]
BY DEF TypeOK, Grow

LEMMA BegunFacts ==
  ASSUME TypeOK, NEW i \in Incidents
  PROVE  /\ trail[i] \in Seq(Entries) /\ Len(trail[i]) \in Nat
         /\ Begun(i) <=> Len(trail[i]) >= 1
BY DEF TypeOK, Begun

\* The control row and the trail never tell different stories: the provider is
\* paused, and its credential revoked, only in the transaction that opens a trail
\* of its own, it comes back only in one that closes a trail, and what is in a trail
\* is never changed (provider_control.py:88-196).
ControlFollowsTrail ==
  [][/\ \A i \in Incidents : \/ trail'[i] = trail[i]
                             \/ \E e \in Entries : trail'[i] = Append(trail[i], e)
     /\ ctl' # ctl => \E i \in Incidents : Begins(i) \/ Closes(i)]_providerVars

\* Whatever commands overlap, are late, or stop halfway.
THEOREM ControlIsAudited == Spec => ControlFollowsTrail
<1>1. ControlInv /\ [Next]_providerVars
      => [/\ \A i \in Incidents : \/ trail'[i] = trail[i]
                                  \/ \E e \in Entries : trail'[i] = Append(trail[i], e)
          /\ ctl' # ctl => \E i \in Incidents : Begins(i) \/ Closes(i)]_providerVars
  <2> SUFFICES ASSUME ControlInv, [Next]_providerVars
               PROVE  /\ \A i \in Incidents : \/ trail'[i] = trail[i]
                                              \/ \E e \in Entries : trail'[i] = Append(trail[i], e)
                      /\ ctl' # ctl => \E i \in Incidents : Begins(i) \/ Closes(i)
    OBVIOUS
  <2>1. CASE UNCHANGED <<ctl, trail, exposed>>
    BY <2>1
  <2>2. ASSUME NEW i \in Incidents, Begins(i) \/ Notes(i) \/ Closes(i)
        PROVE  \A j \in Incidents : \/ trail'[j] = trail[j]
                                    \/ \E e \in Entries : trail'[j] = Append(trail[j], e)
    <3>1. PICK e \in Entries : Grow(i, e)
      BY <2>2 DEF Begins, Notes, Closes, Entries
    <3> QED
      BY <3>1, GrowFacts DEF ControlInv
  <2>3. ctl' # ctl => \E i \in Incidents : Begins(i) \/ Closes(i)
    BY TrailSteps DEF Notes
  <2> QED
    BY <2>1, <2>2, <2>3, TrailSteps
<1> QED
  BY <1>1, ControlHolds, PTL DEF Spec, ControlFollowsTrail

\* A trail begins with the entry that contained its incident and has no second one:
\* a note or a closing entry that comes late never opens a trail, and no incident is
\* begun twice (provider_control.py:88-196).
TrailsAreWhole ==
  \A i \in Incidents : Begun(i) =>
    /\ trail[i][1] = "contained"
    /\ \A n \in 2..Len(trail[i]) : trail[i][n] # "contained"

LEMMA TrailsStayWhole ==
  ASSUME ControlInv, TrailsAreWhole, [Next]_providerVars
  PROVE  TrailsAreWhole'
<1>1. CASE trail' = trail
  BY <1>1 DEF TrailsAreWhole, Begun
<1>2. ASSUME NEW i \in Incidents, Begins(i) \/ Notes(i) \/ Closes(i)
      PROVE  TrailsAreWhole'
  <2>1. PICK e \in Entries : /\ Grow(i, e)
                             /\ \/ e = "contained" /\ ~Begun(i)
                                \/ e # "contained" /\ Begun(i)
    BY <1>2 DEF Begins, Notes, Closes, Entries
  <2>2. /\ trail[i] \in Seq(Entries) /\ trail'[i] = Append(trail[i], e)
        /\ \A j \in Incidents \ {i} : trail'[j] = trail[j]
    BY <2>1, GrowFacts DEF ControlInv
  <2>3. Begun(i) <=> Len(trail[i]) >= 1
    BY BegunFacts DEF ControlInv
  <2>4. /\ trail'[i][1] = "contained"
        /\ \A n \in 2..Len(trail'[i]) : trail'[i][n] # "contained"
    <3>1. Len(trail'[i]) = Len(trail[i]) + 1 /\ trail'[i][Len(trail[i]) + 1] = e
          /\ (\A n \in 1..Len(trail[i]) : trail'[i][n] = trail[i][n]) /\ Len(trail[i]) \in Nat
      BY <2>2
    <3>2. CASE ~Begun(i)
      BY <2>1, <2>3, <3>1, <3>2
    <3>3. CASE Begun(i)
      <4>1. trail[i][1] = "contained" /\ \A n \in 2..Len(trail[i]) : trail[i][n] # "contained"
        BY <3>3 DEF TrailsAreWhole
      <4> QED
        BY <2>1, <2>3, <3>1, <3>3, <4>1
    <3> QED
      BY <3>2, <3>3
  <2> QED
    BY <2>2, <2>4 DEF TrailsAreWhole, Begun
<1> QED
  BY <1>1, <1>2, TrailSteps

THEOREM TrailsWhole == Spec => []TrailsAreWhole
<1>1. Init => TrailsAreWhole
  BY DEF Init, TrailsAreWhole, Begun
<1>2. ControlInv /\ TrailsAreWhole /\ [Next]_providerVars => TrailsAreWhole'
  BY TrailsStayWhole
<1> QED
  BY <1>1, <1>2, ControlHolds, PTL DEF Spec

AllBegun == {i \in Incidents : Begun(i)}

\* Every incident spends one generation of the credential of its own: all below the
\* current one are revoked, as many as incidents were begun, so two commands that both
\* saw no active incident do not revoke the same one (provider_control.py:96-143).
GenerationsAreSpent ==
  /\ exposed = 1..(ctl.version - 1)
  /\ IsFiniteSet(AllBegun) /\ Cardinality(AllBegun) = ctl.version - 1

LEMMA SpendingStep ==
  ASSUME ControlInv, GenerationsAreSpent, [Next]_providerVars
  PROVE  GenerationsAreSpent'
<1>0. TypeOK /\ ctl.version \in Nat /\ ctl.version >= 1
  BY DEF ControlInv, TypeOK
<1>1. CASE UNCHANGED <<ctl, trail, exposed>>
  <2>1. AllBegun' = AllBegun
    BY <1>1 DEF AllBegun, Begun
  <2> QED
    BY <1>1, <2>1 DEF GenerationsAreSpent
<1>2. ASSUME NEW i \in Incidents, Begins(i)
      PROVE  GenerationsAreSpent'
  <2>1. Grow(i, "contained") /\ "contained" \in Entries /\ ~Begun(i)
    BY <1>2 DEF Begins, Entries
  <2>2. /\ trail[i] \in Seq(Entries) /\ trail'[i] = Append(trail[i], "contained")
        /\ \A j \in Incidents \ {i} : trail'[j] = trail[j]
    BY <1>0, <2>1, GrowFacts
  <2>3. Begun(i)'
    BY <2>2 DEF Begun
  <2>4. AllBegun' = AllBegun \cup {i} /\ i \notin AllBegun
    BY <2>1, <2>2, <2>3 DEF AllBegun, Begun
  <2>5. IsFiniteSet(AllBegun') /\ Cardinality(AllBegun') = ctl.version
    <3>1. IsFiniteSet(AllBegun) /\ Cardinality(AllBegun) = ctl.version - 1
      BY DEF GenerationsAreSpent
    <3>2. /\ IsFiniteSet(AllBegun \cup {i})
          /\ Cardinality(AllBegun \cup {i}) = Cardinality(AllBegun) + 1
      BY <2>4, <3>1, FS_AddElement
    <3> QED
      BY <1>0, <2>4, <3>1, <3>2
  <2>6. ctl'.version = ctl.version + 1 /\ exposed' = exposed \cup {ctl.version}
    BY <1>2 DEF Begins, Contained
  <2>7. exposed' = 1..(ctl'.version - 1) /\ ctl'.version - 1 = ctl.version
    BY <1>0, <2>6 DEF GenerationsAreSpent
  <2> QED
    BY <2>5, <2>7 DEF GenerationsAreSpent
<1>3. ASSUME NEW i \in Incidents, Notes(i) \/ Closes(i)
      PROVE  GenerationsAreSpent'
  <2>1. PICK e \in Entries : Grow(i, e) /\ Begun(i)
    BY <1>3 DEF Notes, Closes, Entries
  <2>2. /\ trail[i] \in Seq(Entries) /\ trail'[i] = Append(trail[i], e)
        /\ \A j \in Incidents \ {i} : trail'[j] = trail[j]
    BY <1>0, <2>1, GrowFacts
  <2>3. Begun(i)'
    BY <2>2 DEF Begun
  <2>4. AllBegun' = AllBegun
    BY <2>1, <2>2, <2>3 DEF AllBegun, Begun
  <2>5. ctl'.version = ctl.version /\ exposed' = exposed
    BY <1>0, <1>3 DEF Notes, Closes, Resumed, TypeOK
  <2> QED
    BY <2>4, <2>5 DEF GenerationsAreSpent
<1> QED
  BY <1>1, <1>2, <1>3, TrailSteps

THEOREM OneGenerationEach == Spec => []GenerationsAreSpent
<1>1. Init => GenerationsAreSpent
  <2> SUFFICES ASSUME Init PROVE GenerationsAreSpent
    OBVIOUS
  <2>1. AllBegun = {}
    BY DEF Init, AllBegun, Begun
  <2> QED
    BY <2>1, FS_EmptySet DEF Init, GenerationsAreSpent
<1>2. ControlInv /\ GenerationsAreSpent /\ [Next]_providerVars => GenerationsAreSpent'
  BY SpendingStep
<1> QED
  BY <1>1, <1>2, ControlHolds, PTL DEF Spec
=============================================================================
