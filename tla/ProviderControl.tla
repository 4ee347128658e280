--------------------------- MODULE ProviderControl ---------------------------
(***************************************************************************)
(* The control plane of the external provider (provider_control.py), the   *)
(* commands that drive a token incident through it (token_incident.py),    *)
(* and the calls of the workers that obey it (external_provider.py).       *)
(*                                                                         *)
(* A command reads the control row in autocommit and opens its transaction *)
(* only with the first INSERT, so what it read may be out of date when it  *)
(* writes: reading and writing are two actions.  The audit events of one   *)
(* transaction are one entry of the trail.                                 *)
(***************************************************************************)
EXTENDS Naturals, Sequences

CONSTANTS
  Operators,  \* people running token_incident.py
  Workers,    \* worker processes with a credential of their own
  Incidents,  \* incident ids: fresh at each begin, so also a bound
  NoIncident, \* active_incident_id IS NULL
  MaxNotes    \* bound: entries of one incident's trail

ASSUME IncidentAssumption == NoIncident \notin Incidents
ASSUME NotesAssumption == MaxNotes \in Nat

VARIABLES
  ctl,        \* the provider_control row
  trail,      \* provider_incident_events by incident, oldest first
  op,         \* the command each operator is running
  deployed,   \* EXTERNAL_API_CREDENTIAL_VERSION of a worker, 0 without a token
  call,       \* each worker's call_vision_model: what it read, its answer
  exposed     \* history: credential generations revoked by an incident

providerVars == <<ctl, trail, op, deployed, call, exposed>>

Entries  == {"contained", "note", "closed"}
Answers  == {"paused", "token missing", "stale", "answered"}
Resting  == [pc |-> "idle", incident |-> NoIncident, notes |-> 0]
NoCall   == [pc |-> "idle", seen |-> 0, known |-> {}]

TypeOK ==
  /\ ctl \in [enabled : BOOLEAN, version : Nat \ {0}, token : {"active", "revoked"},
              status : {"none", "contained", "closed"}, active : Incidents \cup {NoIncident}]
  /\ trail \in [Incidents -> Seq(Entries)]
  /\ op \in [Operators -> [pc : {"idle", "begin", "check", "append", "close"},
                           incident : Incidents \cup {NoIncident}, notes : 0..2]]
  /\ deployed \in [Workers -> Nat]
  /\ call \in [Workers -> [pc : {"idle", "seen"} \cup Answers,
                            seen : Nat, known : SUBSET (Nat \ {0})]]
  /\ exposed \in SUBSET (Nat \ {0})

Init ==
  /\ ctl = [enabled |-> TRUE, version |-> 1, token |-> "active",
            status |-> "none", active |-> NoIncident]
  /\ trail = [i \in Incidents |-> << >>]
  /\ op = [o \in Operators |-> Resting]
  /\ deployed \in [Workers -> {0, 1}]
  /\ call = [w \in Workers |-> NoCall]
  /\ exposed = {}

Begun(i)  == trail[i] # << >>
Closed(i) == \E n \in 1..Len(trail[i]) : trail[i][n] = "closed"

Run(o, from, rec) == op[o].pc = from /\ op' = [op EXCEPT ![o] = rec]
KeepWorkers == UNCHANGED <<deployed, call>>

-----------------------------------------------------------------------------
(* token_incident.py start: begin_token_exposure_incident, and two notes.   *)

StartRead(o) ==
  /\ ctl.active = NoIncident
  /\ Run(o, "idle", [pc |-> "begin", incident |-> NoIncident, notes |-> 0])
  /\ UNCHANGED <<ctl, trail, exposed>> /\ KeepWorkers

(* Mutant of Contained: the credential generation is not bumped.            *)
ContainedSameVersion(i) ==
  [enabled |-> FALSE, version |-> ctl.version, token |-> "revoked",
   status |-> "contained", active |-> i]

Contained(i) ==
  [enabled |-> FALSE, version |-> ctl.version + 1, token |-> "revoked",
   status |-> "contained", active |-> i]

StartCommit(o) ==
  \E i \in Incidents :
    /\ ~Begun(i)
    /\ Run(o, "begin", [pc |-> "check", incident |-> i, notes |-> 2])
    /\ trail' = [trail EXCEPT ![i] = <<"contained">>]
    /\ ctl' = Contained(i)
    /\ exposed' = exposed \cup {ctl.version}
    /\ KeepWorkers

(* record_event with require_active: scope, vendor, and the notes of start. *)
RecordStart(o) ==
  \E i \in Incidents :
    /\ Begun(i)
    /\ Run(o, "idle", [pc |-> "check", incident |-> i, notes |-> 1])
    /\ UNCHANGED <<ctl, trail, exposed>> /\ KeepWorkers

RecordCheck(o) ==
  /\ Run(o, "check",
         IF ctl.active = op[o].incident /\ ctl.status = "contained"
         THEN [op[o] EXCEPT !.pc = "append"] ELSE Resting)
  /\ UNCHANGED <<ctl, trail, exposed>> /\ KeepWorkers

(* Mutant of RecordCommit: the notes are counted past the last one.         *)
RecordCommitAgain(o) ==
  LET i == op[o].incident IN
  /\ op[o].pc = "append" /\ Len(trail[i]) < MaxNotes
  /\ Run(o, "append", [op[o] EXCEPT !.pc = "check", !.notes = @ - 1])
  /\ trail' = [trail EXCEPT ![i] = Append(@, "note")]
  /\ UNCHANGED <<ctl, exposed>> /\ KeepWorkers

RecordCommit(o) ==
  LET i == op[o].incident IN
  /\ op[o].pc = "append" /\ Len(trail[i]) < MaxNotes
  /\ Run(o, "append",
         IF op[o].notes > 1 THEN [op[o] EXCEPT !.pc = "check", !.notes = @ - 1] ELSE Resting)
  /\ trail' = [trail EXCEPT ![i] = Append(@, "note")]
  /\ UNCHANGED <<ctl, exposed>> /\ KeepWorkers

(* token_incident.py close, with all three confirmations given; without one *)
(* it stops before it reads anything.                                       *)
CloseRead(o) ==
  \E i \in Incidents :
    /\ ctl.status = "contained" /\ ctl.active = i
    /\ Run(o, "idle", [pc |-> "close", incident |-> i, notes |-> 0])
    /\ UNCHANGED <<ctl, trail, exposed>> /\ KeepWorkers

(* Mutant of Resumed: active_incident_id is not cleared.                    *)
ResumedStillActive ==
  [ctl EXCEPT !.enabled = TRUE, !.token = "active", !.status = "closed"]

Resumed ==
  [ctl EXCEPT !.enabled = TRUE, !.token = "active", !.status = "closed", !.active = NoIncident]

CloseCommit(o) ==
  LET i == op[o].incident IN
  /\ op[o].pc = "close" /\ Len(trail[i]) < MaxNotes
  /\ Run(o, "close", Resting)
  /\ trail' = [trail EXCEPT ![i] = Append(@, "closed")]
  /\ ctl' = Resumed
  /\ UNCHANGED exposed /\ KeepWorkers

(* An error or a kill: the open transaction is rolled back.                 *)
Stop(o) ==
  /\ op[o].pc # "idle"
  /\ op' = [op EXCEPT ![o] = Resting]
  /\ UNCHANGED <<ctl, trail, exposed>> /\ KeepWorkers

-----------------------------------------------------------------------------
(* The workers' side.  The control row is read in one statement; an         *)
(* incident may begin or end before the call goes on.                       *)

CallRead(w) ==
  /\ call[w].pc = "idle"
  /\ call' = [call EXCEPT ![w] =
       [pc |-> "seen", known |-> exposed,
        seen |-> IF ctl.enabled /\ ctl.token = "active" THEN ctl.version ELSE 0]]
  /\ UNCHANGED <<ctl, trail, op, deployed, exposed>>

(* "answered": the credential was used; what the provider says is left out. *)
CallAnswer(w) ==
  /\ call[w].pc = "seen"
  /\ call' = [call EXCEPT ![w].pc =
       IF call[w].seen = 0 THEN "paused"
       ELSE IF deployed[w] = 0 THEN "token missing"
       ELSE IF deployed[w] # call[w].seen THEN "stale"
       ELSE "answered"]
  /\ UNCHANGED <<ctl, trail, op, deployed, exposed>>

CallReturn(w) ==
  /\ call[w].pc \in Answers
  /\ call' = [call EXCEPT ![w] = NoCall]
  /\ UNCHANGED <<ctl, trail, op, deployed, exposed>>

(* The worker restarts with the rotated credential; its call dies with it.  *)
Deploy(w) ==
  /\ deployed[w] # ctl.version
  /\ deployed' = [deployed EXCEPT ![w] = ctl.version]
  /\ call' = [call EXCEPT ![w] = NoCall]
  /\ UNCHANGED <<ctl, trail, op, exposed>>

Next ==
  \/ \E o \in Operators :
       \/ StartRead(o) \/ StartCommit(o) \/ RecordStart(o) \/ RecordCheck(o) \/ RecordCommit(o)
       \/ CloseRead(o) \/ CloseCommit(o) \/ Stop(o)
  \/ \E w \in Workers : CallRead(w) \/ CallAnswer(w) \/ CallReturn(w) \/ Deploy(w)

Spec == Init /\ [][Next]_providerVars

-----------------------------------------------------------------------------
(* Properties.                                                              *)

(* While an incident is active the provider is paused and its trail is      *)
(* open; nothing is left active behind a resumed provider.  This holds      *)
(* whatever commands run at the same time.                                  *)
ActiveMeansContained ==
  IF ctl.active = NoIncident
  THEN ctl.enabled /\ ctl.token = "active"
  ELSE /\ ~ctl.enabled /\ ctl.token = "revoked" /\ ctl.status = "contained"
       /\ Begun(ctl.active) /\ ~Closed(ctl.active)

(* A call begun after an incident revoked a credential never uses that      *)
(* credential, however late its worker gets the new one, also when          *)
(* incidents overlap or the provider is resumed too early.  A call that had *)
(* read the control row before is still answered.                           *)
NoCallWithExposed ==
  \A w \in Workers : call[w].pc = "answered" => deployed[w] \notin call[w].known

(* provider_control.py:159: the provider comes back when the incident that  *)
(* paused it is approved and closed.                                        *)
ResumedByItsIncident ==
  [][~ctl.enabled /\ ctl'.enabled
       => \E o \in Operators : op[o].pc = "close" /\ op'[o].pc = "idle"
                                /\ op[o].incident = ctl.active]_providerVars
=============================================================================
