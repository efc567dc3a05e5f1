---------------------------- MODULE IncidentDesk ----------------------------
(***************************************************************************)
(* domain/incidents.py: safety incidents from report through closure, with *)
(* corrective actions that require one another, severities that set the    *)
(* deadlines, and a timeline of events.                                    *)
(*                                                                         *)
(* A call is one action.  Every change is saved first and recorded in the  *)
(* timeline after, and recording refuses a blank actor: the call raises    *)
(* with the change in place.  traced says which of the two a call is.      *)
(* Leads, witnesses, attachments and notes are left out: nothing reads     *)
(* them.  Times are minutes.                                               *)
(***************************************************************************)
EXTENDS Naturals, FiniteSets

CONSTANTS Incidents,    \* incident ids
          Actions,      \* corrective action ids of an incident
          Categories,   \* "injury" and others
          ReportTimes,  \* when incidents are reported
          None          \* no such incident, no such action

ASSUME DeskAssumption ==
    /\ "injury" \in Categories
    /\ ReportTimes \subseteq Nat
ASSUME NoneAssumption ==
    LET statuses == {"open", "in_progress", "done", "cancelled"}
    IN  None \notin [blocking : BOOLEAN, requires : SUBSET Actions, status : statuses,
                     added_as : statuses]

VARIABLES incidents,    \* id -> None or Incident
          timeline      \* id -> None or the status its events show

vars == <<incidents, timeline>>

Severities == {"low", "moderate", "high", "critical"}
Grave == {"high", "critical"}
Statuses == {"reported", "triaged", "investigating", "resolved", "closed"}
Settled == {"done", "cancelled"}

TRIAGE_SLA == [low |-> 1440, moderate |-> 480, high |-> 60, critical |-> 15]
RESOLUTION_SLA == [low |-> 20160, moderate |-> 10080, high |-> 4320, critical |-> 1440]

ActionStatuses == {"open", "in_progress"} \cup Settled

\* added_as is history: the status the action was handed in with.
CorrectiveAction == [blocking : BOOLEAN, requires : SUBSET Actions,
                     status : ActionStatuses, added_as : ActionStatuses]
Incident == [category : Categories, severity : Severities, status : Statuses,
             reported_at : ReportTimes, triage_due_at : Nat, resolution_due_at : Nat,
             root_cause : BOOLEAN, regulatory_reference : BOOLEAN,
             actions : [Actions -> CorrectiveAction \cup {None}]]

Known == {i \in Incidents : incidents[i] # None}
IsOpen(i) == incidents[i].status \notin {"resolved", "closed"}
ActionsOf(i) == {a \in Actions : incidents[i].actions[a] # None}
BlockingActions(i) ==
    {a \in ActionsOf(i) : /\ incidents[i].actions[a].blocking
                          /\ incidents[i].actions[a].status \notin Settled}

\* _save and then _record, whose event shows the incident in a status.
Save(i, incident, shown, traced) ==
    /\ incidents' = [incidents EXCEPT ![i] = incident]
    /\ timeline' = IF traced THEN [timeline EXCEPT ![i] = shown] ELSE timeline

(***************************************************************************)
(* The incident.                                                           *)
(***************************************************************************)
\* A blank reporter is refused by the incident itself, before anything is saved.
Report(i, category, severity, moment) ==
    /\ i \notin Known
    /\ Save(i, [category |-> category, severity |-> severity, status |-> "reported",
                reported_at |-> moment,
                triage_due_at |-> moment + TRIAGE_SLA[severity],
                resolution_due_at |-> moment + RESOLUTION_SLA[severity],
                root_cause |-> FALSE, regulatory_reference |-> FALSE,
                actions |-> [a \in Actions |-> None]],
            "reported", TRUE)

\* Mutant: the deadline of the resolution is left as reported.
TriageKeepsDeadline(i, severity, traced) ==
    /\ i \in Known
    /\ incidents[i].status = "reported"
    /\ Save(i, [incidents[i] EXCEPT !.severity = severity, !.status = "triaged"],
            "triaged", traced)

\* The deadline of the triage itself stays.
Triage(i, severity, traced) ==
    /\ i \in Known
    /\ incidents[i].status = "reported"
    /\ Save(i, [incidents[i] EXCEPT
                  !.severity = severity, !.status = "triaged",
                  !.resolution_due_at =
                      incidents[i].reported_at + RESOLUTION_SLA[severity]],
            "triaged", traced)

\* Mutant: a settled incident can be re-rated.
ChangeSeverityAnyTime(i, severity, traced) ==
    /\ i \in Known
    /\ Save(i, [incidents[i] EXCEPT
                  !.severity = severity,
                  !.triage_due_at = incidents[i].reported_at + TRIAGE_SLA[severity],
                  !.resolution_due_at =
                      incidents[i].reported_at + RESOLUTION_SLA[severity]],
            timeline[i], traced)

ChangeSeverity(i, severity, traced) ==
    /\ i \in Known
    /\ IsOpen(i)
    /\ Save(i, [incidents[i] EXCEPT
                  !.severity = severity,
                  !.triage_due_at = incidents[i].reported_at + TRIAGE_SLA[severity],
                  !.resolution_due_at =
                      incidents[i].reported_at + RESOLUTION_SLA[severity]],
            timeline[i], traced)

BeginInvestigation(i, traced) ==
    /\ i \in Known
    /\ incidents[i].status = "triaged"
    /\ Save(i, [incidents[i] EXCEPT !.status = "investigating"], "investigating", traced)

Resolve(i, root_cause, regulatory_reference, traced) ==
    /\ i \in Known
    /\ incidents[i].status \in {"triaged", "investigating"}
    /\ BlockingActions(i) = {}
    /\ incidents[i].severity \in Grave => root_cause
    /\ Save(i, [incidents[i] EXCEPT !.status = "resolved", !.root_cause = root_cause,
                  !.regulatory_reference = regulatory_reference],
            "resolved", traced)

Close(i, traced) ==
    /\ i \in Known
    /\ incidents[i].status = "resolved"
    /\ incidents[i].category = "injury" => incidents[i].regulatory_reference
    /\ Save(i, [incidents[i] EXCEPT !.status = "closed"], "closed", traced)

Reopen(i, traced) ==
    /\ i \in Known
    /\ ~IsOpen(i)
    /\ Save(i, [incidents[i] EXCEPT !.status = "investigating"], "investigating", traced)

(***************************************************************************)
(* Corrective actions.  All but add_action work on a settled incident too. *)
(***************************************************************************)
\* Mutant: an action may require itself.
AddActionOnItself(i, a, blocking, requires, status, traced) ==
    /\ i \in Known
    /\ IsOpen(i)
    /\ a \notin ActionsOf(i)
    /\ requires \subseteq ActionsOf(i) \cup {a}
    /\ Save(i, [incidents[i] EXCEPT !.actions[a] =
                  [blocking |-> blocking, requires |-> requires, status |-> status,
                   added_as |-> status]],
            timeline[i], traced)

\* The required actions exist already, so no cycle can arise.  The status is the
\* caller's: an action may be handed in as begun or done, whatever it requires.
AddAction(i, a, blocking, requires, status, traced) ==
    /\ i \in Known
    /\ IsOpen(i)
    /\ a \notin ActionsOf(i)
    /\ requires \subseteq ActionsOf(i)
    /\ Save(i, [incidents[i] EXCEPT !.actions[a] =
                  [blocking |-> blocking, requires |-> requires, status |-> status,
                   added_as |-> status]],
            timeline[i], traced)

ActionBlockers(i, a) ==
    {b \in incidents[i].actions[a].requires : incidents[i].actions[b].status # "done"}

SetAction(i, a, status, traced) ==
    Save(i, [incidents[i] EXCEPT !.actions[a].status = status], timeline[i], traced)

StartAction(i, a, traced) ==
    /\ i \in Known
    /\ a \in ActionsOf(i)
    /\ incidents[i].actions[a].status = "open"
    /\ ActionBlockers(i, a) = {}
    /\ SetAction(i, a, "in_progress", traced)

CompleteAction(i, a, traced) ==
    /\ i \in Known
    /\ a \in ActionsOf(i)
    /\ incidents[i].actions[a].status \in {"open", "in_progress"}
    /\ ActionBlockers(i, a) = {}
    /\ SetAction(i, a, "done", traced)

\* Mutant: what is done can be cancelled.
CancelActionAnyTime(i, a, authorized, traced) ==
    /\ i \in Known
    /\ a \in ActionsOf(i)
    /\ incidents[i].actions[a].blocking => authorized
    /\ SetAction(i, a, "cancelled", traced)

CancelAction(i, a, authorized, traced) ==
    /\ i \in Known
    /\ a \in ActionsOf(i)
    /\ incidents[i].actions[a].status # "done"
    /\ incidents[i].actions[a].blocking => authorized
    /\ SetAction(i, a, "cancelled", traced)

Init ==
    /\ incidents = [i \in Incidents |-> None]
    /\ timeline = [i \in Incidents |-> None]

Next ==
    \E i \in Incidents, traced \in BOOLEAN :
      \/ \E c \in Categories, s \in Severities, t \in ReportTimes :
           Report(i, c, s, t)
      \/ \E s \in Severities : Triage(i, s, traced) \/ ChangeSeverity(i, s, traced)
      \/ BeginInvestigation(i, traced) \/ Close(i, traced) \/ Reopen(i, traced)
      \/ \E cause, reference \in BOOLEAN : Resolve(i, cause, reference, traced)
      \/ \E a \in Actions :
           \/ \E blocking \in BOOLEAN, requires \in SUBSET Actions, status \in ActionStatuses :
                AddAction(i, a, blocking, requires, status, traced)
           \/ StartAction(i, a, traced) \/ CompleteAction(i, a, traced)
           \/ \E authorized \in BOOLEAN : CancelAction(i, a, authorized, traced)

Spec == Init /\ [][Next]_vars

-----------------------------------------------------------------------------
TypeOK ==
    /\ incidents \in [Incidents -> Incident \cup {None}]
    /\ timeline \in [Incidents -> Statuses \cup {None}]

\* An incident that is resolved or closed has nothing left that must be done:
\* no blocking action is open, a grave one has its root cause, and a closed
\* injury has its regulatory reference, whatever was reopened, re-rated,
\* added or cancelled on the way.
SettledIsComplete ==
    \A i \in Known : ~IsOpen(i) =>
        /\ BlockingActions(i) = {}
        /\ incidents[i].severity \in Grave => incidents[i].root_cause
        /\ incidents[i].status = "closed" /\ incidents[i].category = "injury"
             => incidents[i].regulatory_reference

\* What a corrective action requires exists.  The desk begins and completes an action
\* only when all it requires is done, and that stays so: what is done is never taken
\* back, whatever is cancelled or added later.  An action is begun by the desk unless
\* it still has the status it was handed in with; add_action takes any.
ActionsInOrder ==
    \A i \in Known : \A a \in ActionsOf(i) :
        LET action == incidents[i].actions[a]
        IN  /\ action.requires \subseteq ActionsOf(i)
            /\ action.status \in {"in_progress", "done"} \ {action.added_as} =>
                  \A b \in action.requires : incidents[i].actions[b].status = "done"

\* The deadlines are those of the severity the incident has now: for the
\* resolution always, for the triage until it has taken place.
DeadlinesMatchSeverity ==
    \A i \in Known :
        /\ incidents[i].resolution_due_at =
             incidents[i].reported_at + RESOLUTION_SLA[incidents[i].severity]
        /\ incidents[i].status = "reported" =>
             incidents[i].triage_due_at =
               incidents[i].reported_at + TRIAGE_SLA[incidents[i].severity]

\* The corrective actions never wait for one another in a circle: of those
\* that are left, one waits for nothing, or only for cancelled ones.
SomeActionCanProceed ==
    \A i \in Known :
        LET left == {a \in ActionsOf(i) : incidents[i].actions[a].status \notin Settled}
        IN  left # {} => \E a \in left : ActionBlockers(i, a) \cap left = {}

\* The timeline shows every status the incident has been brought into
\* ("Enforce a traceable incident response from report through closure").
TimelineShowsStatus ==
    \A i \in Known : timeline[i] = incidents[i].status
=============================================================================
