------------------------- MODULE IncidentDeskProofs -------------------------
(***************************************************************************)
(* Proofs about IncidentDesk, for any incidents, corrective actions,       *)
(* categories and report times.  Every call replaces one incident by       *)
(* another that is well formed on its own, so the inductive invariant says *)
(* that of every incident, and one lemma covers the saving.                *)
(***************************************************************************)
EXTENDS IncidentDesk, TLAPS

\* The invariants of the runs, for one incident.
Complete(x) ==
    x.status \in {"resolved", "closed"} =>
        /\ \A a \in Actions : x.actions[a] # None /\ x.actions[a].blocking
                                 => x.actions[a].status \in Settled
        /\ x.severity \in Grave => x.root_cause
        /\ x.status = "closed" /\ x.category = "injury" => x.regulatory_reference

InOrder(x) ==
    \A a \in Actions : x.actions[a] # None =>
        \A b \in x.actions[a].requires :
            /\ x.actions[b] # None
            /\ x.actions[a].status \in {"in_progress", "done"} \ {x.actions[a].added_as}
                 => x.actions[b].status = "done"

OnTime(x) ==
    /\ x.resolution_due_at = x.reported_at + RESOLUTION_SLA[x.severity]
    /\ x.status = "reported" =>
         x.triage_due_at = x.reported_at + TRIAGE_SLA[x.severity]

\* No corrective actions wait for one another in a circle: of any of them, one
\* requires none of the others.
NoCircle(actions) ==
    \A S \in SUBSET {a \in Actions : actions[a] # None} :
        S # {} => \E a \in S : actions[a].requires \cap S = {}

WellFormed(x) ==
    x \in Incident /\ Complete(x) /\ InOrder(x) /\ OnTime(x) /\ NoCircle(x.actions)

DeskInv == TypeOK /\ \A i \in Known : WellFormed(incidents[i])

-----------------------------------------------------------------------------
\* Saving a well-formed incident keeps the invariant (_save and _record).
LEMMA SaveKeeps ==
    ASSUME DeskInv, NEW i \in Incidents, NEW x, WellFormed(x),
           NEW shown \in Statuses \cup {None}, NEW traced, Save(i, x, shown, traced)
    PROVE  DeskInv'
  <1>1. incidents' = [incidents EXCEPT ![i] = x]
    BY DEF Save
  <1>2. timeline' \in [Incidents -> Statuses \cup {None}]
    BY DEF Save, DeskInv, TypeOK
  <1>3. TypeOK'
    BY <1>1, <1>2 DEF DeskInv, TypeOK, WellFormed
  <1>4. \A j \in Incidents : incidents'[j] # None => WellFormed(incidents'[j])
    BY <1>1 DEF DeskInv, TypeOK, Known
  <1> QED BY <1>3, <1>4 DEF DeskInv, Known

\* Raising or lowering the severity keeps the deadlines natural numbers.
LEMMA DueIsNat ==
    ASSUME NEW s \in Severities, NEW t \in ReportTimes
    PROVE  t + TRIAGE_SLA[s] \in Nat /\ t + RESOLUTION_SLA[s] \in Nat
  BY DeskAssumption DEF Severities, TRIAGE_SLA, RESOLUTION_SLA

\* Actions that require no more than before wait in no circle.
LEMMA SameRequirements ==
    ASSUME NEW old, NEW new, NoCircle(old),
           \A a \in Actions : new[a] # None =>
               old[a] # None /\ new[a].requires = old[a].requires
    PROVE  NoCircle(new)
  BY DEF NoCircle

\* An action that requires only what is there already closes no circle.
LEMMA OneMoreAction ==
    ASSUME NEW old, NEW new, NoCircle(old), NEW a \in Actions, old[a] = None,
           \A b \in Actions : old[b] # None =>
               \A c \in old[b].requires : c \in Actions => old[c] # None,
           \A c \in new[a].requires : old[c] # None,
           \A b \in Actions \ {a} : new[b] = old[b]
    PROVE  NoCircle(new)
  <1> SUFFICES ASSUME NEW S \in SUBSET {b \in Actions : new[b] # None}, S # {}
               PROVE  \E b \in S : new[b].requires \cap S = {}
    BY DEF NoCircle
  <1>1. CASE S \ {a} = {}
    <2>1. S = {a} /\ a \notin new[a].requires
      BY <1>1
    <2> QED BY <2>1
  <1>2. CASE S \ {a} # {}
    <2>1. S \ {a} \in SUBSET {b \in Actions : old[b] # None}
      OBVIOUS
    <2>2. PICK b \in S \ {a} : old[b].requires \cap (S \ {a}) = {}
      BY <1>2, <2>1 DEF NoCircle
    <2>3. b \in Actions /\ new[b] = old[b] /\ old[b] # None
      BY <2>1, <2>2
    <2>4. a \notin old[b].requires
      BY <2>3
    <2> QED BY <2>2, <2>3, <2>4
  <1> QED BY <1>1, <1>2

\* A corrective action whose status is set stays one, and so does its incident.
LEMMA StatusKeeps ==
    ASSUME NEW x, WellFormed(x), NEW a \in Actions, x.actions[a] # None,
           NEW status \in {"in_progress", "done", "cancelled"},
           status = "in_progress" => x.actions[a].status = "open",
           x.actions[a].status # "done",
           status # "cancelled" =>
               \A b \in x.actions[a].requires : x.actions[b].status = "done"
    PROVE  WellFormed([x EXCEPT !.actions[a].status = status])
  <1> DEFINE y == [x EXCEPT !.actions[a].status = status]
  <1>1. /\ x \in Incident
        /\ x.actions \in [Actions -> CorrectiveAction \cup {None}]
        /\ x.actions[a] \in CorrectiveAction
    BY DEF WellFormed, Incident
  <1>2. /\ y.actions = [x.actions EXCEPT ![a] = [x.actions[a] EXCEPT !.status = status]]
        /\ y.status = x.status /\ y.severity = x.severity /\ y.category = x.category
        /\ y.root_cause = x.root_cause
        /\ y.regulatory_reference = x.regulatory_reference
        /\ y.reported_at = x.reported_at
        /\ y.triage_due_at = x.triage_due_at
        /\ y.resolution_due_at = x.resolution_due_at
    BY <1>1 DEF Incident
  <1>3. /\ y.actions[a].status = status
        /\ y.actions[a].blocking = x.actions[a].blocking
        /\ y.actions[a].requires = x.actions[a].requires
        /\ y.actions[a].added_as = x.actions[a].added_as
        /\ y.actions[a] \in CorrectiveAction
        /\ y.actions[a] # None
        /\ \A b \in Actions \ {a} : y.actions[b] = x.actions[b]
    BY <1>1, <1>2, NoneAssumption DEF CorrectiveAction, ActionStatuses, Settled
  <1>4. y \in Incident
    BY <1>1, <1>3 DEF Incident
  <1>5. Complete(y)
    BY <1>1, <1>2, <1>3 DEF Complete, WellFormed, Settled, CorrectiveAction, ActionStatuses
  <1>6. InOrder(y)
    <2>1. InOrder(x)
      BY DEF WellFormed
    <2>2. ASSUME NEW c \in Actions, y.actions[c] # None, NEW b \in y.actions[c].requires
          PROVE  /\ y.actions[b] # None
                 /\ y.actions[c].status \in {"in_progress", "done"} \ {y.actions[c].added_as}
                      => y.actions[b].status = "done"
      <3>1. x.actions[c] # None /\ x.actions[c] \in CorrectiveAction
        BY <1>1, <1>3, <2>2
      <3>2. b \in x.actions[c].requires /\ b \in Actions
        BY <1>3, <2>2, <3>1 DEF CorrectiveAction
      <3>3. x.actions[b] # None /\ y.actions[b] # None
        BY <1>3, <2>1, <3>1, <3>2 DEF InOrder
      <3>4. CASE c = a
        <4>1. b # a \/ status = "cancelled"
          BY <3>2, <3>4
        <4> QED BY <1>3, <3>2, <3>3, <3>4, <4>1
      <3>5. CASE c # a
        BY <1>3, <2>1, <3>1, <3>2, <3>3, <3>5 DEF InOrder
      <3> QED BY <3>4, <3>5
    <2> QED BY <2>2 DEF InOrder
  <1>7. OnTime(y)
    BY <1>2 DEF OnTime, WellFormed
  <1>8. NoCircle(y.actions)
    <2>1. \A b \in Actions : y.actions[b] # None =>
             x.actions[b] # None /\ y.actions[b].requires = x.actions[b].requires
      BY <1>3
    <2>2. NoCircle(x.actions)
      BY DEF WellFormed
    <2> QED BY <2>1, <2>2, SameRequirements
  <1> QED BY <1>4, <1>5, <1>6, <1>7, <1>8 DEF WellFormed

-----------------------------------------------------------------------------
\* A call about the incident itself keeps every incident well formed.
LEMMA IncidentCallKeeps ==
    ASSUME DeskInv, NEW i \in Incidents, NEW traced \in BOOLEAN,
           \/ \E c \in Categories, s \in Severities, t \in ReportTimes : Report(i, c, s, t)
           \/ \E s \in Severities : Triage(i, s, traced) \/ ChangeSeverity(i, s, traced)
           \/ BeginInvestigation(i, traced) \/ Close(i, traced) \/ Reopen(i, traced)
           \/ \E cause, reference \in BOOLEAN : Resolve(i, cause, reference, traced)
    PROVE  DeskInv'
  <1>0. /\ timeline[i] \in Statuses \cup {None}
        /\ i \in Known => WellFormed(incidents[i])
    BY DEF DeskInv, TypeOK
  <1>1. ASSUME NEW c \in Categories, NEW s \in Severities, NEW t \in ReportTimes,
               Report(i, c, s, t)
        PROVE  DeskInv'
    <2> DEFINE x == [category |-> c, severity |-> s, status |-> "reported",
                     reported_at |-> t, triage_due_at |-> t + TRIAGE_SLA[s],
                     resolution_due_at |-> t + RESOLUTION_SLA[s],
                     root_cause |-> FALSE, regulatory_reference |-> FALSE,
                     actions |-> [a \in Actions |-> None]]
    <2>1. NoCircle(x.actions)
      BY DEF NoCircle
    <2>2. WellFormed(x)
      BY <2>1, DueIsNat DEF WellFormed, Incident, Statuses, Complete, InOrder, OnTime
    <2>3. Save(i, x, "reported", TRUE)
      BY <1>1 DEF Report
    <2> HIDE DEF x
    <2> QED BY <2>2, <2>3, SaveKeeps DEF Statuses
  <1>2. ASSUME NEW s \in Severities, Triage(i, s, traced) PROVE DeskInv'
    <2> DEFINE x == [incidents[i] EXCEPT
                       !.severity = s, !.status = "triaged",
                       !.resolution_due_at = incidents[i].reported_at + RESOLUTION_SLA[s]]
    <2>1. WellFormed(incidents[i])
      BY <1>0, <1>2 DEF Triage
    <2>2. WellFormed(x)
      BY <2>1, DueIsNat, ZenonT(40) DEF WellFormed, Incident, Statuses, Complete, InOrder, OnTime
    <2>3. Save(i, x, "triaged", traced)
      BY <1>2 DEF Triage
    <2> HIDE DEF x
    <2> QED BY <2>2, <2>3, SaveKeeps DEF Statuses
  <1>3. ASSUME NEW s \in Severities, ChangeSeverity(i, s, traced) PROVE DeskInv'
    <2> DEFINE x == [incidents[i] EXCEPT
                       !.severity = s,
                       !.triage_due_at = incidents[i].reported_at + TRIAGE_SLA[s],
                       !.resolution_due_at = incidents[i].reported_at + RESOLUTION_SLA[s]]
    <2>1. WellFormed(incidents[i]) /\ IsOpen(i)
      BY <1>0, <1>3 DEF ChangeSeverity
    <2>2. WellFormed(x)
      BY <2>1, DueIsNat DEF WellFormed, Incident, Complete, InOrder, OnTime, IsOpen
    <2>3. Save(i, x, timeline[i], traced)
      BY <1>3 DEF ChangeSeverity
    <2> HIDE DEF x
    <2> QED BY <1>0, <2>2, <2>3, SaveKeeps
  <1>4. CASE BeginInvestigation(i, traced)
    <2> DEFINE x == [incidents[i] EXCEPT !.status = "investigating"]
    <2>1. WellFormed(x)
      BY <1>0, <1>4 DEF BeginInvestigation, WellFormed, Incident, Statuses, Complete,
                        InOrder, OnTime
    <2>2. Save(i, x, "investigating", traced)
      BY <1>4 DEF BeginInvestigation
    <2> HIDE DEF x
    <2> QED BY <2>1, <2>2, SaveKeeps DEF Statuses
  <1>5. CASE Close(i, traced)
    <2> DEFINE x == [incidents[i] EXCEPT !.status = "closed"]
    <2>1. WellFormed(x)
      BY <1>0, <1>5 DEF Close, WellFormed, Incident, Statuses, Complete, InOrder, OnTime
    <2>2. Save(i, x, "closed", traced)
      BY <1>5 DEF Close
    <2> HIDE DEF x
    <2> QED BY <2>1, <2>2, SaveKeeps DEF Statuses
  <1>6. CASE Reopen(i, traced)
    <2> DEFINE x == [incidents[i] EXCEPT !.status = "investigating"]
    <2>1. WellFormed(x)
      BY <1>0, <1>6
         DEF Reopen, WellFormed, Incident, Statuses, Complete, InOrder, OnTime
    <2>2. Save(i, x, "investigating", traced)
      BY <1>6 DEF Reopen
    <2> HIDE DEF x
    <2> QED BY <2>1, <2>2, SaveKeeps DEF Statuses
  <1>7. ASSUME NEW cause \in BOOLEAN, NEW reference \in BOOLEAN,
               Resolve(i, cause, reference, traced)
        PROVE  DeskInv'
    <2> DEFINE x == [incidents[i] EXCEPT !.status = "resolved", !.root_cause = cause,
                       !.regulatory_reference = reference]
    <2>1. WellFormed(incidents[i]) /\ BlockingActions(i) = {}
      BY <1>0, <1>7 DEF Resolve
    <2>2. \A a \in Actions :
             incidents[i].actions[a] # None /\ incidents[i].actions[a].blocking
               => incidents[i].actions[a].status \in Settled
      BY <2>1 DEF BlockingActions, ActionsOf
    <2>3. incidents[i].severity \in Grave => cause
      BY <1>7 DEF Resolve
    <2>4. WellFormed(x)
      BY <2>1, <2>2, <2>3 DEF WellFormed, Incident, Statuses, Complete, InOrder, OnTime
    <2>5. Save(i, x, "resolved", traced)
      BY <1>7 DEF Resolve
    <2> HIDE DEF x
    <2> QED BY <2>4, <2>5, SaveKeeps DEF Statuses
  <1> QED BY <1>1, <1>2, <1>3, <1>4, <1>5, <1>6, <1>7

\* A call about a corrective action keeps every incident well formed.
LEMMA ActionCallKeeps ==
    ASSUME DeskInv, NEW i \in Incidents, NEW traced \in BOOLEAN, NEW a \in Actions,
           \/ \E blocking \in BOOLEAN, requires \in SUBSET Actions, status \in ActionStatuses :
                AddAction(i, a, blocking, requires, status, traced)
           \/ StartAction(i, a, traced) \/ CompleteAction(i, a, traced)
           \/ \E authorized \in BOOLEAN : CancelAction(i, a, authorized, traced)
    PROVE  DeskInv'
  <1>0. timeline[i] \in Statuses \cup {None}
    BY DEF DeskInv, TypeOK
  <1>1. i \in Known /\ WellFormed(incidents[i])
    BY DEF DeskInv, AddAction, StartAction, CompleteAction, CancelAction
  <1>2. ASSUME NEW blocking \in BOOLEAN, NEW requires \in SUBSET Actions,
               NEW status \in ActionStatuses,
               AddAction(i, a, blocking, requires, status, traced)
        PROVE  DeskInv'
    <2> DEFINE new == [blocking |-> blocking, requires |-> requires, status |-> status,
                       added_as |-> status]
               x == [incidents[i] EXCEPT !.actions[a] = new]
    <2>1. new \in CorrectiveAction /\ new # None
      BY NoneAssumption DEF CorrectiveAction, ActionStatuses, Settled
    <2>2. /\ IsOpen(i) /\ incidents[i].actions[a] = None
          /\ \A b \in requires : incidents[i].actions[b] # None
      BY <1>2 DEF AddAction, ActionsOf
    <2>3. /\ x \in Incident /\ x.status \notin {"resolved", "closed"}
          /\ x.actions = [incidents[i].actions EXCEPT ![a] = new]
      BY <1>1, <2>1, <2>2 DEF WellFormed, Incident, IsOpen
    <2>4. /\ x.actions[a] = new
          /\ \A b \in Actions \ {a} : x.actions[b] = incidents[i].actions[b]
      BY <1>1, <2>3 DEF WellFormed, Incident
    <2>5. InOrder(x)
      <3>1. ASSUME NEW c \in Actions, x.actions[c] # None, NEW b \in x.actions[c].requires
            PROVE  /\ x.actions[b] # None
                   /\ x.actions[c].status \in {"in_progress", "done"} \ {x.actions[c].added_as}
                        => x.actions[b].status = "done"
        <4>1. CASE c = a
          BY <2>1, <2>2, <2>4, <3>1, <4>1
        <4>2. CASE c # a
          <5>1. x.actions[c] = incidents[i].actions[c]
            BY <2>4, <4>2
          <5>2. b \in Actions
            BY <1>1, <3>1, <5>1 DEF WellFormed, Incident, CorrectiveAction
          <5>3. /\ incidents[i].actions[b] # None
                /\ x.actions[c].status \in {"in_progress", "done"} \ {x.actions[c].added_as}
                     => incidents[i].actions[b].status = "done"
            BY <1>1, <3>1, <5>1 DEF WellFormed, InOrder
          <5> QED BY <2>2, <2>4, <5>2, <5>3
        <4> QED BY <4>1, <4>2
      <3> QED BY <3>1 DEF InOrder
    <2>6. Complete(x) /\ OnTime(x)
      BY <1>1, <2>3 DEF Complete, OnTime, WellFormed, Incident
    <2>7. NoCircle(x.actions)
      <3>1. NoCircle(incidents[i].actions) /\ InOrder(incidents[i])
        BY <1>1 DEF WellFormed
      <3>2. \A b \in Actions : incidents[i].actions[b] # None =>
               \A c \in incidents[i].actions[b].requires :
                   c \in Actions => incidents[i].actions[c] # None
        BY <3>1 DEF InOrder
      <3>3. \A c \in x.actions[a].requires : incidents[i].actions[c] # None
        BY <2>2, <2>4
      <3> HIDE DEF x
      <3> QED BY <2>2, <2>4, <3>1, <3>2, <3>3, OneMoreAction
    <2>8. Save(i, x, timeline[i], traced)
      BY <1>2 DEF AddAction
    <2>9. WellFormed(x)
      BY <2>3, <2>5, <2>6, <2>7 DEF WellFormed
    <2> HIDE DEF x
    <2> QED BY <1>0, <2>8, <2>9, SaveKeeps
  <1>3. CASE StartAction(i, a, traced)
    <2>1. /\ incidents[i].actions[a] # None /\ incidents[i].actions[a].status = "open"
          /\ \A b \in incidents[i].actions[a].requires :
               incidents[i].actions[b].status = "done"
          /\ Save(i, [incidents[i] EXCEPT !.actions[a].status = "in_progress"],
                  timeline[i], traced)
      BY <1>3 DEF StartAction, SetAction, ActionsOf, ActionBlockers
    <2>2. WellFormed([incidents[i] EXCEPT !.actions[a].status = "in_progress"])
      BY <1>1, <2>1, StatusKeeps
    <2> QED BY <1>0, <2>1, <2>2, SaveKeeps
  <1>4. CASE CompleteAction(i, a, traced)
    <2>1. /\ incidents[i].actions[a] # None /\ incidents[i].actions[a].status # "done"
          /\ \A b \in incidents[i].actions[a].requires :
               incidents[i].actions[b].status = "done"
          /\ Save(i, [incidents[i] EXCEPT !.actions[a].status = "done"],
                  timeline[i], traced)
      BY <1>4 DEF CompleteAction, SetAction, ActionsOf, ActionBlockers
    <2>2. WellFormed([incidents[i] EXCEPT !.actions[a].status = "done"])
      BY <1>1, <2>1, StatusKeeps
    <2> QED BY <1>0, <2>1, <2>2, SaveKeeps
  <1>5. ASSUME NEW authorized \in BOOLEAN, CancelAction(i, a, authorized, traced)
        PROVE  DeskInv'
    <2>1. /\ incidents[i].actions[a] # None /\ incidents[i].actions[a].status # "done"
          /\ Save(i, [incidents[i] EXCEPT !.actions[a].status = "cancelled"],
                  timeline[i], traced)
      BY <1>5 DEF CancelAction, SetAction, ActionsOf
    <2>2. WellFormed([incidents[i] EXCEPT !.actions[a].status = "cancelled"])
      BY <1>1, <2>1, StatusKeeps
    <2> QED BY <1>0, <2>1, <2>2, SaveKeeps
  <1> QED BY <1>2, <1>3, <1>4, <1>5

\* One call of the desk.
LEMMA NextDeskInv == DeskInv /\ [Next]_vars => DeskInv'
  <1>1. ASSUME DeskInv, Next PROVE DeskInv'
    BY <1>1, IncidentCallKeeps, ActionCallKeeps DEF Next
  <1>2. ASSUME DeskInv, UNCHANGED vars PROVE DeskInv'
    BY <1>2 DEF vars, DeskInv, TypeOK, Known
  <1> QED BY <1>1, <1>2

-----------------------------------------------------------------------------
\* Every incident stays well formed: typed, complete when settled, its
\* corrective actions in order and its deadlines those of its severity.
THEOREM DeskInvariant == Spec => []DeskInv
  <1>1. Init => DeskInv
    BY DEF Init, DeskInv, TypeOK, Known
  <1> QED BY <1>1, NextDeskInv, PTL DEF Spec

\* The type invariant of IncidentDesk.
THEOREM DeskTypeCorrect == Spec => []TypeOK
  <1>1. DeskInv => TypeOK
    BY DEF DeskInv
  <1> QED BY <1>1, DeskInvariant, PTL

\* What resolve and close demand stays true while the incident is settled.
THEOREM SettledCorrect == Spec => []SettledIsComplete
  <1>1. DeskInv => SettledIsComplete
    BY DEF DeskInv, TypeOK, WellFormed, Complete, SettledIsComplete, IsOpen, Incident,
           BlockingActions, ActionsOf, Known, Statuses
  <1> QED BY <1>1, DeskInvariant, PTL

\* What the desk begins and completes is in the order the corrective actions require
\* one another, with whatever statuses they are handed in.
THEOREM OrderCorrect == Spec => []ActionsInOrder
  <1>1. DeskInv => ActionsInOrder
    <2> SUFFICES ASSUME DeskInv, NEW i \in Known, NEW a \in ActionsOf(i),
                        NEW b \in incidents[i].actions[a].requires
                 PROVE  /\ b \in ActionsOf(i)
                        /\ incidents[i].actions[a].status \in
                             {"in_progress", "done"} \ {incidents[i].actions[a].added_as}
                           => incidents[i].actions[b].status = "done"
      BY DEF ActionsInOrder
    <2>1. WellFormed(incidents[i])
      BY DEF DeskInv
    <2>2. a \in Actions /\ incidents[i].actions[a] # None
      BY DEF ActionsOf
    <2>3. b \in Actions
      BY <2>1, <2>2 DEF WellFormed, Incident, CorrectiveAction
    <2> QED BY <2>1, <2>2, <2>3 DEF WellFormed, InOrder, ActionsOf
  <1> QED BY <1>1, DeskInvariant, PTL

\* Re-rating and triage keep the deadlines those of the severity.
THEOREM DeadlinesCorrect == Spec => []DeadlinesMatchSeverity
  <1>1. DeskInv => DeadlinesMatchSeverity
    BY DEF DeskInv, WellFormed, OnTime, DeadlinesMatchSeverity
  <1> QED BY <1>1, DeskInvariant, PTL

\* The corrective actions that are left never wait for one another in a circle.
THEOREM ActionsProceed == Spec => []SomeActionCanProceed
  <1>1. DeskInv => SomeActionCanProceed
    <2> SUFFICES ASSUME DeskInv, NEW i \in Known,
                        {a \in ActionsOf(i) : incidents[i].actions[a].status \notin Settled}
                          # {}
                 PROVE  \E a \in {a \in ActionsOf(i) :
                                    incidents[i].actions[a].status \notin Settled} :
                          ActionBlockers(i, a) \cap
                            {b \in ActionsOf(i) :
                               incidents[i].actions[b].status \notin Settled} = {}
      BY DEF SomeActionCanProceed
    <2> DEFINE left == {a \in ActionsOf(i) : incidents[i].actions[a].status \notin Settled}
    <2>1. NoCircle(incidents[i].actions)
      BY DEF DeskInv, WellFormed
    <2>2. left \in SUBSET {a \in Actions : incidents[i].actions[a] # None}
      BY DEF ActionsOf
    <2>3. PICK a \in left : incidents[i].actions[a].requires \cap left = {}
      <3> HIDE DEF left
      <3> QED BY <2>1, <2>2 DEF NoCircle, left
    <2> QED BY <2>3 DEF ActionBlockers
  <1> QED BY <1>1, DeskInvariant, PTL
=============================================================================
