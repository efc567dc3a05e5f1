------------------------------ MODULE CallSheet ------------------------------
(***************************************************************************)
(* domain/call_sheet.py: who is called for a performance, when and where.  *)
(* The called acknowledge, arrive or are excused; the sheet is published   *)
(* in revisions and sent out to the people on it.                          *)
(*                                                                         *)
(* A call is one action.  Time, place and status are saved first and the   *)
(* change is logged after, and logging refuses a blank actor: the save     *)
(* stays (traced is FALSE).  Acknowledging is never logged.  Roles,        *)
(* departments, notes, contact details and the moment of an arrival, which *)
(* only the report of the late reads, are left out.                        *)
(***************************************************************************)
EXTENDS Naturals, Sequences, FiniteSets

CONSTANTS CallIds, People, Places,
          CallTimes,      \* times proposed for calls
          AccessAt,       \* when the venue opens, or NoAccess
          PerformanceAt,  \* when the performance starts
          NoAccess,       \* when the venue opens is not said
          NoCall,         \* no such call
          NotYet,         \* no agreed terms
          MaxChanges,     \* bound: changes, logged or not, and one not logged per call
          MaxRevisions    \* bound: published revisions

VARIABLES contacts,   \* people with a contact
          calls,      \* id -> NoCall or Call
          changes,    \* the change log
          snapshots,  \* the time and place of the calls of each published revision
          agreed,     \* id -> the terms last acknowledged
          untraced    \* calls with a change that did not reach the log

sheetVars == <<contacts, calls, changes, snapshots, agreed, untraced>>

CallStatus == {"called", "acknowledged", "arrived", "excused"}

Call == [person : People, call_at : CallTimes, location : Places, status : CallStatus,
         acknowledged : BOOLEAN]

ASSUME NoCallAssumption == NoCall \notin Call

OnSheet == {c \in CallIds : calls[c] # NoCall}
Terms(c) == [call_at |-> calls[c].call_at, location |-> calls[c].location]

\* _validate_call_time
CallTimeAllowed(call_at) ==
    call_at <= PerformanceAt /\ (AccessAt # NoAccess => AccessAt <= call_at)

(***************************************************************************)
(* The last two steps of every change: save the call, log the change.  A   *)
(* blank actor is refused in the second.                                   *)
(***************************************************************************)
SaveCall(c, call) == calls' = [calls EXCEPT ![c] = call]

\* Mutant: the call is saved before its entry is made out.
ChangeAfterSave(c, field, current, traced) ==
    /\ Len(changes) + Cardinality(untraced) < MaxChanges
    /\ IF traced
       THEN /\ changes' = Append(changes, [call_id |-> c, field |-> field,
                                           previous |-> current, current |-> current])
            /\ UNCHANGED untraced
       ELSE /\ c \notin untraced
            /\ untraced' = untraced \cup {c}
            /\ UNCHANGED changes
    /\ UNCHANGED <<contacts, snapshots, agreed>>

Change(c, field, current, traced) ==
    /\ Len(changes) + Cardinality(untraced) < MaxChanges
    /\ IF traced
       THEN /\ changes' = Append(changes, [call_id |-> c, field |-> field,
                                           previous |-> calls[c][field], current |-> current])
            /\ UNCHANGED untraced
       ELSE /\ c \notin untraced
            /\ untraced' = untraced \cup {c}
            /\ UNCHANGED changes
    /\ UNCHANGED <<contacts, snapshots, agreed>>

(***************************************************************************)
(* Building the sheet.                                                     *)
(***************************************************************************)
AddContact(p) ==
    /\ p \notin contacts
    /\ contacts' = contacts \cup {p}
    /\ UNCHANGED <<calls, changes, snapshots, agreed, untraced>>

SameCall(a, b) == <<a.person, a.call_at, a.location>> = <<b.person, b.call_at, b.location>>

\* The call is stored as it is given: in any status, and acknowledged or not, which is
\* then an agreement to its own terms.
AddCall(c, call) ==
    /\ c \notin OnSheet
    /\ call.person \in contacts
    /\ CallTimeAllowed(call.call_at)
    /\ \A d \in OnSheet : ~SameCall(calls[d], call)
    /\ SaveCall(c, call)
    /\ agreed' = [agreed EXCEPT ![c] =
                      IF call.acknowledged
                      THEN [call_at |-> call.call_at, location |-> call.location] ELSE @]
    /\ UNCHANGED <<contacts, changes, snapshots, untraced>>

(***************************************************************************)
(* Changing the terms of a call: the person has to acknowledge again.      *)
(***************************************************************************)
Reschedule(c, call_at, traced) ==
    /\ c \in OnSheet
    /\ calls[c].status \notin {"arrived", "excused"}
    /\ CallTimeAllowed(call_at)
    /\ SaveCall(c, [calls[c] EXCEPT !.call_at = call_at, !.status = "called",
                                    !.acknowledged = FALSE])
    /\ Change(c, "call_at", call_at, traced)

\* Mutant: an acknowledgement outlives the move.
MoveQuietly(c, location, traced) ==
    /\ c \in OnSheet
    /\ SaveCall(c, [calls[c] EXCEPT !.location = location])
    /\ Change(c, "location", location, traced)

\* Nothing is asked of the status: an arrived or excused call is called again,
\* and the recorded arrival stays on it.
ChangeLocation(c, location, traced) ==
    /\ c \in OnSheet
    /\ SaveCall(c, [calls[c] EXCEPT !.location = location, !.status = "called",
                                    !.acknowledged = FALSE])
    /\ Change(c, "location", location, traced)

(***************************************************************************)
(* The called answer.                                                      *)
(***************************************************************************)
Acknowledge(c, p) ==
    /\ c \in OnSheet
    /\ calls[c].person = p
    /\ calls[c].status = "called"
    /\ SaveCall(c, [calls[c] EXCEPT !.status = "acknowledged", !.acknowledged = TRUE])
    /\ agreed' = [agreed EXCEPT ![c] = Terms(c)]
    /\ UNCHANGED <<contacts, changes, snapshots, untraced>>

\* Also from called, and again from arrived.
MarkArrived(c, traced) ==
    /\ c \in OnSheet
    /\ calls[c].status # "excused"
    /\ SaveCall(c, [calls[c] EXCEPT !.status = "arrived"])
    /\ Change(c, "status", "arrived", traced)

Excuse(c, traced) ==
    /\ c \in OnSheet
    /\ calls[c].status # "arrived"
    /\ SaveCall(c, [calls[c] EXCEPT !.status = "excused"])
    /\ Change(c, "status", "excused", traced)

(***************************************************************************)
(* Publishing.  The snapshot is built, and a blank actor refused, before   *)
(* anything is kept.  A dispatch carries the latest revision and the calls *)
(* of now.                                                                 *)
(***************************************************************************)
Publish ==
    /\ OnSheet # {}
    /\ Len(snapshots) < MaxRevisions
    /\ snapshots' = Append(snapshots, [c \in OnSheet |-> Terms(c)])
    /\ UNCHANGED <<contacts, calls, changes, agreed, untraced>>

Dispatches ==
    [p \in {calls[c].person : c \in {d \in OnSheet : calls[d].status # "excused"}} |->
        [revision |-> Len(snapshots),
         call_ids |-> {c \in OnSheet : calls[c].person = p /\ calls[c].status # "excused"}]]

\* report, without the calls that are late.
WithStatus(statuses) == {c \in OnSheet : calls[c].status \in statuses}

SheetReport ==
    [revision |-> Len(snapshots),
     total |-> Cardinality(OnSheet),
     acknowledged |-> Cardinality(WithStatus({"acknowledged", "arrived"})),
     arrived |-> Cardinality(WithStatus({"arrived"})),
     excused |-> Cardinality(WithStatus({"excused"})),
     unacknowledged |-> WithStatus({"called"})]

\* No call is made: the bound leaves no change to make.
SheetRests == Len(changes) + Cardinality(untraced) = MaxChanges /\ UNCHANGED sheetVars

SheetInit ==
    /\ contacts = {} /\ untraced = {}
    /\ calls = [c \in CallIds |-> NoCall]
    /\ agreed = [c \in CallIds |-> NotYet]
    /\ changes = <<>> /\ snapshots = <<>>

SheetNext ==
    \/ \E p \in People : AddContact(p)
    \/ \E c \in CallIds \ OnSheet, call \in Call : AddCall(c, call)
    \/ \E c \in CallIds, p \in People : Acknowledge(c, p)
    \/ \E c \in CallIds, traced \in BOOLEAN :
           \/ Excuse(c, traced) \/ MarkArrived(c, traced)
           \/ \E location \in Places : ChangeLocation(c, location, traced)
           \/ \E call_at \in CallTimes :
                  Reschedule(c, call_at, traced)
    \/ Publish
    \/ SheetRests

(***************************************************************************)
(* Properties.                                                             *)
(***************************************************************************)
SheetTypeOK ==
    /\ contacts \subseteq People /\ untraced \subseteq CallIds
    /\ calls \in [CallIds -> Call \cup {NoCall}]
    /\ agreed \in [CallIds -> [call_at : CallTimes, location : Places] \cup {NotYet}]
    /\ \A r \in DOMAIN snapshots : DOMAIN snapshots[r] \subseteq OnSheet
    /\ \A n \in DOMAIN changes : changes[n].call_id \in CallIds

Logged(c, field) == {n \in DOMAIN changes : changes[n].call_id = c /\ changes[n].field = field}

\* The change log accounts for time and place: the entries of a call follow on each
\* other and end in what the sheet says, and every published revision shows terms the
\* log knows of.
LogTellsTimeAndPlace ==
    \A c \in OnSheet \ untraced, field \in {"call_at", "location"} :
        LET Later(n) == {m \in Logged(c, field) : m > n}
            known == {changes[n].previous : n \in Logged(c, field)} \cup {calls[c][field]}
        IN  /\ \A n \in Logged(c, field) :
                  \/ Later(n) = {} /\ changes[n].current = calls[c][field]
                  \/ \E m \in Later(n) : /\ \A l \in Later(n) : m <= l
                                         /\ changes[n].current = changes[m].previous
            /\ \A r \in DOMAIN snapshots :
                   c \in DOMAIN snapshots[r] => snapshots[r][c][field] \in known

\* Whoever counts as having acknowledged agreed to the time and place that are
\* on the sheet now, whatever status the call was added in and whatever changes, arrivals
\* and returns lie in between, and a dispatch leaves nobody out who has a call and is not
\* excused; the report has every call in one column, and a published sheet is never empty.
\* The log accounts for how the terms came about.
SheetTellsTerms ==
    /\ SheetTypeOK
    /\ \A c \in OnSheet : calls[c].acknowledged => agreed[c] = Terms(c)
    /\ \A c \in OnSheet : \/ calls[c].status = "excused"
                          \/ c \in Dispatches[calls[c].person].call_ids
    /\ SheetReport.acknowledged + SheetReport.excused
           + Cardinality(SheetReport.unacknowledged) = SheetReport.total
    /\ SheetReport.revision > 0 => SheetReport.total > 0
    /\ LogTellsTimeAndPlace
=============================================================================
