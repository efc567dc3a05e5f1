----------------------------- MODULE CueRuntime -----------------------------
(***************************************************************************)
(* domain/cue_engine.py: the run of a validated cue sheet.  Operators arm, *)
(* stand by, fire, complete, fail, skip and reset cues; a poll of the      *)
(* auto-follows completes what is due and fires the next cue; a snapshot   *)
(* brings a run back after a restart.                                      *)
(*                                                                         *)
(* A call is one action.  The loop of process_auto_follows is one step per *)
(* cue (follow is its cursor, and no other call runs meanwhile), because a *)
(* GO that is refused leaves it half way.  The sheet is not edited during  *)
(* its run; the event log is left out.                                     *)
(***************************************************************************)
EXTENDS Naturals, FiniteSets

CONSTANTS Sheets,           \* the cue sheets a run may be made of
          None,             \* no snapshot, no delay, not fired, no loop
          MaxTime,          \* bound: the clock
          MaxSnapshotCues   \* bound: cues of a sheet that is snapshotted

VARIABLES sheet,     \* [cues, requires, critical, delay]
          phase,     \* started_at and ended_at: "new", "running" or "ended"
          states,    \* cue -> CueState
          armed,     \* critical cues with the safety arm on
          firedAt,   \* cue -> time of its last GO, or None
          follow,    \* None, or process_auto_follows at a cue
          saved,     \* None, or the CueRunSnapshot kept outside the process
          now        \* the clock

vars == <<sheet, phase, states, armed, firedAt, follow, saved, now>>

Cues == sheet.cues
States == {"pending", "standby", "fired", "completed", "failed", "skipped"}
Terminal == {"completed", "failed", "skipped"}
Done == {"completed", "skipped"}
Times == 0..MaxTime

(***************************************************************************)
(* The sheet.                                                              *)
(***************************************************************************)
\* Mutant: only what requires the cue itself.
DirectDependants(s, c) == {d \in s.cues : c \in s.requires[d]}

\* The cues that depend on c, directly or through others: the least set that
\* holds whatever requires c or a member.
Dependants(s, c) ==
    LET closed(D) == \A d \in s.cues : s.requires[d] \cap (D \cup {c}) # {} => d \in D
    IN  {d \in s.cues : \A D \in SUBSET s.cues : closed(D) => d \in D}

\* CueSheet.validate: no dependency is missing and none is circular.
Valid(s) ==
    /\ \A c \in s.cues : s.requires[c] \subseteq s.cues
    /\ \A c \in s.cues : c \notin Dependants(s, c)

CueAfter(c) ==
    LET later == {d \in Cues : d > c}
    IN  IF later = {} THEN None ELSE CHOOSE d \in later : \A e \in later : d <= e

First == CHOOSE c \in Cues : \A d \in Cues : c <= d

ASSUME SheetAssumption ==
    /\ None \notin Nat /\ MaxTime \in Nat
    /\ \A s \in Sheets :
         /\ s.cues \subseteq Nat /\ s.cues # {} /\ IsFiniteSet(s.cues)
         /\ s.requires \in [s.cues -> SUBSET Nat]
         /\ s.critical \subseteq s.cues
         /\ s.delay \in [s.cues -> Nat \cup {None}]
ASSUME NoneAssumption == None \notin [cue : Nat, moment : Nat]

\* blocking_dependencies, in the states st.
Blocked(st, c) == \E d \in sheet.requires[c] : st[d] \notin Done

ReadyCues == {c \in Cues : states[c] = "pending" /\ ~Blocked(states, c)}

(***************************************************************************)
(* Operator calls.                                                         *)
(***************************************************************************)
Running == phase = "running" /\ follow = None

Start ==
    /\ phase = "new" /\ follow = None
    /\ phase' = "running"
    /\ UNCHANGED <<sheet, states, armed, firedAt, follow, saved, now>>

Arm(c) ==
    /\ Running
    /\ c \in sheet.critical
    /\ states[c] \notin Terminal
    /\ armed' = armed \cup {c}
    /\ UNCHANGED <<sheet, phase, states, firedAt, follow, saved, now>>

Disarm(c) ==
    /\ Running
    /\ c \in armed
    /\ armed' = armed \ {c}
    /\ UNCHANGED <<sheet, phase, states, firedAt, follow, saved, now>>

Standby(c) ==
    /\ Running
    /\ states[c] = "pending"
    /\ ~Blocked(states, c)
    /\ states' = [states EXCEPT ![c] = "standby"]
    /\ UNCHANGED <<sheet, phase, armed, firedAt, follow, saved, now>>

ArmedIfCritical(c) == c \in sheet.critical => c \in armed

Go(c, force) ==
    /\ Running
    /\ force \/ (states[c] = "standby" /\ ~Blocked(states, c))
    /\ ArmedIfCritical(c)
    /\ states' = [states EXCEPT ![c] = "fired"]
    /\ firedAt' = [firedAt EXCEPT ![c] = now]
    /\ armed' = armed \ {c}
    /\ UNCHANGED <<sheet, phase, follow, saved, now>>

Complete(c) ==
    /\ Running
    /\ states[c] = "fired"
    /\ states' = [states EXCEPT ![c] = "completed"]
    /\ UNCHANGED <<sheet, phase, armed, firedAt, follow, saved, now>>

Fail(c) ==
    /\ Running
    /\ states[c] \in {"standby", "fired"}
    /\ states' = [states EXCEPT ![c] = "failed"]
    /\ armed' = armed \ {c}
    /\ UNCHANGED <<sheet, phase, firedAt, follow, saved, now>>

Skip(c) ==
    /\ Running
    /\ states[c] \in {"pending", "standby"}
    /\ states' = [states EXCEPT ![c] = "skipped"]
    /\ armed' = armed \ {c}
    /\ UNCHANGED <<sheet, phase, firedAt, follow, saved, now>>

Reset(c, cascade) ==
    LET affected == {c} \cup (IF cascade THEN Dependants(sheet, c) ELSE {})
    IN  /\ Running
        /\ cascade \/ \A d \in Dependants(sheet, c) : states[d] = "pending"
        /\ states' = [d \in Cues |-> IF d \in affected THEN "pending" ELSE states[d]]
        /\ firedAt' = [d \in Cues |-> IF d \in affected THEN None ELSE firedAt[d]]
        /\ armed' = armed \ affected
        /\ UNCHANGED <<sheet, phase, follow, saved, now>>

Unfinished == {c \in Cues : states[c] \notin Terminal}

End(allow_incomplete) ==
    /\ Running
    /\ Unfinished = {} \/ allow_incomplete
    /\ phase' = "ended"
    /\ UNCHANGED <<sheet, states, armed, firedAt, follow, saved, now>>

WithState(in) == {c \in Cues : states[c] \in in}

\* report
RunReport ==
    [total_cues |-> Cardinality(Cues),
     completed |-> Cardinality(WithState({"completed"})),
     failed |-> Cardinality(WithState({"failed"})),
     skipped |-> Cardinality(WithState({"skipped"})),
     pending |-> Cardinality(WithState({"pending", "standby", "fired"})),
     critical_failures |-> WithState({"failed"}) \cap sheet.critical]

Successful ==
    RunReport.failed = 0 /\ RunReport.pending = 0 /\ RunReport.critical_failures = {}

(***************************************************************************)
(* process_auto_follows, for the moment the caller names.                  *)
(***************************************************************************)
StartFollows(moment) ==
    /\ Running
    /\ follow' = [cue |-> First, moment |-> moment]
    /\ UNCHANGED <<sheet, phase, states, armed, firedAt, saved, now>>

Due(c, moment) ==
    /\ states[c] = "fired"
    /\ sheet.delay[c] # None
    /\ firedAt[c] + sheet.delay[c] <= moment

\* The loop goes on with the next cue of the sheet, or returns.
Advance ==
    follow' = IF CueAfter(follow.cue) = None THEN None
              ELSE [follow EXCEPT !.cue = CueAfter(follow.cue)]

FollowPasses ==
    /\ follow # None
    /\ ~Due(follow.cue, follow.moment)
    /\ Advance
    /\ UNCHANGED <<sheet, phase, states, armed, firedAt, saved, now>>

\* The states with the cue under the cursor completed, and whether the next
\* cue of the sheet may then stand by.
Elapsed == [states EXCEPT ![follow.cue] = "completed"]
NextCue == CueAfter(follow.cue)
NextIsReady ==
    NextCue # None /\ states[NextCue] = "pending" /\ ~Blocked(Elapsed, NextCue)

FollowCompletes ==
    /\ follow # None
    /\ Due(follow.cue, follow.moment)
    /\ ~NextIsReady
    /\ states' = Elapsed
    /\ Advance
    /\ UNCHANGED <<sheet, phase, armed, firedAt, saved, now>>

\* Mutant: the next cue is fired without a look at its arm.
FollowFiresUnarmed ==
    /\ follow # None
    /\ Due(follow.cue, follow.moment)
    /\ NextIsReady
    /\ states' = [Elapsed EXCEPT ![NextCue] = "fired"]
    /\ firedAt' = [firedAt EXCEPT ![NextCue] = now]
    /\ armed' = armed \ {NextCue}
    /\ Advance
    /\ UNCHANGED <<sheet, phase, saved, now>>

\* Mutant: the poll returns with the first cue it has fired.
FollowFiresOnce ==
    /\ follow # None
    /\ Due(follow.cue, follow.moment)
    /\ NextIsReady
    /\ ArmedIfCritical(NextCue)
    /\ states' = [Elapsed EXCEPT ![NextCue] = "fired"]
    /\ firedAt' = [firedAt EXCEPT ![NextCue] = now]
    /\ armed' = armed \ {NextCue}
    /\ follow' = None
    /\ UNCHANGED <<sheet, phase, saved, now>>

FollowFires ==
    /\ follow # None
    /\ Due(follow.cue, follow.moment)
    /\ NextIsReady
    /\ ArmedIfCritical(NextCue)
    /\ states' = [Elapsed EXCEPT ![NextCue] = "fired"]
    /\ firedAt' = [firedAt EXCEPT ![NextCue] = now]
    /\ armed' = armed \ {NextCue}
    /\ Advance
    /\ UNCHANGED <<sheet, phase, saved, now>>

\* go refuses a critical cue that is not armed: the poll raises, and the cue
\* stays in standby.
FollowRaises ==
    /\ follow # None
    /\ Due(follow.cue, follow.moment)
    /\ NextIsReady
    /\ ~ArmedIfCritical(NextCue)
    /\ states' = [Elapsed EXCEPT ![NextCue] = "standby"]
    /\ follow' = None
    /\ UNCHANGED <<sheet, phase, armed, firedAt, saved, now>>

(***************************************************************************)
(* Snapshots, restarts and time.                                           *)
(***************************************************************************)
TakeSnapshot ==
    /\ follow = None
    /\ Cardinality(Cues) <= MaxSnapshotCues
    /\ saved' = [phase |-> phase, states |-> states, armed |-> armed,
                 firedAt |-> firedAt]
    /\ UNCHANGED <<sheet, phase, states, armed, firedAt, follow, now>>

\* Mutant: the times of the GOs are not restored.
BecomesWithoutTimes(r) ==
    /\ phase' = r.phase
    /\ states' = r.states
    /\ armed' = r.armed
    /\ UNCHANGED firedAt

Becomes(r) ==
    /\ phase' = r.phase
    /\ states' = r.states
    /\ armed' = r.armed
    /\ firedAt' = r.firedAt

Restore ==
    /\ follow = None
    /\ saved # None
    /\ Becomes(saved)
    /\ UNCHANGED <<sheet, follow, saved, now>>

Fresh == [phase |-> "new", states |-> [c \in Cues |-> "pending"], armed |-> {},
          firedAt |-> [c \in Cues |-> None]]

\* The process restarts with a new CueRuntime of the sheet.
Restart ==
    /\ Becomes(Fresh)
    /\ follow' = None
    /\ UNCHANGED <<sheet, saved, now>>

Tick ==
    /\ now < MaxTime
    /\ now' = now + 1
    /\ UNCHANGED <<sheet, phase, states, armed, firedAt, follow, saved>>

Init ==
    /\ sheet \in {s \in Sheets : Valid(s)}
    /\ phase = Fresh.phase
    /\ states = Fresh.states
    /\ armed = Fresh.armed
    /\ firedAt = Fresh.firedAt
    /\ follow = None
    /\ saved = None
    /\ now = 0

Operate(c) ==
    \/ Arm(c) \/ Disarm(c) \/ Standby(c) \/ Complete(c) \/ Fail(c) \/ Skip(c)
    \/ \E force \in BOOLEAN : Go(c, force)
    \/ \E cascade \in BOOLEAN : Reset(c, cascade)

Next ==
    \/ Start
    \/ \E c \in Cues : Operate(c)
    \/ \E allow_incomplete \in BOOLEAN : End(allow_incomplete)
    \/ \E moment \in Times : StartFollows(moment)
    \/ FollowPasses \/ FollowCompletes \/ FollowFires \/ FollowRaises
    \/ TakeSnapshot \/ Restore \/ Restart \/ Tick

Spec == Init /\ [][Next]_vars

-----------------------------------------------------------------------------
RunOK(r) ==
    /\ r.phase \in {"new", "running", "ended"}
    /\ r.states \in [Cues -> States]
    /\ r.armed \subseteq sheet.critical
    /\ r.firedAt \in [Cues -> Times \cup {None}]

Current == [phase |-> phase, states |-> states, armed |-> armed, firedAt |-> firedAt]

TypeOK ==
    /\ sheet \in Sheets
    /\ RunOK(Current)
    /\ follow \in {None} \cup [cue : Cues, moment : Times]
    /\ saved = None \/ RunOK(saved)
    /\ now \in Times

FiredCuesHaveTime ==
    \A c \in Cues : states[c] = "fired" => firedAt[c] \in 0..now

FailedCuesAreSafe ==
    \A c \in Cues : states[c] \in {"failed", "skipped"} => c \notin armed

SomeCueIsReady ==
    (\A c \in Cues : states[c] \in Done \cup {"pending"})
       => ReadyCues # {} \/ \A c \in Cues : states[c] \in Done

ReportAddsUp ==
    /\ RunReport.total_cues = RunReport.completed + RunReport.failed + RunReport.skipped
                                + RunReport.pending
    /\ RunReport.pending = 0 <=> Unfinished = {}
    /\ Successful => \A c \in Cues : states[c] \in Done /\ ~Blocked(states, c)

\* The poll of the auto-follows can read the time of every cue that is fired:
\* no sequence of resets, restores and forced GOs leaves one without it, and
\* none is later than the clock.  A cue that failed or was skipped has lost its
\* safety arm, so not even a forced GO fires it again before an operator arms
\* it again.  A valid sheet never gets stuck: with no cue in standby, fired or
\* failed, some pending cue is ready unless all are done.  A report that calls
\* the run successful leaves no cue out, whatever was forced or reset.
RunIsSound ==
    /\ TypeOK /\ FiredCuesHaveTime /\ FailedCuesAreSafe
    /\ SomeCueIsReady /\ ReportAddsUp

\* The dependencies that cues in progress or performed have ahead of them.
Unmet == {p \in Cues \X Cues :
            /\ p[2] \in sheet.requires[p[1]]
            /\ states[p[1]] \in {"standby", "fired", "completed", "failed"}
            /\ states[p[2]] \notin Done}

\* Only a forced GO or the return to an earlier snapshot puts a cue ahead of
\* what it requires: no reset and no auto-follow does.
DependenciesStayMet ==
    [][Unmet' \subseteq Unmet \/ Restore \/ \E c \in Cues : Go(c, TRUE)]_vars

\* A critical cue is fired only with its arm on, and that uses the arm up.
FiringUsesTheArm ==
    [][\A c \in sheet.critical :
          states[c] # "fired" /\ states'[c] = "fired" /\ ~Restore
             => c \in armed /\ c \notin armed']_vars

\* When the poll returns, nothing is due at its moment any more: a chain of
\* follows without delay runs through in one call.
FollowsAreDrained ==
    [][\A moment \in Times :
          /\ follow # None /\ follow.moment = moment /\ follow' = None
          /\ ~FollowRaises /\ ~Restart
          => \A c \in Cues : ~Due(c, moment)']_vars
=============================================================================
