------------------------------ MODULE AuditTrail ------------------------------
(***************************************************************************)
(* audit.py: a chain of events, each with the digest of the one before it. *)
(* It is recorded one by one or in batches, read in pages, replayed, and   *)
(* exported to a file of one line per event that import checks as it reads *)
(* it back.                                                                *)
(*                                                                         *)
(* A digest is the hashed payload itself: SHA-256 is taken to be           *)
(* injective.  A batch takes a step per entry, during which nothing else   *)
(* runs, and an entry that is refused ends it.  Between export and import  *)
(* a file may lose, repeat, exchange or garble lines; it is a copy, and as *)
(* a bound the trail rests while there is one.  Actors, correlation ids,   *)
(* metadata, the limits on text lengths and the summaries are left out; a  *)
(* query is by resource.                                                   *)
(***************************************************************************)
EXTENDS Naturals, SequencesExt

CONSTANTS Resources,
          Entries,      \* the entries that are recorded, a subset of Entry
          ResourceStates,
          Redact,       \* what the policy leaves of a state
          NoState,      \* an entry without a before or an after
          RecordTimes,  \* when entries occur
          EveryResource,\* the query without a resource
          PageLimit,    \* bound: events on a page
          MaxEvents,    \* bound: length of the chain
          MaxFaults,    \* bound: faults of an export file
          NoBatch, NoFile

Entry == [action : {"create", "update", "delete", "login"},
          outcome : {"success", "denied"}, resource : Resources,
          before : ResourceStates \cup {NoState}, after : ResourceStates \cup {NoState},
          reason : {"one line", "two lines"}]

ASSUME AuditAssumption ==
    /\ Entries \subseteq Entry
    /\ Redact \in [ResourceStates -> ResourceStates]
    /\ RecordTimes \subseteq Nat /\ PageLimit \in Nat \ {0}
    /\ MaxEvents \in Nat /\ MaxFaults \in Nat
    /\ NoState \notin ResourceStates /\ EveryResource \notin Resources

VARIABLES trail,     \* _events
          batch,     \* NoBatch or the starting length of record_many
          file,      \* NoFile or an export: its count, its lines, its faults
          restored,  \* NoFile or the events import accepted, and those exported
          reader     \* who reads the pages of a query, from where, and got what

auditVars == <<trail, batch, file, restored, reader>>

Genesis == <<>>
Digest(payload) == <<payload>>
HeadDigest(events) == IF events = <<>> THEN Genesis ELSE events[Len(events)].digest

\* hash_payload: the event without its digest.
HashPayload(event) == [f \in DOMAIN event \ {"digest"} |-> event[f]]

(***************************************************************************)
(* record.  The states are redacted before their shape is looked at: an    *)
(* update that shows no difference any more is refused.                    *)
(***************************************************************************)
Sanitize(state) == IF state = NoState THEN NoState ELSE Redact[state]

ShapeAllowed(action, before, after) ==
    /\ action = "create" => after # NoState
    /\ action = "update" => before # NoState /\ after # NoState /\ before # after
    /\ action = "delete" => before # NoState

Acceptable(entry, occurred_at) ==
    /\ trail # <<>> => trail[Len(trail)].occurred_at <= occurred_at
    /\ ShapeAllowed(entry.action, Sanitize(entry.before), Sanitize(entry.after))

Event(entry, occurred_at) ==
    LET payload == [sequence |-> Len(trail) + 1, occurred_at |-> occurred_at,
                    action |-> entry.action, outcome |-> entry.outcome,
                    resource |-> entry.resource, reason |-> entry.reason,
                    before |-> Sanitize(entry.before), after |-> Sanitize(entry.after),
                    previous_hash |-> HeadDigest(trail)]
    IN  [f \in DOMAIN payload \cup {"digest"} |->
            IF f = "digest" THEN Digest(payload) ELSE payload[f]]

\* Alone or as the next of a batch.
Record(entry, occurred_at) ==
    /\ file = NoFile
    /\ Len(trail) < MaxEvents
    /\ Acceptable(entry, occurred_at)
    /\ trail' = Append(trail, Event(entry, occurred_at))
    /\ UNCHANGED <<batch, file, restored, reader>>

(***************************************************************************)
(* record_many.                                                            *)
(***************************************************************************)
OpenBatch ==
    /\ batch = NoBatch /\ file = NoFile
    /\ batch' = Len(trail)
    /\ UNCHANGED <<trail, file, restored, reader>>

CloseBatch ==
    /\ batch # NoBatch
    /\ batch' = NoBatch
    /\ UNCHANGED <<trail, file, restored, reader>>

\* Mutant: the wrong end of the chain is cut off.
FailBatchFromFront(entry, occurred_at) ==
    /\ batch # NoBatch
    /\ ~Acceptable(entry, occurred_at)
    /\ trail' = SubSeq(trail, batch + 1, Len(trail))
    /\ batch' = NoBatch
    /\ UNCHANGED <<file, restored, reader>>

FailBatch(entry, occurred_at) ==
    /\ batch # NoBatch
    /\ ~Acceptable(entry, occurred_at)
    /\ trail' = SubSeq(trail, 1, batch)
    /\ batch' = NoBatch
    /\ UNCHANGED <<file, restored, reader>>

(***************************************************************************)
(* Reading.                                                                *)
(***************************************************************************)
\* The events at the given places, in order: the loop over the events of a trail.
Chosen(events, places) ==
    LET kept[n \in 0..Len(events)] ==
            IF n = 0 THEN <<>>
            ELSE IF n \in places THEN Append(kept[n - 1], events[n]) ELSE kept[n - 1]
    IN  kept[Len(events)]

Matches(query) == {n \in DOMAIN trail : query \in {EveryResource, trail[n].resource}}
Query(query) == Chosen(trail, Matches(query))

PageOf(selected) ==
    LET full == Len(selected) > PageLimit
        page == SubSeq(selected, 1, IF full THEN PageLimit ELSE Len(selected))
    IN  [events |-> page, has_more |-> full,
         next_sequence |-> IF full THEN page[Len(page)].sequence ELSE 0]

\* Mutant: the page begins with the event the last one ended with.
PageOverlapping(query, after_sequence) ==
    PageOf(Chosen(trail, {n \in Matches(query) : trail[n].sequence >= after_sequence}))

Page(query, after_sequence) ==
    PageOf(Chosen(trail, {n \in Matches(query) : trail[n].sequence > after_sequence}))

NewReader(query) == [query |-> query, after_sequence |-> 0, seen |-> <<>>, done |-> FALSE]

StartReading(query) ==
    /\ batch = NoBatch /\ file = NoFile
    /\ reader' = NewReader(query)
    /\ UNCHANGED <<trail, batch, file, restored>>

\* The reader asks for the page after the last, as long as there is more;
\* events are recorded in between.
ReadPage ==
    /\ batch = NoBatch /\ file = NoFile
    /\ ~reader.done
    /\ LET page == Page(reader.query, reader.after_sequence)
       IN  reader' = [reader EXCEPT !.seen = @ \o page.events, !.done = ~page.has_more,
                                    !.after_sequence = page.next_sequence]
    /\ UNCHANGED <<trail, batch, file, restored>>

Effective(event, resource) == event.resource = resource /\ event.outcome = "success"

\* Mutant: what was deleted is still there.
AfterUndeleted(event, state) == IF event.after # NoState THEN event.after ELSE state

After(event, state) ==
    IF event.action = "delete" THEN NoState
    ELSE IF event.after # NoState THEN event.after ELSE state

StateAt(resource, sequence) ==
    LET state[n \in 0..Len(trail)] ==
            IF n = 0 THEN NoState
            ELSE IF trail[n].sequence > sequence \/ ~Effective(trail[n], resource)
                 THEN state[n - 1]
            ELSE After(trail[n], state[n - 1])
    IN  state[Len(trail)]

(***************************************************************************)
(* verify, of any list of events.                                          *)
(***************************************************************************)
Valid(events) ==
    \A n \in DOMAIN events :
        /\ events[n].sequence = n
        /\ events[n].previous_hash = HeadDigest(SubSeq(events, 1, n - 1))
        /\ events[n].digest = Digest(HashPayload(events[n]))
        /\ n > 1 => events[n - 1].occurred_at <= events[n].occurred_at

(***************************************************************************)
(* Export and import.  Text is written as it is, and read back by lines:   *)
(* an event whose text holds a line separator comes back as two lines that *)
(* are no event.                                                           *)
(***************************************************************************)
\* (The reader starts over: there is no reading while a file is out.)
Export(query) ==
    /\ batch = NoBatch
    /\ file' = [count |-> Len(Query(query)), lines |-> Query(query), faults |-> 0,
                exported |-> Query(query), query |-> query]
    /\ restored' = NoFile
    /\ reader' = NewReader(EveryResource)
    /\ UNCHANGED <<trail, batch>>

\* A fault of the file between export and import: external to the code.
Fault(lines) ==
    /\ file # NoFile /\ restored = NoFile /\ file.faults < MaxFaults
    /\ file' = [file EXCEPT !.lines = lines, !.faults = @ + 1]
    /\ UNCHANGED <<trail, batch, restored, reader>>

LoseLine(k) == Fault(RemoveAt(file.lines, k))
RepeatLine(k) == Fault(InsertAt(file.lines, k, file.lines[k]))
ExchangeLines(k, l) == Fault([file.lines EXCEPT ![k] = file.lines[l], ![l] = file.lines[k]])
GarbleLine(k, resource) == Fault([file.lines EXCEPT ![k].resource = resource])

Readable(lines) == \A k \in DOMAIN lines : lines[k].reason = "one line"

\* Mutant: the count of the header is not compared.
ImportUncounted ==
    /\ file # NoFile /\ restored = NoFile
    /\ Readable(file.lines)
    /\ Valid(file.lines)
    /\ restored' = file.lines
    /\ UNCHANGED <<trail, batch, file, reader>>

Import ==
    /\ file # NoFile /\ restored = NoFile
    /\ Readable(file.lines)
    /\ file.count = Len(file.lines)
    /\ Valid(file.lines)
    /\ restored' = file.lines
    /\ UNCHANGED <<trail, batch, file, reader>>

AuditInit ==
    /\ trail = <<>> /\ batch = NoBatch /\ file = NoFile /\ restored = NoFile
    /\ reader = NewReader(EveryResource)

AuditNext ==
    \/ \E entry \in Entries, occurred_at \in RecordTimes :
           Record(entry, occurred_at) \/ FailBatch(entry, occurred_at)
    \/ OpenBatch \/ CloseBatch
    \/ \E query \in Resources \cup {EveryResource} : StartReading(query) \/ Export(query)
    \/ ReadPage
    \/ /\ file # NoFile
       /\ \E k \in DOMAIN file.lines :
              \/ LoseLine(k) \/ RepeatLine(k)
              \/ \E l \in DOMAIN file.lines : k < l /\ ExchangeLines(k, l)
              \/ \E resource \in Resources \ {file.lines[k].resource} : GarbleLine(k, resource)
    \/ Import

(***************************************************************************)
(* Properties.                                                             *)
(***************************************************************************)
AuditTypeOK ==
    /\ Len(trail) <= MaxEvents
    /\ batch \in 0..MaxEvents \cup {NoBatch}
    /\ file = NoFile \/ file.faults \in 0..MaxFaults
    /\ reader.query \in Resources \cup {EveryResource}

\* What a replay finds, at every point of the past, is what the last event that took
\* effect before it left behind.
ReplayFindsLastEffect ==
    \A resource \in Resources, s \in 0..Len(trail) :
        LET effects == {n \in 1..s : /\ Effective(trail[n], resource)
                                     /\ \/ trail[n].action = "delete"
                                        \/ trail[n].after # NoState}
        IN  StateAt(resource, s) =
                IF effects = {} THEN NoState
                ELSE LET last == CHOOSE n \in effects : \A m \in effects : m <= n
                     IN  IF trail[last].action = "delete" THEN NoState ELSE trail[last].after

\* The chain verifies after every step, in the middle of a batch and after a batch
\* that failed was cut off again included.
ChainVerifies == AuditTypeOK /\ Valid(trail)

\* Import accepts no file but one that holds what was exported, each event once
\* and in order.
ImportedIsExported == restored # NoFile => restored = file.exported

\* Who follows the pages gets every event of the query exactly once, whatever is
\* recorded between two pages, and is told to stop only when there is no more.
ReaderSeesEachOnce ==
    [][ reader'.seen # reader.seen \/ reader'.done # reader.done =>
            \/ reader'.seen = <<>> /\ ~reader'.done
            \/ /\ reader'.done => reader'.seen = Query(reader.query)
               /\ ~reader'.done =>
                      reader'.seen = Chosen(trail, {n \in Matches(reader.query) :
                                                        n <= reader'.after_sequence})
      ]_auditVars

\* An export of the whole trail that suffered no fault can be imported.
OwnExportIsAccepted ==
    file # NoFile /\ file.faults = 0 /\ file.query = EveryResource =>
        Readable(file.lines) /\ Valid(file.lines) /\ file.count = Len(file.lines)
=============================================================================
