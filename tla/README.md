# Lumenstage in TLA+

Lumenstage (`src/src/lumenstage`) keeps the catalog of a theatre company in one
JSON document and offers, around it, day packs (what a production needs on one
day), and ledgers and boards for the rest of the work: inventory, cues,
incidents, readiness, call sheets, rights, box office, scheduling and auditing.
This directory holds TLA+ modules of its stateful parts, the TLC configurations
that check them on small instances, and proofs of what holds on every instance.

## The system

| Part | State | Operations | Talks to |
|------|-------|------------|----------|
| JSON document store (`storage/store.py`, `transaction.py`) | the document with its revision and schema version, a temporary file, backups, an `RLock` | `write_collection`, `mutate_collection`, `replace_snapshot`, transactions, `backup_to`, `restore_from`, reads | every service; the file system |
| Schema migrations (`storage/migrations.py`) | registered migrations | plan a path, migrate a snapshot | `snapshot` and `replace_snapshot` of the store |
| Catalog services and repository (`services/base.py`, `registry.py`, `storage/repository.py`) | none of their own | list, get, create, update, archive, delete | one store call per read and per save |
| Queries (`storage/query.py`, `utils/pagination.py`) | none | filter, sort, page, aggregate | rows read from the store |
| Records and their lifecycles (`models/`, the other `services/`, `domain/show_pipeline.py`) | one row each | stages, holds, sales, check-out, publishing, locking, casting | get, change a copy, save |
| Day packs (`services/day_pack.py`, `models/day_pack.py`, `domain/day_pack.py`) | the `day_packs` collection | build, rebuild, publish | reads the other collections through the services |
| Inventory ledger (`domain/inventory.py`) | items, balances, units, reservations, maintenance tickets, movement log | receive, transfer, issue, return, adjust, reserve, fulfil, release, expire, maintenance, retire, reorder suggestions | in memory |
| Cue sheet and runtime (`domain/cue_engine.py`) | cues and their requirements; states of cues, arms, times of GOs, snapshots | add, remove, renumber, validate; start, arm, standby, go, complete, fail, skip, reset, auto-follow poll, snapshot, restore, end, report | the sheet, shared with its editors |
| Incident desk (`domain/incidents.py`) | incidents with corrective actions, timeline | report, triage, re-rate, investigate, resolve, close, reopen, actions | in memory |
| Readiness board (`domain/readiness.py`) | items with evidence and decisions, events | add, add_all, start, add_evidence, pass, fail, waive, reopen, assign | in memory |
| Call sheet (`domain/call_sheet.py`) | contacts, calls, change log, published revisions | add, reschedule, move, acknowledge, arrive, excuse, publish, dispatch, report | in memory |
| Rights ledger (`domain/rights.py`) | grants, uses | grant, replace, quote, authorize, revoke, exposure | in memory |
| Box office ledger (`domain/box_office_ledger.py`) | bands, sales with refunds | add a band, sell, refund, release, settle, reconcile | in memory |
| Scheduling engine (`domain/scheduling.py`) | resources with availability, bookings | book, series, move, change status, free time, timelines | in memory |
| Audit trail (`audit.py`) | a hash chain of events | record, batch, query, replay, export, import | in memory |
| HTTP API (`api/`) and command line (`cli/`) | none | parse a request, call a service | the services; the API runs several requests on one store |
| Conflict checks, validators, reporting, settings, utilities | none | pure functions | called by services and routes |

What is hard in it:

- **Concurrency** exists where threads of the API share one store object. The
  store protects each call by its lock; a service that makes two calls has no
  protection between them.
- **Crashes and failing writes**: the store writes a temporary file and renames
  it; either half can fail, and the process can die between them. The lock has
  to be given back on every path.
- **Files that come back changed**: an exported trail that lost, repeated,
  exchanged or changed lines is imported.
- **Calls that raise half way**: the ledgers and boards change an object and
  validate, record or issue afterwards. What a refused call leaves behind is
  part of the state space.
- **Long sequences of legal calls**: reopen, reset, restore, re-rate, cancel,
  replace and release undo what other records rely on.
- **Boundaries**: half-open periods, days of 23 and 25 hours, weeks that are
  jumped over, half cents, stock and seats at their limit, evidence that expires
  at the moment of the decision.

What makes each part correct: the store serializes writes and numbers them;
what a completed request did is in the rows unless another request ran inside
it; a day has one pack, which tells the schedule of that day, and a published
one is final; the stock log explains the stock and nothing is promised twice; a
unit is in one place in one state; a critical cue fires only when armed and no
cue runs ahead of what it requires; a settled incident is settled; a passed item
had its evidence; an acknowledgement is of the terms on the sheet; a chain of
events verifies and tells what happened; a clash of bookings is one somebody
allowed; uses stay within their grants; seats and money add up.

## The modules

Every module names the file it models. A call is one action unless other calls
can run, or the process can die, in the middle of it. A call that raises
without having changed anything is no step. A definition whose comment begins
with "Mutant:" is a plausible bug in the definition after it; nothing uses it.
It documents what the property named in `PROJECT.json` would catch. Variables
marked "history" in a module record what happened, for the properties; no guard
of an action reads them, except where a bound is named.

    StoreSpec <--implements-- JsonStore
        | (why one store call is one step)
        v
    CatalogServices = DayPackService | EntityCatalog(RowQuery)
                      | DayAssembly | RecordLifecycles
    PerformanceDay  = ReadinessBoard | CallSheet | AuditTrail | Scheduling
                      | RightsLedger | BoxOffice | CueSheet
    BulkStock, SerializedAssets, CueRuntime, IncidentDesk

### JsonStore, StoreSpec, JsonStoreProofs

`JsonStore` models one process with several threads on one store object.
`owner` and `depth` are the `RLock`; `frames[t]` is the stack of the store calls
that thread `t` is in, and each frame keeps what the Python frame keeps: the
document read under the lock (`start`, `data`), the expected revision, and its
phase ("locked", "open": the caller's block or mutator runs, "torn" and "whole":
the temporary file, "done" and "gone": committed and rolled back). `disk`, `tmp`
and `backup` are files and survive `Crash`. `snap` is a document a thread holds
from `snapshot`, the `revision` property or a backup it has read.

| Code | Actions |
|------|---------|
| entering a call, `__enter__` | `Acquire`, then `EntryRaises`, `OpenBody`, `PrepareWrite` or `PrepareReplace` |
| `_write`: temporary file, then `replace` | `FinishTemporary`, `ReplaceDocument`; `WriteFails` for `OSError` in either |
| body of a transaction | `TxWrite`, `TxRename`, `TxSetSchema`, `TxRollback`, `TxCommit` |
| `__exit__` | `TxLeave` (exception, or nothing left to commit), `TxExitCommit` |
| a mutator of `mutate_collection` | `MutatorReturns`, `MutatorRaises` |
| `snapshot`, `backup_to`, reading in `restore_from` | `Snapshot`, `BackupTo`, `ReadBackup` |

`StoreSpec` says what the store promises without lock or files: clients edit
private copies, and a copy is committed only on the revision it was taken from,
which advances by one. `JsonStore` implements it under the mapping
`doc <- disk`, `work <- abstractWork` (the copy of the thread that is working on
one), checked as the property `ImplementsStoreSpec` and proved.

The `RLock` is re-entrant, so callers may nest store calls in one thread.
`MaxDepth` says how deep. With 1 everything below holds; with 2 the revision
sequence breaks (see the findings), so the theorems about data assume
`MaxDepth = 1` and say so, and those about the lock do not.

### EntityCatalog and RowQuery

Requests of the catalog routes and migrations, on one store. A request is what
`services/base.py` does: `BeginCreate`, `BeginUpdate` (also archiving) and
`BeginDelete` are its read with the checks it makes, `SaveRow` and `DeleteRow`
the save or delete in a later store call; `RequestLost` is one that ends in
between. `BeginMigrate` takes a snapshot and computes the migrated document from
it, `CommitMigration` is `replace_snapshot` with the expected revision,
`RefuseMigration` its refusal. A registry maps each version to the functions
composed for it (renaming a collection, adding a field, dropping rows).

`RowQuery` holds `Query.execute`, `aggregate` and `paginate` as operators: the
stable sorts are made one after the other, from the last key, as the code does
(`Sorted`), and `QueryReference` beside them says in one sort what must come out.
`Queries` and `PageSizes` are what a caller may ask for. A read changes nothing
and is no step. `CatalogRests` is no operation either: no request is being served,
and the bounds may leave none to make (`SheetRests` and `BoxRests` below are alike).

### RecordLifecycles

The operations that guard a change of one record: the stages of a production
and the pipeline that advances them, the preview hold, recorded sales, the
check-out of an asset, a program and its publication, a showbook and its lock, a
role with its understudies. As in the services, a caller gets the record
(`copy`), checks and changes its copy, and saves it whole (`SaveCopy`).
The generic `Update` merges whatever metadata a request gives, past the guards of
the operations. Three histories stand beside the state: `promised` is what the
completed calls told their callers, `outrun` the kinds of which somebody saved over
the save of another, `overruled` those of which an update gave a promised field.

### DayPackService and DayAssembly

`DayPackService`: requests of several worker threads on one store. `build` makes
one store call per collection it reads, one to look for the pack of the day and
one to save; each is an action. Catalog edits go on in between. A collection is
abstracted to the number of edits it has had, and a section of a pack to the
number at which it was read. Publishing is a read and a save as well, alone or
as the end of a build. `RequestFails` is a request that ends in the middle.

`DayAssembly`: what is in a pack. `PackContent` is the computation of
`domain/day_pack.py`: the window of the day in the zone of the production (UTC
when the zone is unknown), performances and rehearsals of that window, conflicts
of rehearsals, gaps, the call timeline. Its actions edit the rows. A zone is the
instants its local days begin at, so that days can be shorter or longer.

### CatalogServices, CatalogServicesProofs

Composes the four above. They meet in the store alone, each in collections of
its own: a build only reads the catalog, which `EditCatalog` edits, and no
request of the catalog looks at a pack. A behaviour therefore is one of them at
work and the others at rest, and what holds of one holds of all together.
That a store call is one step of these modules is what `StoreSpec` says.
`CatalogServicesProofs` proves about `ServicesSpec` what holds of the packs, the
rows, the migrations and the records.

### BulkStock, BulkStockProofs, SerializedAssets, SerializedAssetsProofs

The two branches of `InventoryLedger`. They share no state (an item is of one
kind), so each is a module. `BulkStock` follows one item: balances per location,
reservations of a quantity for a window, the movement log as a sequence, the
history of a location and the reorder suggestions. `SerializedAssets` follows
units with a location, condition and status, reservations that name units, and
maintenance tickets; all three write the status of a unit, which is what its
properties are about. `FulfillRaises` and `CompletionRaises` are the two calls
that raise with half of their changes made: a fulfilment that has freed some
units when the issue refuses them, and a completed ticket whose next due date
has no time zone.

Windows are half-open, as in the code. A reservation arrives as held and a
ticket as open, as every caller in the repository and its tests passes them.

### CueSheet, CueRuntime, CueRuntimeProofs

`CueSheet`: adding (which validates nothing but the number), removing (refused
while required) and renumbering, which rewrites the requirements of the other
cues and validates the sheet last: when that raises, the change stays.
`DependencyOrder` is the order the code computes of a valid sheet: `Collect` is
one call of its recursion, which is never deeper than there are cues.

`CueRuntime` is the run of a validated sheet: states, arms, times of GOs, the
clock and one saved snapshot. `process_auto_follows` loops over the sheet and
may raise in the middle, so its loop is modelled cue by cue (`follow` is the
cursor; no other call runs meanwhile): `StartFollows`, `FollowPasses`,
`FollowCompletes`, `FollowFires`, `FollowRaises`. `Restart` is a new runtime of
the same sheet, on which `Restore` may then bring the snapshot back. The sheet
is not edited while its run lasts.

### IncidentDesk, IncidentDeskProofs

Incidents from report to closure with their corrective actions, deadlines and
timeline. The desk saves the incident first and records the event after, and only
the recording refuses a blank actor; `traced` says which of the two a call is.
Leads, witnesses, attachments, notes, escalation records and metrics are left
out: no guard reads them. An action is added in any status, as the desk takes it;
`added_as` is a history of that.

### ReadinessBoard

Items with evidence, decisions and the items they require. As at the desk, an
item is saved before its event is recorded (`traced`), but passing, failing and
waiving refuse a blank actor first. `decided_at` is any moment, as the caller of
`pass_item` may name one; evidence counts by that moment. Items are added without
evidence and not started. `shown` is the state the latest event of an item
shows. `AddAll` is a batch of two; a refused batch takes back what it added,
which is no step.

### CallSheet

Calls of people to a place at a time, not before the venue opens, if that is said.
A call is added in any status, acknowledged or not. Moving or rescheduling it puts
somebody who had acknowledged or was excused back to called; the change is
logged after the save, and a blank actor is refused by the log alone (`traced`,
as above; `untraced` are the calls with such a gap). `agreed` is a history: the
terms a person last acknowledged. `Publish` takes a snapshot of the sheet.

### AuditTrail

A chain of events. The digest of an event is its payload, whole and with the
previous digest in it: a hash without collisions. `OpenBatch`, `CloseBatch` and
`FailBatch` are `record_many`, which runs to its end before another call is made;
a reader pages through a query while events are recorded. `Export` writes
lines, `LoseLine`, `RepeatLine`, `ExchangeLines` and `GarbleLine` are what
happens to a file, and `Import` reads it. States are redacted before they are
hashed. The only thing a text is told apart by is whether it has a line
separator in it.

### Scheduling

Rooms with capacity and availability, bookings with a turnaround, conflicts and
the calls that check them or do not. `ScheduleSeries` books the occurrences of a
rule from the day its slot begins on; `Occurrences` walks from step to step as the
code does, weeks being skipped at the smallest weekday. A booking is scheduled in
any status. `unchecked` is a history: the pairs of bookings that nothing has checked
against each other, because the caller allowed conflicts, made one of them active
again, or placed both by one series. `FreeIntervals`, `AvailableRooms`,
`DailyTimeline` and `Utilization` are the reads.

### RightsLedger and BoxOffice

`RightsLedger`: grants with window, territories, limits and royalties; a request
takes the cheapest grant that covers it. `lowered` remembers the grants whose
allowance was replaced by less than was used. `BoxOffice`: bands with prices, a
fee, a tax and an allocation, sales with a discount, refunds in parts, and the
settlement. `Reconcile` refuses a declared amount below zero, as `as_money` does.
Amounts are whole cents and rounding is half up, as in the code;
`shares` is a history with the exact share of each refund beside the rounded one.

### PerformanceDay, PerformanceDayProofs

Composes the readiness board, call sheet, audit trail, schedule, rights ledger,
box office and cue sheet. They are objects of one process that do not call one
another, so a behaviour is one of them at work. `PerformanceDayProofs` proves
about `DaySpec` what holds of each of them, one part after the other: a step of
the day is a step of one of them, or leaves it alone.

### Sorting, SumTheorems

`Sorting`: what sorting makes of a set whose members its order tells apart; packs,
free time, the cue sheet and queries sort such sets (of the rows of a query the
places are sorted, which makes a stable sort one of a total order). `SumTheorems` models no code: what is known of sums
over finite sets, which quantities, seats, money and royalties are counted with,
of sorting, and of loops that count up. The proof modules that add up, sort or
count extend it.

## What TLC checks

| Run | Question | Instance | Distinct states |
|-----|----------|----------|-----------------|
| `JsonStore_flat` | do revisions, collections and files stay right, does the store implement `StoreSpec`, is the lock given back? | 2 threads, 2 collections, 2 schema versions, revisions to 2, no nesting | 231,684 |
| `JsonStore_reentrant` | may a thread write to the store inside its own transaction? (no) | 1 thread, nesting 2 | violation |
| `CatalogServices` | are completed requests kept, does a migration lose any, are pages complete, are packs true, single and final, are the promises of records kept? | 2 requests, 2 ids, 2 slugs, 2 migrations; 2 callers on 7 kinds; 1 worker, 2 days, 2 collections with 2 edits; 3 zones | 1,267,219 |
| `DayPack_unlock` | is published final with two workers? (no) | 2 workers | violation |
| `BulkStock_safety` | does the log replay to the stock, does a reservation leave it once, do reserve and transfer respect holds, do suggestions cover them? | 2 locations, 2 reservations, 3 windows, balance to 2, 3 movements | 395,570 |
| `BulkStock_overbook` | is nothing ever overbooked? (issue and adjust overbook) | bulk | violation |
| `Assets_safety` | are units never stuck, unsafe on stage, in use while ticketed, or booked twice at a location? | 2 units, 2 locations, 2 reservations, 2 windows, 1 ticket | 2,784,000 |
| `CueRuntime_safety` | arms, dependencies, auto-follows and the report in every order of calls | every acyclic relation on 3 cues, 1 critical, delays 0 and 1; 2 cues with snapshots | 568,566 |
| `PerformanceDay` | the boards and ledgers of a performance, fourteen properties below | 2 items, 2 calls, 3 events with 2 faults, 3 bookings of 1 room, 2 grants, 2 sales, 3 cues | 1,126,949 |
| `Audit_lines` | is an export accepted by the import? (not with a line separator in a text) | as above | violation |
| `IncidentDesk_safety` | are settled incidents complete, actions in order, deadlines those of the severity? | 1 incident, 2 actions, both categories, 4 severities | 543,017 |
| `IncidentDesk_trace` | does the timeline show the status? (not after a call with a blank actor) | 1 incident | violation |

The properties, each stated where it is defined:

- Store: `TemporaryIsMine` (no torn or foreign temporary file replaces the
  document), `RevisionAdvances`, `NoLostUpdate`, `ImplementsStoreSpec`,
  `LockIsReleased`. Proved and not run: `LockMatchesCalls` (no path leaks or
  loses a level of the lock), `OpenCallsAreCurrent` (a call past its revision
  check works on what is on disk), `ExpectedIsReplaced`.
- Catalog: `RequestsAreKept` (a slug twice, a lost update or a deleted row that
  is back need two requests of which one ran between the read and the save of
  the other, and nothing else is enough), `MigrationLosesNoWrite`,
  `PagesShowEachRowOnce`, `PromisesAreKept` (of each kind of record: what a caller
  was told is broken only by a save over the save of another, or by an update that
  gives the very field; every stored record is valid all the same).
- Day packs: `OnePackPerDay`, `PublishedIsLocked`, `RebuildMovesForward`,
  `PacksTellTheSchedule`.
- Stock: `LedgerIsSound` (`LogAccountsForStock`, `FulfilledExactlyOnce`,
  `SuggestionCoversHolds`), `HoldsNeverOverbook`; `NeverOverbooked` fails.
- Units: `CirculationIsSafe` (`TicketedUnitsAreOut`, `IssuedUnitsAreSound`),
  `ReservedUnitsAreHeld`, `NoDoubleBookingAtLocation`.
- Cues: `RunIsSound` (`FiredCuesHaveTime`, `FailedCuesAreSafe`,
  `SomeCueIsReady`, `ReportAddsUp`), `DependenciesStayMet`, `FiringUsesTheArm`,
  `FollowsAreDrained`; of the sheet `RequirementsFollowCues` and
  `ValidSheetsHaveAnOrder` (the order of the code is one that every cue can wait
  in, and is found for every sheet that validates).
- Readiness: `PassedOnEvidence`, `PassedRestsOnDecisions`, `SignOffsAreTraced`,
  `SomeItemIsActionable`.
- Call sheet: `SheetTellsTerms` (acknowledgements, dispatches, report, and
  `LogTellsTimeAndPlace`: the log leads from every published time and place to
  those of now).
- Audit trail: `ChainVerifies`, `ReplayFindsLastEffect`, `ImportedIsExported`,
  `ReaderSeesEachOnce`; `OwnExportIsAccepted` fails.
- Scheduling: `OccurrencesFollowRule` (against the weeks of the calendar, for a
  series that begins on any day of a week), `FreeTimeIsTrue` (against sets of
  instants, and all bookings with their turnaround), `ClashesOnlyWhereAllowed` (no
  two active bookings clash but those in `unchecked`).
- Rights: `UsageIsLicensed` (uses stay within their grants, denials name their
  reasons), `ExposureIsComplete`. Box office: `BooksBalance` (seats, tenders and
  settlement agree, and reconcile but where a tender is below nothing),
  `RefundsMatchShares` (a refund is off by half a cent at most).
- Incidents: `SettledIsComplete`, `ActionsInOrder` (what the desk started or
  completed had, and has, all it requires done), `DeadlinesMatchSeverity`,
  `SomeActionCanProceed`; `TimelineShowsStatus` fails.

The run `PerformanceDay` asks what the reports and reads tell in one invariant,
`ReadsAreTrue`: the conjunction of `BooksBalance`, `ExposureIsComplete`,
`ReplayFindsLastEffect`, `FreeTimeIsTrue` and `ValidSheetsHaveAnOrder`.

Each module has one type invariant; where it is not checked by itself it is a
conjunct of the first property of its module, or proved.

### Bounds, and why they are enough

- `MaxRevision` stops calls from starting at revision 2: two writes after one
  another, each interleaved with another call, a crash or a failure, are what
  the properties of the store relate; nothing in it compares more than two
  revisions. Two threads: the third would only wait.
- `MaxStoreRevision` 3 and `MaxEntities` 2: two requests that read the same row
  and save it one after the other, with a migration before, between or after;
  two rows of one slug and one of another; two migrations in one plan, one of
  them composed of two functions.
- `MaxSaves` 3 per record: a save, one over it, and one after both. `MaxSections`
  1 is one section before a publication and an attempt at one after it. Three
  seats, one of them held, are enough for one of two sales. The workflow of the
  pipeline leaves stages out, so that a promise is not simply the next stage, and
  begins with the "draft" of a production without a stage. Updates give promised
  fields and others, so that each kind is kept, outrun and overruled in the run.
- `MaxEdits`, `MaxPacks`, `MaxVersion`: a build and a rebuild with edits before,
  between and after their reads; two days, so that a pack of another day can be
  confused with the right one. For the contents: a zone with a short day, one
  with long days, shows at and beside the midnights, rehearsals across them.
- `MaxBalance` 2 and `MaxMovements` 3: stock that is enough for one of two
  reservations, and a transfer, an issue and a fulfilment in any order. The three
  windows meet or overlap in each possible way. The log is bounded by a guard.
- Two windows that meet for units: the half-open boundary, and with both
  reservations on one window the overlap. The third window of the bulk run adds
  no further relation between two reservations of whole units.
- `MaxTime` 1: a delay that is not over and one that is. `MaxSnapshotCues` 2:
  only the two-cue sheet takes snapshots; three cues are needed for a
  dependency that is met through another and for a follow of a follow.
  On the edited sheet a cue requires up to `MaxRequired` 2 others, so that a
  renumbering meets the number in either place of the list.
- Readiness: two items, because every check looks at one item and those it
  requires or that require it; the proofs cover any number.
- `MaxChanges` 2 logged or unlogged changes and `MaxRevisions` 1 of the call
  sheet: a change before a publication and one after it, of the same call or of
  two. Times proposed lie before, at and after both ends of the allowed period.
- `MaxEvents` 3 and `MaxFaults` 2: a change, a change of the same resource and
  an event beside them; a line lost and another repeated, so that the count fits.
- Three bookings, two of them a series, slots that lie in one another, that
  meet, and that leave less than the turnaround; daily and weekly rules of
  intervals up to 3 with no, one, two and three weekdays, from each day of a week,
  looked at up to `LastDay` 40. The series that is booked has two weekdays and starts
  on the first or on the second of them. Views of the free time end at and beside the
  bookings.
- Grants that differ in each field the choice looks at, one request for each
  reason of denial; two sales of up to three tickets, at prices that leave half
  cents, refunded in every split.
- Queries: no predicate or one of two, each with seven lists of sort keys, by a
  name that rows can share and by a field that some rows lack, in both directions
  and with the missing values at either end; pages of one row and of two, with at
  most two rows in a collection. The proof covers any queries and pages.
- Incidents share nothing but the desk, so one is enough; two actions can
  require one another or not. The proofs cover any number.

Symmetry is used where requests, locations, reservations, tickets or actions are
model values that no action tells apart, and never with a liveness property.
Deadlock is checked in every run: in every state some call of a caller is left, or
everybody rests at a bound.

### Fairness

Only `LockIsReleased` needs it. `FairSpec` assumes weak fairness of the steps of
the store's own code inside a call, since the interpreter goes on running it, and
strong fairness of the ends of callers' blocks and mutators, since they are
finite: a block that retries a failing commit comes to its end in the long run.
Nothing is assumed about who gets the lock (an `RLock` is not fair), about
callers ever calling, or about writes ever succeeding. The other modules state no
liveness property: their calls are synchronous and nothing is owed to anybody
after they return.

## What is proved

TLAPS checks the theorems of the seven modules whose names end in `Proofs`, and
the lemmas of `SumTheorems`, for all values of the constants that satisfy the
`ASSUME`s of the modules. The bounds of the runs play no role in them:
`MaxRevision`, `MaxEdits`, `MaxSaves`, `MaxEvents` and the others may be as large
as one likes.

What is assumed of the constants: bounds, times and amounts are natural numbers;
`None`, `Absent`, `NoCall`, `NoCue`, `NoSale`, `NoGrant` and their like differ
from what they stand beside; sets the code loops over are finite; the sheets of
`CueRuntime` have a requirement list and at most one delay for each cue; the
starting records of `RecordLifecycles` are valid ones, as the models refuse any
other; grants are looked at in a list (`GrantIds`), as the dictionary keeps them;
quantities of a sale are 1 to 4 (there the decimal fractions of the code and the
exact ones of the model agree, see `BoxOffice`); tenders are finitely many (the
code loops over an enumeration), and so are the locations of an item; the shelves
a behaviour of the catalog begins with are ones that requests which met no other
leave behind: one row per id, one per slug, ids in the order they were given; of a zone each
local day begins after the one before, "UTC" can be resolved, and a rehearsal with
a time ends after it starts, as its model requires; slots, views and windows of
the schedule end after they start, as `TimeRange` requires, and bookings and
windows are finitely many; pages have a size of one or more, and queries sort by
fields of numbers (texts and dates are numbers in their order) or by fields that
rows lack, and `Missing` is no number; a template and a rule are what their constructors
accept, and the mark for a rule without count or end is no number. TLC evaluates
all of them on the instances of the runs.

Sums are recursive, and what they give is an induction over sets. `SumTheorems`
does it without the induction theorems of the library, which need an operator
for an argument: of the subsets for which a fact fails there would be a least
one (`WFMin`, strict subsets of a finite set being well-founded), and for that
one it is shown to hold. `Climbing` does the same for numbers, which is how the
loops of the code, written as recursive functions, are followed.

- **The store, any nesting.** `StoreInvariant` proves `LockInv`: types,
  `LockMatchesCalls`, `TemporaryIsMine`, and `SuspendedBodies` (below the top of
  a stack only callers' blocks are suspended). The last one is what makes it
  inductive: without it a call that returns might uncover a frame whose
  temporary file was overwritten. `TypeCorrect`, `LockCorrect` and
  `TemporaryCorrect` follow.
- **The store without nesting** (`MaxDepth = 1`). `FlatInvariant` adds that a
  call between its revision check and its write works on the revision on disk,
  that its copy differs from the document only in the collections it touched, and
  that an expected revision is the one it started from. From it:
  `CurrentCorrect`, `RevisionCorrect`, `UpdatesCorrect`, `ExpectedCorrect`, and
  `StoreRefinement`: initial states map to initial states of `StoreSpec`, and each
  action to one of its steps or a stutter. The assumption is necessary: the run
  `JsonStore_reentrant` violates `RevisionAdvances` without it.
- **Migrations** (`MigrationsLoseNothing`). The invariant is that a computed
  migration of the revision the store is at is the migration of what the store
  holds: every write raises the revision, so the compare-and-swap is enough,
  whatever the migration functions do. It is an action property, of any number
  of requests and migrations.
- **Day packs** (`PackInvariance`; `OnePack`, `PublishedLocked`,
  `RebuildForward`), under `OneWorker`, requests served one after the other. What
  a build has read is no older than any stored row and no newer than the
  catalog; a pack about to be saved either is of a day that has no row, or has
  the id of the one row of its day, which is a draft. The theorems need the
  hypothesis: with two threads `DayPack_unlock` violates `PublishedIsLocked`.
- **Record lifecycles** (`RecordInvariance`, `PromisesKept`). Until somebody saves
  over the save of another or an update gives a promised field, a record is what its
  callers were told, and a copy
  taken since the last save will be, if it is saved: `Told` of the row and
  `CallSound` of the copies, for any callers, starting records and operations. Of
  a production only a workflow that ascends tells where it stands.
- **Requests of the catalog** (`CatalogInvariance`, `RequestsStayKept`). The
  invariant says of a request that has read what it is about to do: for a row
  that is still as it was read, unless another request or a migration has
  touched it since; and that two requests under way are about the same id or
  slug only if the history says they overlapped. Rows that a migration leaves are
  those it found, each once: its functions move, fill and drop rows, and `Drawn`
  is what any number of them preserves.
- **Bulk stock** (`StockInvariance`; `LedgerStaysSound`, `HoldsStayCovered`). The
  log adds up to the balances because each movement adds to the log what it does
  to them, and a reservation is drawn by one movement because it is fulfilled by
  it and can be so once. What the ledger checks for a window is the sum over the
  reservations that meet it, which is no less than what is held at any moment of
  it: for windows of any lengths that meet in any way. The invariant adds that
  finitely many reservations were made.
- **Serialized assets** (`AssetInvariance`; `CirculationStaysSafe`,
  `ReservedStayHeld`, `NeverDoubleBooked`). The three properties need one another,
  since every change of a status touches all of them, and two facts more: a held
  reservation names known units, and a unit has one open ticket at most. The
  calls that raise half way are steps of the proof as of the model.
- **The run of cues** (`CueInvariance`; `RunStaysSound`, `DependenciesMet`,
  `FiringArmed`, `FollowsDrained`). The invariant says of the saved snapshot what
  it says of the run, so that a restore keeps it, and inside a poll that nothing
  before the cursor is due. That a waiting run has a ready cue is no consequence
  of states: a valid sheet has no circle, so of the cues that are not done one
  comes first in it, by the well-founded order of strict subsets.
- **The readiness board.** `BoardInvariant` proves `BoardInv`: items are sound on
  their own (a decision has its moment, a passed item its evidence), decisions
  are traced, required items exist, and passed items rest on decided ones. That
  required items exist is what the invariants need beside themselves: a new item
  has no decision, and nothing may rest on it already. One lemma, `SaveKeeps`,
  says what an item must satisfy to be saved. `BoardTypeCorrect`,
  `EvidenceCorrect`, `DecisionsCorrect` and `TraceCorrect` follow, and
  `ItemsProceed`: requirements never form a circle, so some item can be decided.
  They are about `Spec` of `ReadinessBoard`, whose steps are those of the board
  in `PerformanceDay`.
- **The incident desk.** `DeskInvariant` proves `DeskInv`: every incident is
  complete if settled, has its actions in order and its deadlines right. Order
  needs, beside itself, that what an action requires exists and that nothing done
  is taken back; of an action that still has the status it was added in nothing is
  said. `DeskTypeCorrect`, `SettledCorrect`, `OrderCorrect` and
  `DeadlinesCorrect` follow, and `ActionsProceed`.
- **Rights** (`UsesLicensed` of the ledger alone, `DayUsesLicensed` of the day).
  The invariant adds only that uses are finitely many and which fields they
  have. The argument is in the quote: `CHOOSE` among the eligible grants means
  something only if a least one exists, in an order by royalty, end and place.
  `ExposureStaysComplete`: a use is of a grant that exists, so the report, which
  goes over the grants, counts it once, and the royalties add up to those of the
  uses whatever the grants were replaced by.
- **Cue sheet** (`RequirementsStay`). Calls look at numbers only; that numbers are
  distinct is what makes a requirement one of cues. `OrderStays`:
  of a valid sheet the numbers have levels, as many as there are (`LevelsThere`, a
  part without a circle grows by a number that requires only what it has);
  collecting a number calls itself for lower levels only, which is why the
  recursion ends within as many calls as there are cues, and why a number is
  never among what was collected for it (`AllCollect`).
- **Call sheet** (`SheetTells`, the log included). The log and the revisions are of
  calls on the sheet only, so a new call starts with neither; one lemma,
  `ChangeKeeps`, covers the four calls that change and log. The columns of the
  report add up because the sheet is finite, which the invariant says: no
  assumption on the ids is needed.
- **Audit trail** (`TrailVerifies`). A batch that is open began within the chain,
  and the first part of a valid chain is valid: what a failed batch leaves
  verifies. `ImportRestores`: every line of a file is an event that was exported
  or that event garbled, whatever was lost, repeated and exchanged (`FileInv`);
  numbers that follow each other put the events in their places, and a garbled
  one is found by its digest. `ReaderIsShownAll`: what a reader was shown ends
  before the point back to which a batch can take the trail (`ReaderInv`), so a
  page continues the same list. `ReplayStaysTrue`: a replay at any event finds
  the last of the resource that took effect until then.
- **The contents of packs** (`PacksTell`). The state says no more than its types:
  what is proved is what assembling computes, for any rows. Midnights rise, so the
  days divide time between them and an instant is of one day (`Climbing`, for the
  last midnight before it); a list sorted by rank has each row once and in order
  (`InOrderSorts` of `SumTheorems`), so of two rehearsals one comes first and they
  are warned about once; and the timeline is followed through the loop that
  flattens it, a performance at a time.
- **Queries, listings and groups** (`PagesShowAll`). Like `PacksTell`, it is about
  what is computed from any rows. Each key orders the places of the rows
  (`KeyOrders`, `KeyLeadsTo`); if the rows lie in the order of the keys from the
  `k+1`st on, a stable sort by the `k`th puts them in the order from the `k`th on
  (`KeySorts`), so the sorts one after the other are one sort by all the keys
  (`SortsAreOne`), which has each matched row once. Of a list cut into pages of any
  size the pages joined are the list, and only the last one has no next
  (`PagesJoin`, `PagesFollow`). The groups of an aggregate share out the rows, so
  their counts add up to all of them (`GroupsCount`).
- **Schedule** (`ClashesAllowed`). The invariant is the property with the types
  (`SchedInv`). Of a pair that comes to clash one booking has changed; if the other
  has not, it is what `find_conflicts` looked at, so a call that goes on was told to
  allow conflicts, and then the pair is among the unchecked.
- **Recurrence** (`OccurrencesFollow`). The loop yields at each day it comes by
  all the days before it that the rule says (`Walked`), and the day it steps to is
  the next one: with weekdays, the code jumps by counting how often it comes by the
  first of them since the series began, and `WeeksCount` shows that this count is the
  number of calendar weeks since, up to the one week of a series that begins before
  the first of its weekdays. `CountIs` counts with remainders, and a step over the
  weeks between leaves that number a multiple of the interval only at its end
  (`StepIs`).
- **Free time** (`FreeTimeStaysTrue`). After each busy slot, in order of start, the
  cursor is where the busy time so far ends and what was left before it is free
  (`CursorMoves`, `LeftIsFree`): so a segment is split into its free and its busy
  instants, no two intervals touch within it, and a slot that meets no busy one
  is inside one interval. `LookedAt` says which bookings the code cuts out: an
  instant that a booking is kept for and that is a turnaround away from the ends of
  the window is cut out. The bookings and windows are finitely many time
  ranges, and windows of one room do not overlap (`TimesInv`).
- **Box office** (`RefundsBounded`). Each refund is rounded by half a cent at
  most, so `n` of them are off by `n` halves; and what the refunded tickets are
  due never exceeds their part of the total, so the sale never gives back more
  than was paid by more than that. `BooksStayBalanced`: each sale has its seats
  within its band, so sums over the sales, the bands and the tenders are sums of
  the same seats and the same cents, grouped differently; a tender below nothing has
  a sale below nothing.

`ReadsStayTrue` puts `BooksStayBalanced`, `ExposureStaysComplete`,
`ReplayStaysTrue`, `FreeTimeStaysTrue` and `OrderStays` together.

The theorems on types, on the lock, on current calls and on expected revisions
stand for properties that no run repeats any more.

Only model-checked: `LockIsReleased`, which is a liveness property and outside
TLAPS. Every other property that a passing run checks is stated by a theorem.

## Findings

1. **Nested writes reuse a revision** (`JsonStore_reentrant`). A thread that
   writes to the store in its own transaction gets through the re-entrant lock;
   the outer commit then overwrites the inner write under the same revision. The
   README of the repository says that writes increment a store-wide revision.
2. **A rebuild takes a publication back** (`DayPack_unlock`). `build` checks the
   status of the row it found and saves later; a publication in between is
   overwritten by a draft. The specification says published packs are locked.
   With one worker the property holds (`CatalogServices`).
3. **Issue and adjust overbook** (`BulkStock_overbook`). They compare with the
   balance and not with what is held, although the ledger promises not to
   overbook and `transfer` does compare.
4. **A blank actor leaves no trace** (`IncidentDesk_trace`). The incident is
   saved before the event refuses the actor. Of the readiness board the weaker
   `SignOffsAreTraced` holds, because decisions check the actor first.
5. **An export may not come back** (`Audit_lines`). The export writes texts as
   they are, so U+2028, U+0085 and other separators stay inside a line; the
   import splits at all of them (`str.splitlines`) and refuses the file.

Seen while modelling, with no document that says otherwise; the modules do what
the code does:

- Two requests on one record lose an update, sell a seat twice, check an asset
  out twice or create a slug twice. `RequestsAreKept` and `PromisesAreKept` say
  what else does: nothing for the rows, and for the promises the generic update.
- `update` (`services/base.py:85-89`) merges any valid metadata, past the guards of
  `production.py:56`, `program.py:38`, `prop_asset.py:45` and `showbook.py:39`: an
  update that meets no other request takes an asset from its holder, moves a
  production back or edits a published program or a locked showbook.
- `PreviewHoldChecker` does not look at `manually_lifted` and takes a hold
  without a date as lifted since it was created; `PreviewHold.is_lifted` does the
  opposite of both.
- `ContentPipeline` starts a production without a stage at "draft", which is
  none of the stages of `Production`: it can be advanced only where the workflow
  has a "draft" of its own.
- `add_action` of the incident desk stores an action in any status
  (`incidents.py:463-473`): one that is handed in as done or in progress is not
  asked for what it requires. `add_call` of the call sheet takes any status too.
- A weekly series that begins before the first of its weekdays waits `interval - 1`
  weeks for its first occurrence: every second Wednesday from a Monday begins with
  the Wednesday of the week after (`scheduling.py:169-170`).
- `free_intervals` looks at bookings that meet the window itself
  (`scheduling.py:370`): with a turnaround of 1 and a booking from 5 to 6, the
  window from 2 to 5 has instant 4 free, and the window from 2 to 8 has not.
- A room whose availability was set to nothing has no restriction in
  `find_conflicts` (`scheduling.py:250`) and no free time in `free_intervals`
  (`scheduling.py:409`): it is offered for every slot.
- `reconcile` refuses the ledger's own tender totals when one of them is below zero
  (`box_office_ledger.py:343`), which refunds that are rounded up can make it.
- Refunds in parts are rounded one by one and can exceed what was paid by half a
  cent each (`RefundsMatchShares` bounds it, and is proved).
- Two builds of one day that overlap create two packs, or the one that read
  first saves last and brings sections back. With one worker neither happens
  (`OnePackPerDay`, `RebuildMovesForward`).

## Not modelled, and why

- Conflict checks and validators are reports over lists of entities, without
  state; the comparisons of periods they make are those of `Scheduling` and
  `DayAssembly`. Reporting, settings and utilities format and count.
- The HTTP layer and the command line parse and print; that requests run in
  parallel is in `EntityCatalog`, `RecordLifecycles`, `DayPackService` and in
  the threads of `JsonStore`.
- Kinds of records whose operations only set a field; the index of
  `storage/index.py`, which no service uses; query predicates on one value.
- Two processes on one file: the store promises a process lock and no more.
- Editing a cue sheet during its run: nothing says what should happen.
- Valuation of the inventory, `expiring_between` of the rights, assignment and
  reports of the readiness board, and the records beside an incident: no guard
  reads or changes what they show.
- Spelling of names (trimmed in one place and compared as given in another),
  texts, ids and formats.
- `src/.patch_staging` is a second copy of the day pack code.

## Plan

What is left: an abstract specification of a day pack (draft, then final, sections
that go forward) that `DayPackService` with one worker implements, and one of a
reservation ledger that `BulkStock` implements apart from the issue.

As the number of runs grows, related questions are asked in one run, as
`JsonStore_flat`, `CatalogServices` and `PerformanceDay` do.

## Running

    tlasany JsonStore.tla
    tlc -workers 2 -config JsonStore_flat.cfg MCJsonStore
    tlapm JsonStoreProofs.tla

The module of each run, its configuration and its properties are listed in
`PROJECT.json`, with the source lines of every definition, the hazards of the
code and the properties that cover them.
