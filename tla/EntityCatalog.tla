--------------------------- MODULE EntityCatalog ----------------------------
(***************************************************************************)
(* services/base.py over storage/repository.py, the shared service of the  *)
(* catalog resources (api/routes/catalog.py), together with the schema     *)
(* migrations of storage/migrations.py on the same store.                  *)
(*                                                                         *)
(* A request reads the collection in one store call and writes in another: *)
(* other requests, and a migration, run in between.  Each store call is    *)
(* atomic (StoreSpec).  A row keeps what the operations tell apart: names  *)
(* are numbers in their order, tags are a set, metadata is the one key     *)
(* `season` a migration adds, notes are counted.                           *)
(***************************************************************************)
EXTENDS RowQuery

CONSTANTS Requests,         \* request threads
          Slugs,            \* normalized slugs
          Names,            \* names of new rows, numbered in their order
          Changes,          \* bodies of update requests
          Registry,         \* MigrationRegistry: version -> functions composed
          Shelves,          \* the collections a store may start with
          Queries,          \* queries of the rows, before a page is chosen
          PageSizes,        \* sizes of the pages that are read
          NoRequest,        \* a thread that serves none
          Raised,           \* a migration function that raised
          MaxEntities,      \* bound: ids handed out
          MaxStoreRevision  \* bound: revision of the store

VARIABLES shelf,            \* collection name -> sequence of rows
          storeRevision,
          storeSchema,
          issued,           \* ids handed out by generate_id
          request,          \* thread -> the request it serves
          overlapped,       \* history: ids and slugs with requests at one time
          acknowledged      \* history: id -> what its completed requests add up to

catalogVars == <<shelf, storeRevision, storeSchema, issued, request,
                 overlapped, acknowledged>>

Entities == 0..MaxEntities
RowStatuses == {"active", "inactive", "archived"}
LatestVersion == Len(Registry) + 1

Row == [id : Entities, slug : Slugs, name : Nat, status : RowStatuses,
        tags : SUBSET STRING, season : {Missing} \cup Nat, notes : Nat, version : Nat]
UpdateBody == [name : {Missing} \cup Nat, status : {Missing} \cup RowStatuses,
               tags : {Missing} \cup SUBSET STRING, season : {Missing} \cup Nat, note : {0, 1}]
\* A sort key names a field of numbers, or one that no row has.
SortKey == [path : STRING \ {"slug", "status", "tags"}, descending : BOOLEAN, missing_last : BOOLEAN]
Function == [kind : {"rename", "add_field", "transform"}, source : STRING,
             destination : STRING]

RowsOf(collections) ==
    UNION {{collections[c][i] : i \in DOMAIN collections[c]} : c \in DOMAIN collections}
IdsOf(collections) == {row.id : row \in RowsOf(collections)}

ASSUME CatalogAssumption ==
    /\ {MaxEntities, MaxStoreRevision} \subseteq Nat /\ PageSizes \subseteq Nat \ {0}
    /\ Slugs \cap Entities = {} /\ Missing \notin RowStatuses
    /\ Names \subseteq Nat /\ Changes \subseteq UpdateBody
    /\ Registry \in Seq(Seq(Function))
    /\ \A query \in Queries :
          /\ query.sort_keys \in Seq(SortKey)
          /\ query = [predicates |-> query.predicates, sort_keys |-> query.sort_keys,
                      offset |-> 0, limit |-> Missing]

\* What requests that met no other left behind: one row per id, one per slug in each
\* collection, ids in the order they were handed out.
ASSUME ShelvesAssumption ==
    \A start \in Shelves :
        /\ start = [c \in DOMAIN start |-> start[c]]
        /\ \A c \in DOMAIN start :
              /\ start[c] \in Seq(Row)
              /\ \A i, j \in DOMAIN start[c] : start[c][i].slug = start[c][j].slug => i = j
        /\ \A c, d \in DOMAIN start : \A i \in DOMAIN start[c], j \in DOMAIN start[d] :
              start[c][i].id = start[d][j].id => c = d /\ i = j
        /\ \A row \in RowsOf(start) : row.version > row.notes
        /\ IdsOf(start) \ {0} = 1..Cardinality(IdsOf(start) \ {0})

\* The collection of the service.
Collection == "productions"

CollectionRows == IF Collection \in DOMAIN shelf THEN shelf[Collection] ELSE <<>>
IndexOf(rows, id) == {i \in DOMAIN rows : rows[i].id = id}
FirstOf(rows, id) == CHOOSE i \in IndexOf(rows, id) : \A j \in IndexOf(rows, id) : i <= j
Stored == RowsOf(shelf)

Served(r) == IF request[r] = NoRequest THEN "none" ELSE request[r].kind
Subject(r) == IF Served(r) \in {"save", "delete"}
              THEN {request[r].row.id, request[r].row.slug} ELSE {}
Concurrent(r) == UNION {Subject(other) : other \in Requests \ {r}}

Serve(r, new) == request' = [request EXCEPT ![r] = new]

\* The store call succeeds: the revision of the store advances.
Wrote(new) ==
    /\ storeRevision < MaxStoreRevision
    /\ storeRevision' = storeRevision + 1
    /\ shelf' = new

(***************************************************************************)
(* create                                                                  *)
(***************************************************************************)
NewRow(id, slug, name) ==
    [id |-> id, slug |-> slug, name |-> name, status |-> "active",
     tags |-> {}, season |-> Missing, notes |-> 0, version |-> 1]

\* The duplicate is looked for in one store call; the row is saved in another.
BeginCreate(r, slug, name) ==
    /\ request[r] = NoRequest
    /\ ~ \E i \in DOMAIN CollectionRows : CollectionRows[i].slug = slug
    /\ issued < MaxEntities
    /\ issued' = issued + 1
    /\ Serve(r, [kind |-> "save", row |-> NewRow(issued', slug, name), touches |-> 0, notes |-> 0])
    /\ overlapped' = overlapped \cup ({slug} \cap Concurrent(r))
    /\ UNCHANGED <<shelf, storeRevision, storeSchema, acknowledged>>

(***************************************************************************)
(* update and archive: the row is read, changed, and saved whole.          *)
(***************************************************************************)
Given(value, old) == IF value = Missing THEN old ELSE value

\* rename, set_status, merge_metadata and add_note each touch the row; tags that are
\* given touch it when they are not those it has.
TouchCount(row, change) ==
    Cardinality({f \in {"name", "status", "season"} : change[f] # Missing})
        + Cardinality({change.tags} \ {Missing, row.tags}) + change.note

\* Mutant: a note is no change of the row.
ChangedUntouched(row, change) ==
    [row EXCEPT !.name = Given(change.name, @), !.status = Given(change.status, @),
                !.tags = Given(change.tags, @), !.season = Given(change.season, @),
                !.notes = @ + change.note, !.version = @ + TouchCount(row, change) - change.note]

Changed(row, change) ==
    [row EXCEPT !.name = Given(change.name, @), !.status = Given(change.status, @),
                !.tags = Given(change.tags, @), !.season = Given(change.season, @),
                !.notes = @ + change.note, !.version = @ + TouchCount(row, change)]

\* archive, which adds the note it is given.
ArchiveChange ==
    [name |-> Missing, status |-> "archived", tags |-> Missing, season |-> Missing, note |-> 1]

BeginUpdate(r, i, change) ==
    LET row == CollectionRows[i]
    IN  /\ request[r] = NoRequest
        /\ Serve(r, [kind |-> "save", row |-> Changed(row, change),
                     touches |-> TouchCount(row, change), notes |-> change.note])
        /\ overlapped' = overlapped \cup ({row.id, row.slug} \cap Concurrent(r))
        /\ UNCHANGED <<shelf, storeRevision, storeSchema, issued, acknowledged>>

\* save_row: the row with the id is replaced; a row that is gone is appended.
RowSaved(rows, row) ==
    IF IndexOf(rows, row.id) = {} THEN Append(rows, row)
    ELSE [rows EXCEPT ![FirstOf(rows, row.id)] = row]

WithCollection(rows) ==
    [c \in DOMAIN shelf \cup {Collection} |-> IF c = Collection THEN rows ELSE shelf[c]]

SaveRow(r) ==
    /\ Served(r) = "save"
    /\ LET row == request[r].row
       IN  /\ Wrote(WithCollection(RowSaved(CollectionRows, row)))
           /\ acknowledged' = [acknowledged EXCEPT ![row.id] =
                [version |-> (IF @.version = 0 THEN 1 ELSE @.version) + request[r].touches,
                 notes |-> @.notes + request[r].notes, gone |-> FALSE]]
    /\ Serve(r, NoRequest)
    /\ UNCHANGED <<storeSchema, issued, overlapped>>

(***************************************************************************)
(* delete: the route gets the row first, then deletes it.                  *)
(***************************************************************************)
BeginDelete(r, i) ==
    LET row == CollectionRows[i]
    IN  /\ request[r] = NoRequest
        /\ Serve(r, [kind |-> "delete", row |-> row])
        /\ overlapped' = overlapped \cup ({row.id, row.slug} \cap Concurrent(r))
        /\ UNCHANGED <<shelf, storeRevision, storeSchema, issued, acknowledged>>

DeleteRow(r) ==
    /\ Served(r) = "delete"
    /\ IndexOf(CollectionRows, request[r].row.id) # {}
    /\ Wrote(WithCollection(RemoveAt(CollectionRows,
                                     FirstOf(CollectionRows, request[r].row.id))))
    /\ acknowledged' = [acknowledged EXCEPT ![request[r].row.id].gone = TRUE]
    /\ Serve(r, NoRequest)
    /\ UNCHANGED <<storeSchema, issued, overlapped>>

\* The row is gone by now: delete_row raises, and nothing is written.
DeleteFindsNothing(r) ==
    /\ Served(r) = "delete"
    /\ IndexOf(CollectionRows, request[r].row.id) = {}
    /\ Serve(r, NoRequest)
    /\ UNCHANGED <<shelf, storeRevision, storeSchema, issued, overlapped, acknowledged>>

\* The store cannot be written, or the process stops: the request is lost.
RequestLost(r) ==
    /\ request[r] # NoRequest
    /\ Serve(r, NoRequest)
    /\ UNCHANGED <<shelf, storeRevision, storeSchema, issued, overlapped, acknowledged>>

(***************************************************************************)
(* Migrations: functions from a snapshot's collections to new ones.        *)
(***************************************************************************)
RenameCollection(collections, source, destination) ==
    IF source \notin DOMAIN collections THEN collections
    ELSE IF destination \in DOMAIN collections THEN Raised
    ELSE [c \in (DOMAIN collections \ {source}) \cup {destination} |->
            IF c = destination THEN collections[source] ELSE collections[c]]

\* setdefault: a row that has the field keeps its value.
AddField(collections, name) ==
    [c \in DOMAIN collections |->
        IF c # name THEN collections[c]
        ELSE [i \in DOMAIN collections[c] |->
                [collections[c][i] EXCEPT !.season = IF @ = Missing THEN 0 ELSE @]]]

\* A transform that drops archived rows, one row after the other.
Transformed(rows) ==
    LET kept[n \in 0..Len(rows)] ==
            IF n = 0 THEN <<>>
            ELSE IF rows[n].status = "archived" THEN kept[n - 1]
            ELSE Append(kept[n - 1], rows[n])
    IN  kept[Len(rows)]

\* The collection is there afterwards.
TransformCollection(collections, name) ==
    [c \in DOMAIN collections \cup {name} |->
        IF c # name THEN collections[c]
        ELSE IF name \notin DOMAIN collections THEN <<>>
        ELSE Transformed(collections[c])]

MigrationFunction(collections, step) ==
    IF collections = Raised THEN Raised
    ELSE CASE step.kind = "rename" -> RenameCollection(collections, step.source, step.destination)
           [] step.kind = "add_field" -> AddField(collections, step.source)
           [] step.kind = "transform" -> TransformCollection(collections, step.source)

\* compose: each function on the result of the one before.
Composed(functions, collections) ==
    LET after[n \in 0..Len(functions)] ==
            IF n = 0 THEN collections ELSE MigrationFunction(after[n - 1], functions[n])
    IN  after[Len(functions)]

\* plan: the migration registered for each version on the way, on the result of the
\* one before.
Migrated(collections, from, to) ==
    LET reached[n \in 0..(to - from)] ==
            IF n = 0 THEN collections ELSE Composed(Registry[from + n - 1], reached[n - 1])
    IN  reached[to - from]

BeginMigrate(r, target) ==
    /\ request[r] = NoRequest
    /\ storeSchema < target /\ target <= LatestVersion
    /\ LET candidate == Migrated(shelf, storeSchema, target)
       IN  /\ candidate # Raised
           /\ Serve(r, [kind |-> "migrate", base |-> storeRevision,
                        target |-> target, collections |-> candidate])
    /\ UNCHANGED <<shelf, storeRevision, storeSchema, issued, overlapped, acknowledged>>

Dropped(collections) == IdsOf(shelf) \ IdsOf(collections)

\* Mutant: replace_snapshot without the expected revision.
CommitMigrationBlindly(r) ==
    /\ Served(r) = "migrate"
    /\ Wrote(request[r].collections)
    /\ storeSchema' = request[r].target
    /\ overlapped' = overlapped \cup Concurrent(r)
    /\ acknowledged' = [id \in Entities |->
            IF id \in Dropped(request[r].collections)
            THEN [acknowledged[id] EXCEPT !.gone = TRUE] ELSE acknowledged[id]]
    /\ Serve(r, NoRequest)
    /\ UNCHANGED issued

\* replace_snapshot with the revision of the snapshot.
CommitMigration(r) ==
    /\ Served(r) = "migrate"
    /\ request[r].base = storeRevision
    /\ Wrote(request[r].collections)
    /\ storeSchema' = request[r].target
    /\ overlapped' = overlapped \cup Concurrent(r)
    /\ acknowledged' = [id \in Entities |->
            IF id \in Dropped(request[r].collections)
            THEN [acknowledged[id] EXCEPT !.gone = TRUE] ELSE acknowledged[id]]
    /\ Serve(r, NoRequest)
    /\ UNCHANGED issued

RefuseMigration(r) ==
    /\ Served(r) = "migrate"
    /\ request[r].base # storeRevision
    /\ Serve(r, NoRequest)
    /\ UNCHANGED <<shelf, storeRevision, storeSchema, issued, overlapped, acknowledged>>

CatalogInit ==
    /\ shelf \in Shelves
    /\ storeRevision = 0
    /\ storeSchema = 1
    /\ issued = Cardinality(IdsOf(shelf) \ {0})
    /\ request = [r \in Requests |-> NoRequest]
    /\ overlapped = {}
    /\ acknowledged = [id \in Entities |->
            IF id \in IdsOf(shelf)
            THEN LET row == CHOOSE row \in Stored : row.id = id
                 IN  [version |-> row.version, notes |-> row.notes, gone |-> FALSE]
            ELSE [version |-> 0, notes |-> 0, gone |-> FALSE]]

\* No request is being served: nobody need ever call again, and the bounds of this model
\* may leave no call to make.
CatalogRests ==
    /\ \A r \in Requests : request[r] = NoRequest
    /\ UNCHANGED catalogVars

CatalogNext ==
    \/ \E r \in Requests :
          \/ \E slug \in Slugs, name \in Names : BeginCreate(r, slug, name)
          \/ \E i \in DOMAIN CollectionRows :
                \/ \E change \in Changes \cup {ArchiveChange} : BeginUpdate(r, i, change)
                \/ BeginDelete(r, i)
          \/ SaveRow(r) \/ DeleteRow(r) \/ DeleteFindsNothing(r) \/ RequestLost(r)
          \/ \E target \in 2..LatestVersion : BeginMigrate(r, target)
          \/ CommitMigration(r) \/ RefuseMigration(r)
    \/ CatalogRests

CatalogSpec == CatalogInit /\ [][CatalogNext]_catalogVars

-----------------------------------------------------------------------------
CatalogTypeOK ==
    /\ \A row \in Stored : row.id \in Entities /\ row.version > row.notes
    /\ storeRevision \in 0..MaxStoreRevision /\ storeSchema \in 1..LatestVersion
    /\ issued \in Entities /\ overlapped \subseteq Entities \cup Slugs

SlugsClashOnlyInRaces ==
    \A i, j \in DOMAIN CollectionRows :
        CollectionRows[i].slug = CollectionRows[j].slug =>
            i = j \/ CollectionRows[i].slug \in overlapped

UpdatesLostOnlyInRaces ==
    \A id \in Entities \ overlapped :
        LET rows == {row \in Stored : row.id = id}
        IN  /\ (rows = {}) = (acknowledged[id].gone \/ acknowledged[id].version = 0)
            /\ \A row \in rows : /\ row.version = acknowledged[id].version
                                 /\ row.notes = acknowledged[id].notes

\* A collection holds one row per id and, as create refuses a slug that is taken, one
\* row per slug.  What completed requests did to a row is in that row, and a deleted
\* row stays away.  Only requests about the same row or slug that ran between the read
\* and the save of one another, or a migration that did, can break this: they leave a
\* slug twice, lose an update, or bring a deleted row back.
RequestsAreKept ==
    /\ CatalogTypeOK
    /\ \A c \in DOMAIN shelf : \A i, j \in DOMAIN shelf[c] :
          shelf[c][i].id = shelf[c][j].id => i = j
    /\ SlugsClashOnlyInRaces
    /\ UpdatesLostOnlyInRaces

\* A migration is built from a snapshot; what it commits is the migration of the
\* collections as they are at that moment: no request completed since is undone.
MigrationLosesNoWrite ==
    [][storeSchema' # storeSchema =>
          shelf' = Migrated(shelf, storeSchema, storeSchema')]_catalogVars

(***************************************************************************)
(* Reading the rows: EntityService.list with paginate, and Query.execute.  *)
(***************************************************************************)
NameBefore(a, b) == a.name < b.name \/ (a.name = b.name /\ a.id < b.id)
NameOrder(rows) ==
    {ij \in (DOMAIN rows) \X (DOMAIN rows) : NameBefore(rows[ij[1]], rows[ij[2]])}

Listed(status) ==
    RowsAt(CollectionRows,
           {i \in DOMAIN CollectionRows : status \in {Missing, CollectionRows[i].status}},
           NameOrder(CollectionRows))

PageQuery(query, p, size) == [query EXCEPT !.offset = (p - 1) * size, !.limit = size]
PageOf(query, p, size) == Execute(PageQuery(query, p, size), CollectionRows)

\* The pages of a listing, and of a query, show every row that matches exactly once
\* and in order, whatever the size; the last one alone says that nothing follows; and
\* the groups of an aggregate count every row once.
PagesShowEachRowOnce ==
    /\ \A status \in RowStatuses \cup {Missing} :
          LET items == Listed(status)
          IN  /\ ToSet(items) = {row \in ToSet(CollectionRows) : status \in {Missing, row.status}}
              /\ \A i, j \in DOMAIN items : i < j => NameBefore(items[i], items[j])
              /\ \A size \in PageSizes :
                    LET count == PageCount(Len(items), size)
                        pages == Pages(LAMBDA p : Paginate(items, p, size), count)
                    IN  /\ FlattenSeq([p \in 1..count |-> pages[p].items]) = items
                        /\ \A p \in 1..count : pages[p].has_next = (p < count)
    /\ \A query \in Queries :
          LET answer == QueryReference(query, CollectionRows)
          IN  \A size \in PageSizes :
                LET count == PageCount(Len(answer), size)
                    pages == Pages(LAMBDA p : PageOf(query, p, size), count)
                IN  /\ FlattenSeq([p \in 1..count |-> pages[p].rows]) = answer
                    /\ \A p \in 1..count :
                          HasMore(PageQuery(query, p, size), pages[p]) = (p < count)
    /\ LET groups == Aggregate(CollectionRows, "season", "notes")
       IN  /\ SumFunctionOnSet([g \in groups |-> g.count], groups) = Len(CollectionRows)
           /\ \A g \in groups : g.count * g.minimum <= g.total /\ g.total <= g.count * g.maximum
=============================================================================
