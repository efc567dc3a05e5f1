-------------------------- MODULE DayPackService ---------------------------
(***************************************************************************)
(* services/day_pack.py over models/day_pack.py: the operational snapshot  *)
(* of one production on one day.  A build reads the catalog collections    *)
(* one store call after the other, then looks for the day's pack, and only *)
(* then saves: each of these is a call of its own on JsonStore (atomic by  *)
(* StoreSpec), so other requests run in between.                           *)
(*                                                                         *)
(* A catalog collection is abstracted to a generation that every edit      *)
(* raises; a section of a pack is the generation it was read from.         *)
(***************************************************************************)
EXTENDS Naturals, Sequences, FiniteSets

CONSTANTS Workers,      \* request threads that share the store
          Days,         \* (production, date) pairs
          Sources,      \* the collections a build reads, in the code's order
          None,         \* no pack found
          MaxEdits,     \* bound: generations of a collection
          MaxPacks,     \* bound: packs created
          MaxVersion    \* bound: version of a pack

ASSUME PackAssumption ==
    /\ Sources \in Seq(STRING) /\ Sources # <<>>
    /\ {MaxEdits, MaxPacks} \subseteq Nat /\ MaxVersion \in Nat \ {0}

VARIABLES catalog,      \* collection -> generation
          packs,        \* rows of the day_packs collection, in order
          created,      \* ids handed out by generate_id
          work          \* worker -> its request in progress

vars == <<catalog, packs, created, work>>

SourceNames == {Sources[i] : i \in 1..Len(Sources)}
Statuses == {"draft", "published"}
Pack == [id : 1..MaxPacks, day : Days, status : Statuses,
         version : 1..MaxVersion, sections : [SourceNames -> 0..MaxEdits]]

ASSUME NoneAssumption == None \notin Pack

Idle == [step |-> "idle"]
Rows == 1..Len(packs)

\* A catalog route edits a collection.
EditCatalog(s) ==
    /\ catalog[s] < MaxEdits
    /\ catalog' = [catalog EXCEPT ![s] = @ + 1]
    /\ UNCHANGED <<packs, created, work>>

(***************************************************************************)
(* build: read the collections, find the pack of the day, save.            *)
(***************************************************************************)
StartBuild(w, day, publish) ==
    /\ work[w] = Idle
    /\ work' = [work EXCEPT ![w] =
                  [step |-> "read", day |-> day, publish |-> publish,
                   sections |-> <<>>]]
    /\ UNCHANGED <<catalog, packs, created>>

ReadSource(w) ==
    /\ work[w].step = "read"
    /\ Len(work[w].sections) < Len(Sources)
    /\ LET next == Sources[Len(work[w].sections) + 1]
       IN  work' = [work EXCEPT ![w].sections = Append(@, catalog[next])]
    /\ UNCHANGED <<catalog, packs, created>>

AllRead(w) == work[w].step = "read" /\ Len(work[w].sections) = Len(Sources)

\* The request raises before it has saved anything: the production is gone, a
\* checked-out prop has no checked_out_at, or the store cannot be read or written.
RequestFails(w) ==
    /\ work[w] # Idle
    /\ work' = [work EXCEPT ![w] = Idle]
    /\ UNCHANGED <<catalog, packs, created>>

Assembled(w) ==
    [s \in SourceNames |->
        work[w].sections[CHOOSE i \in 1..Len(Sources) : Sources[i] = s]]

\* Mutant: a draft of the day is not found.
FoundPublishedRow(day) ==
    LET matches == {i \in Rows : packs[i].day = day /\ packs[i].status = "published"}
    IN  IF matches = {} THEN None
        ELSE packs[CHOOSE i \in matches : \A j \in matches : i <= j]

\* _find_by_production_date: the first row of the day.
FoundRow(day) ==
    LET matches == {i \in Rows : packs[i].day = day}
    IN  IF matches = {} THEN None
        ELSE packs[CHOOSE i \in matches : \A j \in matches : i <= j]

Published(pack, publish) == IF publish THEN [pack EXCEPT !.status = "published"] ELSE pack

FindNone(w) ==
    /\ AllRead(w)
    /\ FoundRow(work[w].day) = None
    /\ created < MaxPacks
    /\ created' = created + 1
    /\ work' = [work EXCEPT ![w] =
                  [step |-> "save",
                   pack |-> Published([id |-> created + 1, day |-> work[w].day,
                                       status |-> "draft", version |-> 1,
                                       sections |-> Assembled(w)],
                                      work[w].publish)]]
    /\ UNCHANGED <<catalog, packs>>

FindPublished(w) ==
    /\ AllRead(w)
    /\ FoundRow(work[w].day) # None
    /\ FoundRow(work[w].day).status = "published"
    /\ work' = [work EXCEPT ![w] = Idle]
    /\ UNCHANGED <<catalog, packs, created>>

\* Mutant: a published pack is rebuilt as well.
FindAny(w) ==
    /\ AllRead(w)
    /\ FoundRow(work[w].day) # None
    /\ FoundRow(work[w].day).version < MaxVersion
    /\ work' = [work EXCEPT ![w] =
                  [step |-> "save",
                   pack |-> [FoundRow(work[w].day) EXCEPT
                               !.version = @ + 1, !.sections = Assembled(w)]]]
    /\ UNCHANGED <<catalog, packs, created>>

\* Mutant: the version of a rebuilt draft stays.
FindDraftSameVersion(w) ==
    /\ AllRead(w)
    /\ FoundRow(work[w].day) # None
    /\ FoundRow(work[w].day).status = "draft"
    /\ work' = [work EXCEPT ![w] =
                  [step |-> "save",
                   pack |-> [FoundRow(work[w].day) EXCEPT !.sections = Assembled(w)]]]
    /\ UNCHANGED <<catalog, packs, created>>

\* apply_snapshot on the row found, and publish if asked.
FindDraft(w) ==
    /\ AllRead(w)
    /\ FoundRow(work[w].day) # None
    /\ FoundRow(work[w].day).status = "draft"
    /\ FoundRow(work[w].day).version < MaxVersion
    /\ work' = [work EXCEPT ![w] =
                  [step |-> "save",
                   pack |-> Published([FoundRow(work[w].day) EXCEPT
                                         !.version = @ + 1,
                                         !.sections = Assembled(w)],
                                      work[w].publish)]]
    /\ UNCHANGED <<catalog, packs, created>>

(***************************************************************************)
(* publish: get the row, then save it published.                           *)
(***************************************************************************)
StartPublish(w, i) ==
    /\ work[w] = Idle
    /\ packs[i].status = "draft"
    /\ work' = [work EXCEPT ![w] =
                  [step |-> "save", pack |-> Published(packs[i], TRUE)]]
    /\ UNCHANGED <<catalog, packs, created>>

\* _save: replace the row with the pack's id, or append.
SavedRows(pack) ==
    IF \E i \in Rows : packs[i].id = pack.id
    THEN [i \in Rows |-> IF packs[i].id = pack.id THEN pack ELSE packs[i]]
    ELSE Append(packs, pack)

Save(w) ==
    /\ work[w].step = "save"
    /\ packs' = SavedRows(work[w].pack)
    /\ work' = [work EXCEPT ![w] = Idle]
    /\ UNCHANGED <<catalog, created>>

Init ==
    /\ catalog = [s \in SourceNames |-> 0]
    /\ packs = <<>>
    /\ created = 0
    /\ work = [w \in Workers |-> Idle]

Next ==
    \/ \E s \in SourceNames : EditCatalog(s)
    \/ \E w \in Workers :
         \/ \E day \in Days, publish \in BOOLEAN : StartBuild(w, day, publish)
         \/ ReadSource(w) \/ RequestFails(w)
         \/ FindNone(w) \/ FindPublished(w) \/ FindDraft(w)
         \/ \E i \in Rows : StartPublish(w, i)
         \/ Save(w)

Spec == Init /\ [][Next]_vars

-----------------------------------------------------------------------------
TypeOK ==
    /\ catalog \in [SourceNames -> 0..MaxEdits]
    /\ packs \in Seq(Pack)
    /\ created \in 0..MaxPacks
    /\ \A w \in Workers :
         \/ work[w] = Idle
         \/ work[w].step = "read" /\ work[w].sections \in Seq(0..MaxEdits)
         \/ work[w].step = "save" /\ work[w].pack \in Pack

\* A production has one pack per day: building again finds the pack and
\* keeps its id.
OnePackPerDay == TypeOK /\ \A i, j \in Rows : packs[i].day = packs[j].day => i = j

\* A published pack is locked: no rebuild and no second publication changes
\* the row any more.
PublishedIsLocked ==
    [][\A i \in Rows : packs[i].status = "published" => packs'[i] = packs[i]]_vars

\* A rebuild raises the version and never brings a section back to an older
\* state of the catalog than the one the pack already showed.
RebuildMovesForward ==
    [][\A i \in Rows : packs'[i].sections # packs[i].sections =>
          /\ packs'[i].version > packs[i].version
          /\ \A s \in SourceNames : packs'[i].sections[s] >= packs[i].sections[s]]_vars
=============================================================================
