----------------------- MODULE CatalogServicesProofs ------------------------
(***************************************************************************)
(* Proofs about CatalogServices, for any number of days, collections,      *)
(* requests and migrations.  Those about day packs suppose that requests   *)
(* are served one after the other (OneWorker): with two threads they are   *)
(* false, as the run DayPack_unlock shows.                                 *)
(***************************************************************************)
EXTENDS CatalogServices, SumTheorems, SequenceTheorems

OneWorker == \A v, w \in Workers : v = w

(***************************************************************************)
(* Day packs.                                                              *)
(***************************************************************************)
Reading == [step : {"read"}, day : Days, publish : BOOLEAN, sections : Seq(0..MaxEdits)]
Saving == [step : {"save"}, pack : Pack]

PackTyped ==
    /\ catalog \in [SourceNames -> 0..MaxEdits]
    /\ packs \in Seq(Pack)
    /\ created \in 0..MaxPacks
    /\ work \in [Workers -> {Idle} \cup Reading \cup Saving]

\* No section of a row is newer than the collection it was read from.
RowsKnown ==
    \A i \in Rows : /\ packs[i].id <= created
                    /\ \A s \in SourceNames : packs[i].sections[s] <= catalog[s]

RowsDistinct ==
    \A i, j \in Rows : packs[i].id = packs[j].id \/ packs[i].day = packs[j].day => i = j

\* What a build has read is no older than any row, and no newer than the catalog.
ReadingSound(w) ==
    work[w].step = "read" =>
        /\ Len(work[w].sections) <= Len(Sources)
        /\ \A k \in 1..Len(work[w].sections) :
              /\ work[w].sections[k] <= catalog[Sources[k]]
              /\ \A i \in Rows : packs[i].sections[Sources[k]] <= work[w].sections[k]

Forward(old, new) ==
    new.sections # old.sections =>
        /\ new.version > old.version
        /\ \A s \in SourceNames : new.sections[s] >= old.sections[s]

\* A pack about to be saved replaces the one row of its day, a draft, or is new.
SavingSound(w) ==
    work[w].step = "save" =>
        /\ work[w].pack.id <= created
        /\ \A s \in SourceNames : work[w].pack.sections[s] <= catalog[s]
        /\ \A i \in Rows :
              /\ packs[i].id = work[w].pack.id <=> packs[i].day = work[w].pack.day
              /\ packs[i].id = work[w].pack.id =>
                    packs[i].status = "draft" /\ Forward(packs[i], work[w].pack)

PackInv ==
    /\ PackTyped
    /\ RowsKnown
    /\ RowsDistinct
    /\ \A w \in Workers : ReadingSound(w) /\ SavingSound(w)

-----------------------------------------------------------------------------
\* The pack of a day is found if there is one: it is the row of that day.
LEMMA FoundIs ==
    ASSUME RowsDistinct, NEW day \in Days
    PROVE  \/ FoundRow(day) = None /\ \A i \in Rows : packs[i].day # day
           \/ \E i \in Rows : FoundRow(day) = packs[i] /\ packs[i].day = day
  <1> DEFINE matches == {i \in Rows : packs[i].day = day}
             first == CHOOSE i \in matches : \A j \in matches : i <= j
  <1>1. CASE matches = {}
    BY <1>1 DEF FoundRow
  <1>2. CASE matches # {}
    <2>1. PICK i \in matches : TRUE
      BY <1>2
    <2>2. \A j \in matches : j = i /\ i <= j
      BY <2>1 DEF RowsDistinct, Rows
    <2>3. first \in matches
      <3> HIDE DEF matches
      <3> QED BY <2>1, <2>2
    <2>4. FoundRow(day) = packs[first]
      BY <1>2 DEF FoundRow
    <2> QED BY <2>3, <2>4
  <1> QED BY <1>1, <1>2

\* A row is a pack, and no row is None.
LEMMA RowsArePacks ==
    ASSUME PackTyped, NEW i \in Rows
    PROVE  packs[i] \in Pack /\ packs[i] # None
  BY NoneAssumption DEF PackTyped, Rows

\* What stands at a place of a sequence is of what the sequence is of.
LEMMA ElementsOf ==
    ASSUME NEW S, NEW q \in Seq(S), NEW k \in 1..Len(q)
    PROVE  q[k] \in S
  OBVIOUS

\* What a complete reading is assembled to is what was read of each collection.
LEMMA AssembledIs ==
    ASSUME PackTyped, NEW w \in Workers, AllRead(w)
    PROVE  /\ Assembled(w) \in [SourceNames -> 0..MaxEdits]
           /\ \A s \in SourceNames : \E k \in 1..Len(work[w].sections) :
                 Sources[k] = s /\ Assembled(w)[s] = work[w].sections[k]
  <1> DEFINE At(s) == CHOOSE i \in 1..Len(Sources) : Sources[i] = s
  <1>1. work[w].sections \in Seq(0..MaxEdits) /\ Len(work[w].sections) = Len(Sources)
    BY DEF PackTyped, AllRead, Reading, Saving, Idle
  <1>2. \A s \in SourceNames : At(s) \in 1..Len(Sources) /\ Sources[At(s)] = s
    BY DEF SourceNames
  <1>3. Assembled(w) = [s \in SourceNames |-> work[w].sections[At(s)]]
    BY DEF Assembled
  <1>4. \A s \in SourceNames : /\ Assembled(w)[s] = work[w].sections[At(s)]
                                /\ At(s) \in 1..Len(work[w].sections)
                                /\ Sources[At(s)] = s
    <2> HIDE DEF At
    <2> QED BY <1>1, <1>2, <1>3
  <1>5. \A k \in 1..Len(work[w].sections) : work[w].sections[k] \in 0..MaxEdits
    BY <1>1, ElementsOf
  <1> HIDE DEF At
  <1>6. \A s \in SourceNames : Assembled(w)[s] \in 0..MaxEdits
    BY <1>4, <1>5
  <1>7. Assembled(w) \in [SourceNames -> 0..MaxEdits]
    BY <1>3, <1>6
  <1> QED BY <1>4, <1>7

\* The steps of a request have the shapes PackTyped gives them.
LEMMA WorkIs ==
    ASSUME PackTyped, NEW w \in Workers
    PROVE  /\ work[w] = Idle => work[w].step = "idle"
           /\ work[w].step = "read" => work[w] \in Reading
           /\ work[w].step = "save" => work[w] \in Saving
  BY DEF PackTyped, Idle, Reading, Saving

\* An edit of the catalog only makes it newer.
LEMMA EditKeeps ==
    ASSUME PackInv, NEW s \in SourceNames, EditCatalog(s)
    PROVE  PackInv'
  <1>1. catalog \in [SourceNames -> 0..MaxEdits] /\ MaxEdits \in Nat /\ MaxPacks \in Nat
    BY PackAssumption DEF PackInv, PackTyped
  <1>2. /\ catalog' \in [SourceNames -> 0..MaxEdits]
        /\ \A t \in SourceNames : catalog'[t] >= catalog[t]
    BY <1>1 DEF EditCatalog
  <1>3. UNCHANGED <<packs, created, work>>
    BY DEF EditCatalog
  <1>4. PackTyped'
    BY <1>2, <1>3 DEF PackInv, PackTyped
  <1>5. RowsKnown'
    <2> SUFFICES ASSUME NEW i \in Rows
                 PROVE  /\ packs[i].id <= created
                        /\ \A t \in SourceNames : packs[i].sections[t] <= catalog'[t]
      BY <1>3 DEF RowsKnown, Rows
    <2>1. packs[i].sections \in [SourceNames -> 0..MaxEdits]
      BY RowsArePacks DEF PackInv, Pack
    <2> QED BY <1>1, <1>2, <2>1 DEF PackInv, RowsKnown
  <1>6. RowsDistinct'
    BY <1>3 DEF PackInv, RowsDistinct, Rows
  <1>7. ASSUME NEW w \in Workers PROVE ReadingSound(w)'
    <2> SUFFICES ASSUME work[w].step = "read", NEW k \in 1..Len(work[w].sections)
                 PROVE  work[w].sections[k] <= catalog'[Sources[k]]
      BY <1>3 DEF PackInv, ReadingSound, Rows
    <2>1. work[w].sections \in Seq(0..MaxEdits) /\ Len(work[w].sections) <= Len(Sources)
      BY WorkIs DEF PackInv, Reading, ReadingSound
    <2>2. Sources[k] \in SourceNames /\ work[w].sections[k] \in 0..MaxEdits
      BY <2>1, ElementsOf, PackAssumption DEF SourceNames
    <2>3. work[w].sections[k] <= catalog[Sources[k]]
      BY DEF PackInv, ReadingSound
    <2> QED BY <1>1, <1>2, <2>2, <2>3
  <1>8. ASSUME NEW w \in Workers PROVE SavingSound(w)'
    <2> SUFFICES ASSUME work[w].step = "save", NEW t \in SourceNames
                 PROVE  work[w].pack.sections[t] <= catalog'[t]
      BY <1>3 DEF PackInv, SavingSound, Rows
    <2>1. work[w].pack.sections \in [SourceNames -> 0..MaxEdits]
      BY WorkIs DEF PackInv, Saving, Pack
    <2>2. work[w].pack.sections[t] <= catalog[t]
      BY DEF PackInv, SavingSound
    <2> QED BY <1>1, <1>2, <2>1, <2>2
  <1> QED BY <1>4, <1>5, <1>6, <1>7, <1>8 DEF PackInv

\* A step that leaves catalog and rows alone has to keep the work sound only.
LEMMA WorkKeeps ==
    ASSUME PackInv, OneWorker, NEW w \in Workers, UNCHANGED <<catalog, packs>>,
           created' \in 0..MaxPacks, created' >= created,
           work' \in [Workers -> {Idle} \cup Reading \cup Saving],
           ReadingSound(w)', SavingSound(w)'
    PROVE  PackInv'
  <1>1. PackTyped'
    BY DEF PackInv, PackTyped
  <1>2. RowsKnown'
    <2> SUFFICES ASSUME NEW i \in Rows PROVE packs[i].id <= created'
      BY DEF PackInv, RowsKnown, Rows
    <2>1. packs[i].id \in Nat /\ created \in Nat /\ packs[i].id <= created
      BY RowsArePacks, PackAssumption DEF PackInv, PackTyped, RowsKnown, Pack
    <2> QED BY <2>1
  <1>3. RowsDistinct'
    BY DEF PackInv, RowsDistinct, Rows
  <1>4. \A v \in Workers : v = w
    BY DEF OneWorker
  <1> QED BY <1>1, <1>2, <1>3, <1>4 DEF PackInv

\* Starting a build, reading a collection, failing, and finding a published pack
\* keep the invariant: they write no pack.
LEMMA ReadingKeeps ==
    ASSUME PackInv, OneWorker, NEW w \in Workers,
           \/ \E day \in Days, publish \in BOOLEAN : StartBuild(w, day, publish)
           \/ ReadSource(w) \/ RequestFails(w) \/ FindPublished(w)
    PROVE  PackInv'
  <1>1. /\ MaxPacks \in Nat /\ created \in 0..MaxPacks
        /\ work \in [Workers -> {Idle} \cup Reading \cup Saving]
    BY PackAssumption DEF PackInv, PackTyped
  <1>2. ASSUME NEW day \in Days, NEW publish \in BOOLEAN, StartBuild(w, day, publish)
        PROVE  PackInv'
    <2> DEFINE task == [step |-> "read", day |-> day, publish |-> publish, sections |-> <<>>]
    <2>1. task \in Reading
      BY DEF Reading
    <2>2. work'[w] = task /\ work' = [work EXCEPT ![w] = task]
          /\ UNCHANGED <<catalog, packs, created>>
      BY <1>1, <1>2 DEF StartBuild
    <2>3. ReadingSound(w)' /\ SavingSound(w)'
      BY <2>2, PackAssumption DEF ReadingSound, SavingSound
    <2>4. work' \in [Workers -> {Idle} \cup Reading \cup Saving]
      BY <1>1, <2>1, <2>2
    <2>5. created' \in 0..MaxPacks /\ created' >= created
      BY <1>1, <2>2
    <2> QED BY <2>2, <2>3, <2>4, <2>5, WorkKeeps
  <1>3. CASE RequestFails(w) \/ FindPublished(w)
    <2>1. work' = [work EXCEPT ![w] = Idle] /\ UNCHANGED <<catalog, packs, created>>
      BY <1>3 DEF RequestFails, FindPublished
    <2>2. work'[w].step = "idle"
      BY <1>1, <2>1 DEF Idle
    <2>3. ReadingSound(w)' /\ SavingSound(w)'
      BY <2>2 DEF ReadingSound, SavingSound
    <2>4. work' \in [Workers -> {Idle} \cup Reading \cup Saving]
      BY <1>1, <2>1
    <2>5. created' \in 0..MaxPacks /\ created' >= created
      BY <1>1, <2>1
    <2> QED BY <2>1, <2>3, <2>4, <2>5, WorkKeeps
  <1>4. CASE ReadSource(w)
    <2> DEFINE old == work[w].sections
               next == Sources[Len(old) + 1]
               new == Append(old, catalog[next])
    <2>1. /\ work[w] \in Reading /\ Len(old) < Len(Sources)
          /\ work' = [work EXCEPT ![w].sections = new]
          /\ UNCHANGED <<catalog, packs, created>>
      BY <1>4, WorkIs DEF ReadSource, PackInv
    <2>2. old \in Seq(0..MaxEdits) /\ next \in SourceNames /\ catalog[next] \in 0..MaxEdits
      <3>1. old \in Seq(0..MaxEdits)
        BY <2>1 DEF Reading
      <3>2. Len(old) + 1 \in 1..Len(Sources)
        <4> HIDE DEF next, new
        <4> QED BY <2>1, <3>1, PackAssumption
      <3>3. next \in SourceNames
        BY <3>2 DEF SourceNames
      <3>4. catalog[next] \in 0..MaxEdits
        <4> HIDE DEF next, new
        <4> QED BY <3>3 DEF PackInv, PackTyped
      <3> QED BY <3>1, <3>3, <3>4
    <2>3. /\ new \in Seq(0..MaxEdits) /\ Len(new) = Len(old) + 1 /\ Len(old) \in Nat
          /\ \A k \in 1..Len(old) : new[k] = old[k]
          /\ new[Len(old) + 1] = catalog[next]
      <3> HIDE DEF next, old
      <3> QED BY <2>2
    <2> HIDE DEF new
    <2>4. [work[w] EXCEPT !.sections = new] \in Reading
      BY <2>1, <2>3 DEF Reading
    <2>5. /\ work' = [work EXCEPT ![w] = [work[w] EXCEPT !.sections = new]]
          /\ work'[w].sections = new /\ work'[w].step = "read"
      BY <1>1, <2>1 DEF Reading
    <2>6. \A k \in 1..Len(new) : /\ new[k] <= catalog[Sources[k]]
                                  /\ \A i \in Rows : packs[i].sections[Sources[k]] <= new[k]
      <3> SUFFICES ASSUME NEW k \in 1..Len(new)
                   PROVE  /\ new[k] <= catalog[Sources[k]]
                          /\ \A i \in Rows : packs[i].sections[Sources[k]] <= new[k]
        OBVIOUS
      <3>1. CASE k \in 1..Len(old)
        BY <2>1, <2>3, <3>1 DEF PackInv, ReadingSound, Reading
      <3>2. CASE k = Len(old) + 1
        BY <2>2, <2>3, <3>2 DEF PackInv, RowsKnown
      <3> QED BY <2>3, <3>1, <3>2
    <2>7. ReadingSound(w)'
      <3>1. Len(new) <= Len(Sources)
        BY <2>1, <2>3, PackAssumption
      <3> QED BY <2>1, <2>5, <2>6, <3>1 DEF ReadingSound, Rows
    <2>8. SavingSound(w)'
      BY <2>5 DEF SavingSound
    <2>9. work' \in [Workers -> {Idle} \cup Reading \cup Saving]
      BY <1>1, <2>4, <2>5
    <2>10. created' \in 0..MaxPacks /\ created' >= created
      BY <1>1, <2>1
    <2> QED BY <2>1, <2>7, <2>8, <2>9, <2>10, WorkKeeps
  <1> QED BY <1>2, <1>3, <1>4

\* A build without a pack of the day makes a new one, with an id no row has.
LEMMA NewKeeps ==
    ASSUME PackInv, OneWorker, NEW w \in Workers, FindNone(w)
    PROVE  PackInv'
  <1> DEFINE draft == [id |-> created + 1, day |-> work[w].day, status |-> "draft",
                       version |-> 1, sections |-> Assembled(w)]
             pack == Published(draft, work[w].publish)
  <1>1. /\ created \in 0..MaxPacks /\ created < MaxPacks /\ MaxPacks \in Nat
        /\ work \in [Workers -> {Idle} \cup Reading \cup Saving]
        /\ UNCHANGED <<catalog, packs>> /\ created' = created + 1
    BY PackAssumption DEF PackInv, PackTyped, FindNone
  <1>2. work[w] \in Reading /\ AllRead(w)
    BY WorkIs DEF PackInv, FindNone, AllRead
  <1>3. work' = [work EXCEPT ![w] = [step |-> "save", pack |-> pack]]
    BY DEF FindNone
  <1>4. /\ Assembled(w) \in [SourceNames -> 0..MaxEdits]
        /\ \A s \in SourceNames : Assembled(w)[s] <= catalog[s]
    <2>1. \A k \in 1..Len(work[w].sections) : work[w].sections[k] <= catalog[Sources[k]]
      BY <1>2 DEF PackInv, ReadingSound, Reading
    <2> QED BY <1>2, <2>1, AssembledIs DEF PackInv
  <1>5. /\ pack.id = created + 1 /\ pack.day = work[w].day
        /\ pack.sections = Assembled(w) /\ pack.version = 1 /\ pack.status \in Statuses
        /\ DOMAIN pack = {"id", "day", "status", "version", "sections"}
    BY DEF Published, Statuses
  <1>6. \A i \in Rows : packs[i].id # created + 1 /\ packs[i].day # work[w].day
    <2>1. \A i \in Rows : packs[i].day # work[w].day
      <3>1. FoundRow(work[w].day) = None /\ work[w].day \in Days
        BY <1>2 DEF FindNone, Reading
      <3>2. \A i \in Rows : packs[i] # None
        BY RowsArePacks DEF PackInv
      <3> QED BY <3>1, <3>2, FoundIs DEF PackInv
    <2>2. \A i \in Rows : packs[i].id \in Nat /\ packs[i].id <= created
      BY RowsArePacks, <1>1 DEF PackInv, RowsKnown, Pack
    <2> QED BY <1>1, <2>1, <2>2
  <1>7. pack \in Pack
    <2>1. 1 \in 1..MaxVersion
      BY PackAssumption
    <2> QED BY <1>1, <1>2, <1>4, <2>1 DEF Published, Pack, Statuses, Reading
  <1> HIDE DEF pack
  <1>8. /\ work'[w] = [step |-> "save", pack |-> pack]
        /\ work'[w].step = "save" /\ work'[w].pack = pack
    BY <1>1, <1>3
  <1>9. ReadingSound(w)'
    BY <1>8 DEF ReadingSound
  <1>10. SavingSound(w)'
    <2>1. pack.id <= created'
      BY <1>1, <1>5
    <2>2. \A i \in Rows : packs[i].id # pack.id /\ packs[i].day # pack.day
      BY <1>5, <1>6
    <2> QED BY <1>1, <1>4, <1>5, <1>8, <2>1, <2>2 DEF SavingSound, Rows
  <1>11. work' \in [Workers -> {Idle} \cup Reading \cup Saving]
    <2>1. [step |-> "save", pack |-> pack] \in Saving
      BY <1>7 DEF Saving
    <2> QED BY <1>1, <1>3, <2>1
  <1>12. created' \in 0..MaxPacks /\ created' >= created
    BY <1>1
  <1> QED BY <1>1, <1>9, <1>10, <1>11, <1>12, WorkKeeps

\* A rebuilt draft keeps its id and day, and moves forward.
LEMMA DraftKeeps ==
    ASSUME PackInv, OneWorker, NEW w \in Workers, FindDraft(w)
    PROVE  PackInv'
  <1>1. /\ created \in 0..MaxPacks /\ MaxPacks \in Nat
        /\ work \in [Workers -> {Idle} \cup Reading \cup Saving]
        /\ UNCHANGED <<catalog, packs, created>>
    BY PackAssumption DEF PackInv, PackTyped, FindDraft
  <1>2. work[w] \in Reading /\ AllRead(w)
    BY WorkIs DEF PackInv, FindDraft, AllRead
  <1>3. PICK i \in Rows : FoundRow(work[w].day) = packs[i]
    <2>1. FoundRow(work[w].day) # None /\ work[w].day \in Days
      BY <1>2 DEF FindDraft, Reading
    <2> QED BY <2>1, FoundIs DEF PackInv
  <1> DEFINE row == packs[i]
             again == [row EXCEPT !.version = @ + 1, !.sections = Assembled(w)]
             pack == Published(again, work[w].publish)
  <1>4. /\ work' = [work EXCEPT ![w] = [step |-> "save", pack |-> pack]]
        /\ row.status = "draft" /\ row.version < MaxVersion
    BY <1>3 DEF FindDraft
  <1>5. row \in Pack /\ row.id <= created
    BY RowsArePacks DEF PackInv, RowsKnown
  <1>6. /\ Assembled(w) \in [SourceNames -> 0..MaxEdits]
        /\ \A s \in SourceNames : /\ Assembled(w)[s] <= catalog[s]
                                   /\ Assembled(w)[s] >= row.sections[s]
    <2>1. \A k \in 1..Len(work[w].sections) :
            /\ work[w].sections[k] <= catalog[Sources[k]]
            /\ row.sections[Sources[k]] <= work[w].sections[k]
      BY <1>2 DEF PackInv, ReadingSound, Reading
    <2>2. Assembled(w) \in [SourceNames -> 0..MaxEdits]
      BY <1>2, AssembledIs DEF PackInv
    <2>3. ASSUME NEW s \in SourceNames
          PROVE  Assembled(w)[s] <= catalog[s] /\ Assembled(w)[s] >= row.sections[s]
      <3>1. Assembled(w)[s] \in 0..MaxEdits /\ row.sections[s] \in 0..MaxEdits
        BY <2>2, <1>5 DEF Pack
      <3>2. PICK k \in 1..Len(work[w].sections) :
              Sources[k] = s /\ Assembled(w)[s] = work[w].sections[k]
        BY <1>2, AssembledIs DEF PackInv
      <3>3. row.sections[s] <= Assembled(w)[s] /\ Assembled(w)[s] <= catalog[s]
        BY <2>1, <3>2
      <3> QED BY <3>1, <3>3
    <2> QED BY <2>2, <2>3
  <1>7. /\ pack.id = row.id /\ pack.day = row.day /\ pack.sections = Assembled(w)
        /\ pack.version = row.version + 1 /\ pack \in Pack
    <2>1. row.version + 1 \in 1..MaxVersion
      BY <1>4, <1>5, PackAssumption DEF Pack
    <2>2. /\ again \in Pack /\ again.id = row.id /\ again.day = row.day
          /\ again.sections = Assembled(w) /\ again.version = row.version + 1
      BY <1>5, <1>6, <2>1 DEF Pack
    <2> HIDE DEF again
    <2> QED BY <2>2 DEF Published, Pack, Statuses
  <1>8. Forward(row, pack)
    BY <1>5, <1>6, <1>7 DEF Forward, Pack
  <1> HIDE DEF pack
  <1>9. work'[w].step = "save" /\ work'[w].pack = pack
    BY <1>1, <1>4
  <1>10. ReadingSound(w)'
    BY <1>9 DEF ReadingSound
  <1>11. SavingSound(w)'
    <2>1. \A j \in Rows : /\ packs[j].id = pack.id <=> j = i
                          /\ packs[j].day = pack.day <=> j = i
      BY <1>7 DEF PackInv, RowsDistinct
    <2> QED BY <1>1, <1>4, <1>5, <1>6, <1>7, <1>8, <1>9, <2>1 DEF SavingSound, Rows
  <1>12. work' \in [Workers -> {Idle} \cup Reading \cup Saving]
    <2>1. [step |-> "save", pack |-> pack] \in Saving
      BY <1>7 DEF Saving
    <2> QED BY <1>1, <1>4, <2>1
  <1>13. created' \in 0..MaxPacks /\ created' >= created
    BY <1>1
  <1> QED BY <1>1, <1>10, <1>11, <1>12, <1>13, WorkKeeps

\* A draft taken up to be published keeps what it shows.
LEMMA PublishKeeps ==
    ASSUME PackInv, OneWorker, NEW w \in Workers, NEW i \in Rows, StartPublish(w, i)
    PROVE  PackInv'
  <1> DEFINE row == packs[i]
             pack == Published(row, TRUE)
  <1>1. /\ created \in 0..MaxPacks /\ MaxPacks \in Nat
        /\ work \in [Workers -> {Idle} \cup Reading \cup Saving]
        /\ UNCHANGED <<catalog, packs, created>> /\ row.status = "draft"
        /\ work' = [work EXCEPT ![w] = [step |-> "save", pack |-> pack]]
    BY PackAssumption DEF PackInv, PackTyped, StartPublish
  <1>2. row \in Pack /\ row.id <= created /\ \A s \in SourceNames : row.sections[s] <= catalog[s]
    BY RowsArePacks DEF PackInv, RowsKnown
  <1>3. /\ pack.id = row.id /\ pack.day = row.day /\ pack.sections = row.sections
        /\ pack \in Pack
    BY <1>2 DEF Published, Pack, Statuses
  <1> HIDE DEF pack
  <1>4. work'[w].step = "save" /\ work'[w].pack = pack
    BY <1>1
  <1>5. ReadingSound(w)'
    BY <1>4 DEF ReadingSound
  <1>6. SavingSound(w)'
    <2>1. \A j \in Rows : /\ packs[j].id = pack.id <=> j = i
                          /\ packs[j].day = pack.day <=> j = i
      BY <1>3 DEF PackInv, RowsDistinct
    <2> QED BY <1>1, <1>2, <1>3, <1>4, <2>1 DEF SavingSound, Rows, Forward
  <1>7. work' \in [Workers -> {Idle} \cup Reading \cup Saving]
    <2>1. [step |-> "save", pack |-> pack] \in Saving
      BY <1>3 DEF Saving
    <2> QED BY <1>1, <2>1
  <1>8. created' \in 0..MaxPacks /\ created' >= created
    BY <1>1
  <1> QED BY <1>1, <1>5, <1>6, <1>7, <1>8, WorkKeeps

\* What a save makes of the rows: the pack takes the place of the row with its id,
\* or comes last.
LEMMA SavedIs ==
    ASSUME PackInv, NEW w \in Workers, Save(w)
    PROVE  /\ packs' \in Seq(Pack)
           /\ \/ /\ Rows' = Rows
                 /\ \A i \in Rows : packs'[i] = IF packs[i].id = work[w].pack.id
                                                  THEN work[w].pack ELSE packs[i]
              \/ /\ Rows' = Rows \cup {Len(packs) + 1}
                 /\ packs'[Len(packs) + 1] = work[w].pack
                 /\ \A i \in Rows : packs'[i] = packs[i] /\ packs[i].id # work[w].pack.id
  <1>1. /\ packs \in Seq(Pack) /\ packs' = SavedRows(work[w].pack) /\ work[w].pack \in Pack
    BY WorkIs DEF PackInv, PackTyped, Save, Saving
  <1> DEFINE pack == work[w].pack
  <1>2. CASE \E i \in Rows : packs[i].id = pack.id
    <2>1. packs' = [i \in Rows |-> IF packs[i].id = pack.id THEN pack ELSE packs[i]]
      BY <1>1, <1>2 DEF SavedRows
    <2>2. packs' \in Seq(Pack) /\ Len(packs') = Len(packs)
      BY <1>1, <2>1 DEF Rows
    <2> QED BY <2>1, <2>2 DEF Rows
  <1>3. CASE ~\E i \in Rows : packs[i].id = pack.id
    <2>1. packs' = Append(packs, pack)
      BY <1>1, <1>3 DEF SavedRows
    <2>2. packs' \in Seq(Pack) /\ Len(packs') = Len(packs) + 1 /\ Len(packs) \in Nat
      BY <1>1, <2>1
    <2>3. Rows' = Rows \cup {Len(packs) + 1}
      BY <2>2 DEF Rows
    <2>4. /\ \A i \in Rows : packs'[i] = packs[i]
          /\ packs'[Len(packs) + 1] = pack
      BY <1>1, <2>1 DEF Rows
    <2> QED BY <1>3, <2>2, <2>3, <2>4
  <1> QED BY <1>2, <1>3

\* The save ends the only request there is, so there is no work left to be sound.
LEMMA SaveKeeps ==
    ASSUME PackInv, OneWorker, NEW w \in Workers, Save(w)
    PROVE  PackInv'
  <1> DEFINE pack == work[w].pack
  <1>1. /\ created \in 0..MaxPacks /\ MaxPacks \in Nat
        /\ work \in [Workers -> {Idle} \cup Reading \cup Saving]
        /\ work' = [work EXCEPT ![w] = Idle] /\ UNCHANGED <<catalog, created>>
    BY PackAssumption DEF PackInv, PackTyped, Save
  <1>2. PackTyped'
    BY <1>1, SavedIs DEF PackInv, PackTyped
  <1>3. /\ pack.id <= created
        /\ \A s \in SourceNames : pack.sections[s] <= catalog[s]
        /\ \A i \in Rows : packs[i].id = pack.id <=> packs[i].day = pack.day
    BY DEF PackInv, SavingSound, Save
  <1>4. RowsKnown'
    <2> SUFFICES ASSUME NEW i \in Rows'
                 PROVE  /\ packs'[i].id <= created
                        /\ \A s \in SourceNames : packs'[i].sections[s] <= catalog[s]
      BY <1>1 DEF RowsKnown
    <2>1. packs'[i] = pack \/ (i \in Rows /\ packs'[i] = packs[i])
      BY SavedIs
    <2> QED BY <1>3, <2>1 DEF PackInv, RowsKnown
  <1>5. RowsDistinct'
    <2> SUFFICES ASSUME NEW i \in Rows', NEW j \in Rows',
                        packs'[i].id = packs'[j].id \/ packs'[i].day = packs'[j].day
                 PROVE  i = j
      BY DEF RowsDistinct
    <2>1. CASE /\ Rows' = Rows
               /\ \A k \in Rows : packs'[k] = IF packs[k].id = pack.id THEN pack ELSE packs[k]
      <3>1. \A k \in Rows : packs'[k].id = packs[k].id /\ packs'[k].day = packs[k].day
        BY <1>3, <2>1
      <3> QED BY <2>1, <3>1 DEF PackInv, RowsDistinct
    <2>2. CASE /\ Rows' = Rows \cup {Len(packs) + 1}
               /\ packs'[Len(packs) + 1] = pack
               /\ \A k \in Rows : packs'[k] = packs[k] /\ packs[k].id # pack.id
      <3>1. \A k \in Rows : /\ packs'[k].id = packs[k].id /\ packs'[k].day = packs[k].day
                            /\ packs[k].id # pack.id /\ packs[k].day # pack.day
        BY <1>3, <2>2
      <3> QED BY <2>2, <3>1 DEF PackInv, RowsDistinct
    <2> QED BY <2>1, <2>2, SavedIs
  <1>6. ASSUME NEW v \in Workers PROVE ReadingSound(v)' /\ SavingSound(v)'
    <2>1. work'[v].step = "idle"
      BY <1>1 DEF OneWorker, Idle
    <2> QED BY <2>1 DEF ReadingSound, SavingSound
  <1> QED BY <1>2, <1>4, <1>5, <1>6 DEF PackInv

\* The invariant holds when nothing is built and no pack is stored.
LEMMA PackInit == Init => PackInv
  <1> SUFFICES ASSUME Init PROVE PackInv
    OBVIOUS
  <1>1. Rows = {}
    BY DEF Init, Rows
  <1>2. \A w \in Workers : work[w].step = "idle"
    BY DEF Init, Idle
  <1> QED BY <1>1, <1>2, PackAssumption
          DEF Init, PackInv, PackTyped, RowsKnown, RowsDistinct, ReadingSound, SavingSound

\* Every step of the day pack service, or of another service, keeps the invariant.
LEMMA PackStep ==
    ASSUME PackInv, OneWorker, [ServicesNext]_servicesVars
    PROVE  PackInv'
  <1>1. CASE Next
    <2>1. ASSUME NEW w \in Workers, NEW i \in Rows, StartPublish(w, i) PROVE PackInv'
      BY <2>1, PublishKeeps
    <2> QED BY <1>1, <2>1, EditKeeps, ReadingKeeps, NewKeeps, DraftKeeps, SaveKeeps DEF Next
  <1>2. CASE UNCHANGED vars
    BY <1>2 DEF vars, PackInv, PackTyped, RowsKnown, RowsDistinct, ReadingSound, SavingSound, Rows
  <1> QED BY <1>1, <1>2 DEF ServicesNext, servicesVars

\* Served one after the other, requests keep the rows and what is read for a build in
\* the order of the catalog's edits.
THEOREM PackInvariance ==
    ASSUME OneWorker
    PROVE  ServicesSpec => []PackInv
  <1>1. ServicesInit => PackInv
    BY PackInit DEF ServicesInit
  <1>2. PackInv /\ [ServicesNext]_servicesVars => PackInv'
    BY PackStep
  <1> QED BY <1>1, <1>2, PTL DEF ServicesSpec

\* Building again finds the pack of the day.
THEOREM OnePack ==
    ASSUME OneWorker
    PROVE  ServicesSpec => []OnePackPerDay
  <1>1. PackInv => OnePackPerDay
    <2> SUFFICES ASSUME PackInv PROVE OnePackPerDay
      OBVIOUS
    <2>1. \A w \in Workers : \/ work[w] = Idle
                             \/ work[w].step = "read" /\ work[w].sections \in Seq(0..MaxEdits)
                             \/ work[w].step = "save" /\ work[w].pack \in Pack
      BY DEF PackInv, PackTyped, Reading, Saving
    <2> QED BY <2>1 DEF PackInv, PackTyped, RowsDistinct, OnePackPerDay, TypeOK
  <1> QED BY <1>1, PackInvariance, PTL

\* Rows change by saves alone: each becomes the pack of a draft that moves forward.
LEMMA RowsMoveForward ==
    ASSUME PackInv, [ServicesNext]_servicesVars, NEW i \in Rows
    PROVE  \/ packs'[i] = packs[i]
           \/ packs[i].status = "draft" /\ Forward(packs[i], packs'[i])
  <1>1. ASSUME NEW w \in Workers, Save(w)
        PROVE  \/ packs'[i] = packs[i]
               \/ packs[i].status = "draft" /\ Forward(packs[i], packs'[i])
    BY <1>1, SavedIs DEF PackInv, SavingSound, Save
  <1>2. UNCHANGED packs \/ \E w \in Workers : Save(w)
    BY DEF ServicesNext, servicesVars, vars, Next, EditCatalog, StartBuild, ReadSource,
           RequestFails, FindNone, FindPublished, FindDraft, StartPublish
  <1> QED BY <1>1, <1>2

\* No step changes the row of a published pack.
THEOREM PublishedLocked ==
    ASSUME OneWorker
    PROVE  ServicesSpec => PublishedIsLocked
  <1> DEFINE Locked == \A i \in Rows : packs[i].status = "published" => packs'[i] = packs[i]
  <1>1. PackInv /\ [ServicesNext]_servicesVars => [Locked]_vars
    BY RowsMoveForward
  <1> QED BY <1>1, PackInvariance, PTL DEF ServicesSpec, PublishedIsLocked

\* A row that is built again has a higher version and no older section.
THEOREM RebuildForward ==
    ASSUME OneWorker
    PROVE  ServicesSpec => RebuildMovesForward
  <1> DEFINE Moves == \A i \in Rows : packs'[i].sections # packs[i].sections =>
                        /\ packs'[i].version > packs[i].version
                        /\ \A s \in SourceNames : packs'[i].sections[s] >= packs[i].sections[s]
  <1>1. PackInv /\ [ServicesNext]_servicesVars => [Moves]_vars
    BY RowsMoveForward DEF Forward
  <1> QED BY <1>1, PackInvariance, PTL DEF ServicesSpec, RebuildMovesForward

-----------------------------------------------------------------------------
(***************************************************************************)
(* Migrations, whatever the functions they are composed of do.             *)
(***************************************************************************)
\* A migration whose snapshot is of the revision the store has is the migration of
\* what the store has: every write in between would have raised the revision.
CurrentOrStale(r) ==
    Served(r) = "migrate" =>
        /\ request[r].base \in Nat /\ request[r].base <= storeRevision
        /\ request[r].base = storeRevision =>
              request[r].collections = Migrated(shelf, storeSchema, request[r].target)

MigrationInv ==
    /\ storeRevision \in Nat
    /\ request = [r \in Requests |-> request[r]]
    /\ \A r \in Requests : CurrentOrStale(r)

\* What a step of a request does to the store, and to the request.
LEMMA RequestSteps ==
    ASSUME NEW r \in Requests,
           \/ \E slug \in Slugs, name \in Names : BeginCreate(r, slug, name)
           \/ \E i \in DOMAIN CollectionRows :
                 \/ \E change \in Changes \cup {ArchiveChange} : BeginUpdate(r, i, change)
                 \/ BeginDelete(r, i)
           \/ SaveRow(r) \/ DeleteRow(r) \/ DeleteFindsNothing(r) \/ RequestLost(r)
           \/ CommitMigration(r) \/ RefuseMigration(r)
    PROVE  /\ \/ UNCHANGED <<shelf, storeRevision, storeSchema>>
              \/ storeRevision' = storeRevision + 1
           /\ \/ Serve(r, NoRequest)
              \/ \E new : Serve(r, new) /\ new.kind \in {"save", "delete"}
  <1>1. ASSUME NEW slug \in Slugs, NEW name \in Names, BeginCreate(r, slug, name)
        PROVE  \E new : Serve(r, new) /\ new.kind \in {"save", "delete"}
    BY <1>1 DEF BeginCreate
  <1>2. ASSUME NEW i \in DOMAIN CollectionRows,
               \/ \E change \in Changes \cup {ArchiveChange} : BeginUpdate(r, i, change)
               \/ BeginDelete(r, i)
        PROVE  \E new : Serve(r, new) /\ new.kind \in {"save", "delete"}
    <2>1. ASSUME NEW change \in Changes \cup {ArchiveChange}, BeginUpdate(r, i, change)
          PROVE  \E new : Serve(r, new) /\ new.kind \in {"save", "delete"}
      <3> DEFINE new == [kind |-> "save", row |-> Changed(CollectionRows[i], change),
                         touches |-> TouchCount(CollectionRows[i], change),
                         notes |-> change.note]
      <3>1. Serve(r, new) /\ new.kind = "save"
        BY <2>1 DEF BeginUpdate
      <3> HIDE DEF new
      <3> QED BY <3>1
    <2>2. ASSUME BeginDelete(r, i)
          PROVE  \E new : Serve(r, new) /\ new.kind \in {"save", "delete"}
      <3> DEFINE new == [kind |-> "delete", row |-> CollectionRows[i]]
      <3>1. Serve(r, new) /\ new.kind = "delete"
        BY <2>2 DEF BeginDelete
      <3> HIDE DEF new
      <3> QED BY <3>1
    <2> QED BY <1>2, <2>1, <2>2
  <1>3. ASSUME \/ SaveRow(r) \/ DeleteRow(r) \/ DeleteFindsNothing(r) \/ RequestLost(r)
               \/ CommitMigration(r) \/ RefuseMigration(r)
        PROVE  Serve(r, NoRequest)
    BY <1>3 DEF SaveRow, DeleteRow, DeleteFindsNothing, RequestLost, CommitMigration,
                RefuseMigration
  <1>4. \/ UNCHANGED <<shelf, storeRevision, storeSchema>>
        \/ storeRevision' = storeRevision + 1
    BY DEF BeginCreate, BeginUpdate, BeginDelete, SaveRow, DeleteRow, DeleteFindsNothing,
           RequestLost, CommitMigration, RefuseMigration, Wrote
  <1> QED BY <1>1, <1>2, <1>3, <1>4

\* Every step keeps what each migration holds current or stale: a request raises the
\* revision when it writes, and a migration reads the catalog and its revision at once.
LEMMA MigrationStep ==
    ASSUME MigrationInv, [ServicesNext]_servicesVars
    PROVE  MigrationInv'
  <1>1. ASSUME NEW r \in Requests,
               \/ \E slug \in Slugs, name \in Names : BeginCreate(r, slug, name)
               \/ \E i \in DOMAIN CollectionRows :
                     \/ \E change \in Changes \cup {ArchiveChange} : BeginUpdate(r, i, change)
                     \/ BeginDelete(r, i)
               \/ SaveRow(r) \/ DeleteRow(r) \/ DeleteFindsNothing(r) \/ RequestLost(r)
               \/ CommitMigration(r) \/ RefuseMigration(r)
        PROVE  MigrationInv'
    <2>1. PICK new : Serve(r, new) /\ (new = NoRequest \/ new.kind \in {"save", "delete"})
      BY <1>1, RequestSteps
    <2>2. \/ UNCHANGED <<shelf, storeRevision, storeSchema>>
          \/ storeRevision' = storeRevision + 1
      BY <1>1, RequestSteps
    <2>3. storeRevision' \in Nat /\ request' = [q \in Requests |-> request'[q]]
      BY <2>1, <2>2 DEF MigrationInv, Serve
    <2>4. Served(r)' # "migrate"
      BY <2>1 DEF Served, Serve, MigrationInv
    <2>5. ASSUME NEW q \in Requests \ {r} PROVE CurrentOrStale(q)'
      <3>1. request'[q] = request[q] /\ Served(q)' = Served(q) /\ CurrentOrStale(q)
        BY <2>1 DEF Served, Serve, MigrationInv
      <3>2. CASE UNCHANGED <<shelf, storeRevision, storeSchema>>
        BY <3>1, <3>2 DEF CurrentOrStale
      <3>3. CASE storeRevision' = storeRevision + 1
        BY <3>1, <3>3 DEF CurrentOrStale, MigrationInv
      <3> QED BY <2>2, <3>2, <3>3
    <2> QED BY <2>3, <2>4, <2>5 DEF MigrationInv, CurrentOrStale
  <1>2. ASSUME NEW r \in Requests, NEW target \in 2..LatestVersion, BeginMigrate(r, target)
        PROVE  MigrationInv'
    <2> DEFINE candidate == Migrated(shelf, storeSchema, target)
               new == [kind |-> "migrate", base |-> storeRevision,
                       target |-> target, collections |-> candidate]
    <2>1. Serve(r, new) /\ UNCHANGED <<shelf, storeRevision, storeSchema>>
      BY <1>2 DEF BeginMigrate
    <2>2. /\ request'[r] = new /\ request' = [q \in Requests |-> request'[q]]
          /\ \A q \in Requests \ {r} : request'[q] = request[q]
      <3> HIDE DEF new
      <3> QED BY <2>1 DEF Serve, MigrationInv
    <2>3. CurrentOrStale(r)'
      BY <2>1, <2>2 DEF CurrentOrStale, MigrationInv
    <2>4. \A q \in Requests \ {r} : CurrentOrStale(q)'
      BY <2>1, <2>2 DEF CurrentOrStale, Served, MigrationInv
    <2> QED BY <2>1, <2>2, <2>3, <2>4 DEF MigrationInv
  <1>3. CASE UNCHANGED catalogVars
    BY <1>3 DEF catalogVars, MigrationInv, CurrentOrStale, Served
  <1>4. CatalogNext => MigrationInv'
    BY <1>1, <1>2, <1>3 DEF CatalogNext, CatalogRests
  <1> QED BY <1>3, <1>4 DEF ServicesNext, servicesVars

\* A migration commits what the functions make of the store as it is then, so it undoes
\* no request completed since its snapshot.
THEOREM MigrationsLoseNothing == ServicesSpec => MigrationLosesNoWrite
  <1> DEFINE Lossless == storeSchema' # storeSchema =>
                           shelf' = Migrated(shelf, storeSchema, storeSchema')
  <1>1. ServicesInit => MigrationInv
    <2>1. ServicesInit => storeRevision = 0 /\ request = [r \in Requests |-> NoRequest]
      BY Zenon DEF ServicesInit, CatalogInit
    <2> QED BY <2>1 DEF MigrationInv, CurrentOrStale, Served
  <1>2. MigrationInv /\ [ServicesNext]_servicesVars => MigrationInv'
    BY MigrationStep
  <1>3. MigrationInv /\ [ServicesNext]_servicesVars => [Lossless]_catalogVars
    <2> SUFFICES ASSUME MigrationInv, CatalogNext, storeSchema' # storeSchema
                 PROVE  shelf' = Migrated(shelf, storeSchema, storeSchema')
      BY DEF ServicesNext, servicesVars, catalogVars
    <2>1. PICK r \in Requests : CommitMigration(r)
      BY DEF CatalogNext, BeginCreate, BeginUpdate, BeginDelete, SaveRow, DeleteRow,
             DeleteFindsNothing, RequestLost, BeginMigrate, RefuseMigration,
             CatalogRests, catalogVars
    <2>2. CurrentOrStale(r)
      BY DEF MigrationInv
    <2> QED BY <2>1, <2>2 DEF CommitMigration, Wrote, CurrentOrStale
  <1> QED BY <1>1, <1>2, <1>3, PTL DEF ServicesSpec, MigrationLosesNoWrite

-----------------------------------------------------------------------------
(***************************************************************************)
(* The catalog: what completed requests did is kept.                       *)
(***************************************************************************)
\* Collections as the services leave them: a row per id in each.
WellFormed(collections) ==
    /\ collections = [c \in DOMAIN collections |-> collections[c]]
    /\ \A c \in DOMAIN collections :
          /\ collections[c] \in Seq(Row)
          /\ \A i, j \in DOMAIN collections[c] :
                collections[c][i].id = collections[c][j].id => i = j
    /\ \A row \in RowsOf(collections) : row.version > row.notes

\* A slug is twice in a collection, and an id in two of them, only after a race.
Apart(collections, raced) ==
    \A c, d \in DOMAIN collections : \A i \in DOMAIN collections[c], j \in DOMAIN collections[d] :
        /\ c = d /\ collections[c][i].slug = collections[d][j].slug =>
              i = j \/ collections[c][i].slug \in raced
        /\ collections[c][i].id = collections[d][j].id =>
              c = d \/ collections[c][i].id \in raced

Nothing == [version |-> 0, notes |-> 0, gone |-> FALSE]

\* A request that is to save a new row: nobody knows of its id.
IsFresh(id, new) ==
    /\ id \notin IdsOf(shelf) /\ acknowledged[id] = Nothing
    /\ new.kind = "save" /\ new.touches = 0 /\ new.notes = 0
    /\ new.row.version = 1 /\ new.row.notes = 0

\* One about a row of the collection, which it has read as it is.
IsHeld(id, new) ==
    /\ \E i \in DOMAIN CollectionRows : CollectionRows[i].id = id
    /\ new.kind = "save" =>
          /\ new.row.version = acknowledged[id].version + new.touches
          /\ new.row.notes = acknowledged[id].notes + new.notes

\* A request about a row that no other request was about since it read.
RowRequest(new) ==
    /\ new.row \in Row /\ new.row.version > new.row.notes /\ new.row.id <= issued
    /\ new.kind = "save" => {new.touches, new.notes} \subseteq Nat
    /\ new.row.id \notin overlapped => IsFresh(new.row.id, new) \/ IsHeld(new.row.id, new)
    /\ new.kind = "save" /\ new.row.slug \notin overlapped =>
          \A i \in DOMAIN CollectionRows :
             CollectionRows[i].slug = new.row.slug => CollectionRows[i].id = new.row.id

RequestSound(r) ==
    /\ Served(r) \in {"save", "delete"} => RowRequest(request[r])
    /\ Served(r) = "migrate" =>
          /\ request[r].collections # Raised /\ request[r].target \in 2..LatestVersion
          /\ request[r].base = storeRevision => storeSchema < request[r].target

CatalogTyped ==
    /\ storeRevision \in 0..MaxStoreRevision /\ storeSchema \in 1..LatestVersion
    /\ issued \in Entities /\ overlapped \subseteq Entities \cup Slugs
    /\ acknowledged \in [Entities -> [version : Nat, notes : Nat, gone : BOOLEAN]]

CatalogInv ==
    /\ MigrationInv
    /\ CatalogTyped
    /\ WellFormed(shelf) /\ Apart(shelf, overlapped)
    /\ \A id \in Entities : id > issued => id \notin IdsOf(shelf) /\ acknowledged[id] = Nothing
    /\ UpdatesLostOnlyInRaces
    /\ \A r \in Requests : RequestSound(r)
    /\ \A r, q \in Requests : r # q => Subject(r) \cap Subject(q) \subseteq overlapped

-----------------------------------------------------------------------------
\* What the requests and the migrations keep of a row they do not change.
SameRecord(a, b) == a.id = b.id /\ a.slug = b.slug /\ a.version = b.version /\ a.notes = b.notes
Stems(collections, old) == \A row \in RowsOf(collections) : \E was \in old : SameRecord(row, was)

\* new holds some rows of rows, each once.
Subrows(new, rows) ==
    /\ new \in Seq(Row)
    /\ \E place \in [DOMAIN new -> DOMAIN rows] :
          /\ \A i, j \in DOMAIN new : place[i] = place[j] => i = j
          /\ \A i \in DOMAIN new : SameRecord(new[i], rows[place[i]])

\* Each collection of new is a part of a collection of old, another one each.
Drawn(new, old) ==
    /\ new = [c \in DOMAIN new |-> new[c]]
    /\ \E source :
          /\ \A c, d \in DOMAIN new : source[c] = source[d] => c = d
          /\ \A c \in DOMAIN new :
                \/ new[c] = <<>>
                \/ source[c] \in DOMAIN old /\ Subrows(new[c], old[source[c]])

\* A row of the store stands at a place of one of its collections.
LEMMA RowsIn ==
    ASSUME NEW X, NEW row
    PROVE  row \in RowsOf(X) <=> \E c \in DOMAIN X : \E i \in DOMAIN X[c] : row = X[c][i]
  BY DEF RowsOf

\* An id in use is that of a row at such a place.
LEMMA IdsIn ==
    ASSUME NEW X, NEW id
    PROVE  id \in IdsOf(X) <=> \E c \in DOMAIN X : \E i \in DOMAIN X[c] : id = X[c][i].id
  BY DEF RowsOf, IdsOf

\* Every row of collections drawn from others stems from a row of its own there.
LEMMA DrawnKeeps ==
    ASSUME NEW X, WellFormed(X), NEW Y, Drawn(Y, X)
    PROVE  /\ WellFormed(Y)
           /\ \A raced : Apart(X, raced) => Apart(Y, raced)
           /\ \A old : Stems(X, old) => Stems(Y, old)
  <1>1. PICK source : /\ \A c, d \in DOMAIN Y : source[c] = source[d] => c = d
                      /\ \A c \in DOMAIN Y : \/ Y[c] = <<>>
                                             \/ source[c] \in DOMAIN X /\ Subrows(Y[c], X[source[c]])
    BY DEF Drawn
  <1> DEFINE place(c) == CHOOSE place \in [DOMAIN Y[c] -> DOMAIN X[source[c]]] :
                 /\ \A i, j \in DOMAIN Y[c] : place[i] = place[j] => i = j
                 /\ \A i \in DOMAIN Y[c] : SameRecord(Y[c][i], X[source[c]][place[i]])
  <1>2. ASSUME NEW c \in DOMAIN Y, Y[c] # <<>>
        PROVE  /\ source[c] \in DOMAIN X /\ Y[c] \in Seq(Row)
               /\ \A i, j \in DOMAIN Y[c] : place(c)[i] = place(c)[j] => i = j
               /\ \A i \in DOMAIN Y[c] : /\ place(c)[i] \in DOMAIN X[source[c]]
                                         /\ SameRecord(Y[c][i], X[source[c]][place(c)[i]])
    <2>1. source[c] \in DOMAIN X /\ Subrows(Y[c], X[source[c]])
      BY <1>1, <1>2
    <2>2. \E p \in [DOMAIN Y[c] -> DOMAIN X[source[c]]] :
                 /\ \A i, j \in DOMAIN Y[c] : p[i] = p[j] => i = j
                 /\ \A i \in DOMAIN Y[c] : SameRecord(Y[c][i], X[source[c]][p[i]])
      BY <2>1 DEF Subrows
    <2>3. /\ place(c) \in [DOMAIN Y[c] -> DOMAIN X[source[c]]]
          /\ \A i, j \in DOMAIN Y[c] : place(c)[i] = place(c)[j] => i = j
          /\ \A i \in DOMAIN Y[c] : SameRecord(Y[c][i], X[source[c]][place(c)[i]])
      BY <2>2
    <2> HIDE DEF place
    <2> QED BY <2>1, <2>3 DEF Subrows
  <1> HIDE DEF place
  <1>3. \A c \in DOMAIN Y : Y[c] = <<>> => DOMAIN Y[c] = {} /\ Y[c] \in Seq(Row)
    OBVIOUS
  <1>4. ASSUME NEW row \in RowsOf(Y)
        PROVE  \E was \in RowsOf(X) : SameRecord(row, was)
    <2>0. PICK c \in DOMAIN Y : \E i \in DOMAIN Y[c] : row = Y[c][i]
      BY <1>4, RowsIn
    <2>1. PICK i \in DOMAIN Y[c] : row = Y[c][i]
      BY <2>0
    <2>2. Y[c] # <<>>
      BY <1>3
    <2> DEFINE d == source[c]
               j == place(c)[i]
    <2>3. d \in DOMAIN X /\ j \in DOMAIN X[d] /\ SameRecord(row, X[d][j])
      BY <1>2, <2>1, <2>2
    <2> HIDE DEF d, j
    <2> QED BY <2>3, RowsIn
  <1>5. WellFormed(Y)
    <2>1. Y = [c \in DOMAIN Y |-> Y[c]]
      BY DEF Drawn
    <2>2. ASSUME NEW c \in DOMAIN Y
          PROVE  /\ Y[c] \in Seq(Row)
                 /\ \A i, j \in DOMAIN Y[c] : Y[c][i].id = Y[c][j].id => i = j
      <3>1. CASE Y[c] = <<>>
        BY <1>3, <3>1
      <3>2. CASE Y[c] # <<>>
        BY <1>2, <3>2, SMTT(30) DEF WellFormed, SameRecord
      <3> QED BY <3>1, <3>2
    <2>3. ASSUME NEW row \in RowsOf(Y) PROVE row.version > row.notes
      BY <1>4 DEF SameRecord, WellFormed
    <2> QED BY <2>1, <2>2, <2>3 DEF WellFormed
  <1>6. ASSUME NEW raced, Apart(X, raced)
        PROVE  Apart(Y, raced)
    <2> SUFFICES ASSUME NEW c \in DOMAIN Y, NEW d \in DOMAIN Y,
                        NEW i \in DOMAIN Y[c], NEW j \in DOMAIN Y[d]
                 PROVE  /\ c = d /\ Y[c][i].slug = Y[d][j].slug => i = j \/ Y[c][i].slug \in raced
                        /\ Y[c][i].id = Y[d][j].id => c = d \/ Y[c][i].id \in raced
      BY DEF Apart
    <2>1. Y[c] # <<>> /\ Y[d] # <<>>
      BY <1>3
    <2> DEFINE a == X[source[c]][place(c)[i]]
               b == X[source[d]][place(d)[j]]
    <2>2. /\ SameRecord(Y[c][i], a) /\ SameRecord(Y[d][j], b)
          /\ source[c] = source[d] => c = d
          /\ c = d /\ place(c)[i] = place(d)[j] => i = j
      BY <1>1, <1>2, <2>1
    <2>3. /\ source[c] = source[d] /\ a.slug = b.slug =>
                place(c)[i] = place(d)[j] \/ a.slug \in raced
          /\ a.id = b.id => source[c] = source[d] \/ a.id \in raced
      <3>1. /\ source[c] \in DOMAIN X /\ place(c)[i] \in DOMAIN X[source[c]]
            /\ source[d] \in DOMAIN X /\ place(d)[j] \in DOMAIN X[source[d]]
        BY <1>2, <2>1
      <3> QED BY <1>6, <3>1 DEF Apart
    <2> QED BY <2>2, <2>3 DEF SameRecord
  <1>7. ASSUME NEW old, Stems(X, old)
        PROVE  Stems(Y, old)
    BY <1>4, <1>7 DEF Stems, SameRecord
  <1> QED BY <1>5, <1>6, <1>7

-----------------------------------------------------------------------------
\* The rows a transform kept, after each row.
KeptAfter(f, rows, n) ==
    IF n = 0 THEN <<>>
    ELSE IF rows[n].status = "archived" THEN f[n - 1] ELSE Append(f[n - 1], rows[n])

\* The loop of a transform is defined: each row of it follows from the one before.
LEMMA TransformedIs ==
    ASSUME NEW rows, Len(rows) \in Nat
    PROVE  \E f : /\ f = [n \in 0..Len(rows) |-> KeptAfter(f, rows, n)]
                  /\ Transformed(rows) = f[Len(rows)]
  <1> DEFINE Computes(f, m) == f = [n \in 0..m |-> KeptAfter(f, rows, n)]
             Good == {m \in 0..Len(rows) : \E f : Computes(f, m)}
  <1>1. 0 \in Good
    <2>1. Computes([n \in 0..0 |-> <<>>], 0)
      BY DEF KeptAfter
    <2> QED BY <2>1
  <1>2. ASSUME NEW m \in 1..Len(rows), m - 1 \in Good
        PROVE  m \in Good
    <2>1. PICK f : Computes(f, m - 1)
      BY <1>2
    <2> DEFINE g == [n \in 0..m |-> IF n = m THEN KeptAfter(f, rows, m) ELSE f[n]]
    <2>2. ASSUME NEW n \in 0..m PROVE g[n] = KeptAfter(g, rows, n)
      <3>1. n = m => g[n] = KeptAfter(f, rows, n) /\ g[n - 1] = f[n - 1]
        BY <1>2
      <3>2. n # m => g[n] = KeptAfter(f, rows, n) /\ (n # 0 => g[n - 1] = f[n - 1])
        BY <1>2, <2>1
      <3> HIDE DEF g
      <3> QED BY <3>1, <3>2 DEF KeptAfter
    <2>3. g = [n \in 0..m |-> g[n]]
      OBVIOUS
    <2> HIDE DEF g
    <2>4. Computes(g, m)
      BY <2>2, <2>3
    <2> QED BY <2>4
  <1>3. \E f : Computes(f, Len(rows))
    <2> HIDE DEF Good
    <2>1. \A m \in 0..Len(rows) : m \in Good
      BY <1>1, <1>2, Climbing
    <2> QED BY <2>1 DEF Good
  <1>4. Transformed(rows) = (CHOOSE f : Computes(f, Len(rows)))[Len(rows)]
    BY DEF Transformed, KeptAfter
  <1> HIDE DEF Computes
  <1>5. Computes(CHOOSE f : Computes(f, Len(rows)), Len(rows))
    BY <1>3
  <1> QED BY <1>4, <1>5 DEF Computes

\* What the functions that were composed made of the collections, after each of them.
ComposedAfter(f, functions, collections, n) ==
    IF n = 0 THEN collections ELSE MigrationFunction(f[n - 1], functions[n])

\* So is the loop over the functions that were composed,
LEMMA ComposedIs ==
    ASSUME NEW functions, Len(functions) \in Nat, NEW collections
    PROVE  \E f : /\ f = [n \in 0..Len(functions) |-> ComposedAfter(f, functions, collections, n)]
                  /\ Composed(functions, collections) = f[Len(functions)]
  <1> DEFINE Computes(f, m) == f = [n \in 0..m |-> ComposedAfter(f, functions, collections, n)]
             Good == {m \in 0..Len(functions) : \E f : Computes(f, m)}
  <1>1. 0 \in Good
    <2>1. Computes([n \in 0..0 |-> collections], 0)
      BY DEF ComposedAfter
    <2> QED BY <2>1
  <1>2. ASSUME NEW m \in 1..Len(functions), m - 1 \in Good
        PROVE  m \in Good
    <2>1. PICK f : Computes(f, m - 1)
      BY <1>2
    <2> DEFINE last == ComposedAfter(f, functions, collections, m)
               g == [n \in 0..m |-> IF n = m THEN last ELSE f[n]]
    <2>2. ASSUME NEW n \in 0..m PROVE g[n] = ComposedAfter(g, functions, collections, n)
      <3>1. n = m => g[n] = last /\ g[n - 1] = f[n - 1]
        BY <1>2
      <3>2. n # m => /\ g[n] = ComposedAfter(f, functions, collections, n)
                     /\ n # 0 => g[n - 1] = f[n - 1]
        BY <1>2, <2>1
      <3> HIDE DEF g
      <3> QED BY <3>1, <3>2 DEF ComposedAfter
    <2>3. g = [n \in 0..m |-> g[n]]
      OBVIOUS
    <2> HIDE DEF g
    <2>4. Computes(g, m)
      BY <2>2, <2>3
    <2> QED BY <2>4
  <1>3. \E f : Computes(f, Len(functions))
    <2> HIDE DEF Good
    <2>1. \A m \in 0..Len(functions) : m \in Good
      BY <1>1, <1>2, Climbing
    <2> QED BY <2>1 DEF Good
  <1>4. Composed(functions, collections)
          = (CHOOSE f : Computes(f, Len(functions)))[Len(functions)]
    BY DEF Composed, ComposedAfter
  <1> HIDE DEF Computes
  <1>5. Computes(CHOOSE f : Computes(f, Len(functions)), Len(functions))
    BY <1>3
  <1> QED BY <1>4, <1>5 DEF Computes

\* What the migrations of a plan made of the collections, after each of them.
MigratedAfter(f, collections, from, n) ==
    IF n = 0 THEN collections ELSE Composed(Registry[from + n - 1], f[n - 1])

\* and the loop over the migrations of a plan.
LEMMA MigratedIs ==
    ASSUME NEW collections, NEW from \in Nat, NEW to \in Nat, from <= to
    PROVE  \E f : /\ f = [n \in 0..(to - from) |-> MigratedAfter(f, collections, from, n)]
                  /\ Migrated(collections, from, to) = f[to - from]
  <1> DEFINE Computes(f, m) == f = [n \in 0..m |-> MigratedAfter(f, collections, from, n)]
             Good == {m \in 0..(to - from) : \E f : Computes(f, m)}
  <1>1. 0 \in Good
    <2>1. Computes([n \in 0..0 |-> collections], 0)
      BY DEF MigratedAfter
    <2> QED BY <2>1
  <1>2. ASSUME NEW m \in 1..(to - from), m - 1 \in Good
        PROVE  m \in Good
    <2>1. PICK f : Computes(f, m - 1)
      BY <1>2
    <2> DEFINE last == MigratedAfter(f, collections, from, m)
               g == [n \in 0..m |-> IF n = m THEN last ELSE f[n]]
    <2>2. ASSUME NEW n \in 0..m PROVE g[n] = MigratedAfter(g, collections, from, n)
      <3>1. n = m => g[n] = last /\ g[n - 1] = f[n - 1]
        BY <1>2
      <3>2. n # m => /\ g[n] = MigratedAfter(f, collections, from, n)
                     /\ n # 0 => g[n - 1] = f[n - 1]
        BY <1>2, <2>1, SMTT(30)
      <3> HIDE DEF g
      <3> QED BY <3>1, <3>2 DEF MigratedAfter
    <2>3. g = [n \in 0..m |-> g[n]]
      OBVIOUS
    <2> HIDE DEF g
    <2>4. Computes(g, m)
      BY <2>2, <2>3
    <2> QED BY <2>4
  <1>3. \E f : Computes(f, to - from)
    <2> HIDE DEF Good
    <2>1. \A m \in 0..(to - from) : m \in Good
      BY <1>1, <1>2, Climbing
    <2> QED BY <2>1 DEF Good
  <1>4. Migrated(collections, from, to) = (CHOOSE f : Computes(f, to - from))[to - from]
    BY DEF Migrated, MigratedAfter
  <1> HIDE DEF Computes
  <1>5. Computes(CHOOSE f : Computes(f, to - from), to - from)
    BY <1>3
  <1> QED BY <1>4, <1>5 DEF Computes

-----------------------------------------------------------------------------
\* A transform keeps some of the rows, in their order.
LEMMA TransformedDrawn ==
    ASSUME NEW rows \in Seq(Row)
    PROVE  Subrows(Transformed(rows), rows)
  <1>0. Len(rows) \in Nat
    OBVIOUS
  <1>1. PICK f : /\ f = [n \in 0..Len(rows) |-> KeptAfter(f, rows, n)]
                 /\ Transformed(rows) = f[Len(rows)]
    BY <1>0, TransformedIs
  <1> DEFINE Places(new, n, place) ==
                 /\ place \in [DOMAIN new -> 1..n]
                 /\ \A i, j \in DOMAIN new : place[i] = place[j] => i = j
                 /\ \A i \in DOMAIN new : new[i] = rows[place[i]]
             Chosen(n) == f[n] \in Seq(Row) /\ \E place : Places(f[n], n, place)
             Good == {n \in 0..Len(rows) : Chosen(n)}
  <1>2. \A n \in 0..Len(rows) : f[n] = KeptAfter(f, rows, n)
    BY <1>1
  <1>3. Chosen(0)
    <2>1. f[0] = <<>>
      BY <1>2 DEF KeptAfter
    <2>2. Places(<<>>, 0, <<>>)
      OBVIOUS
    <2>3. <<>> \in Seq(Row)
      OBVIOUS
    <2> HIDE DEF Places
    <2> QED BY <2>1, <2>2, <2>3
  <1>4. ASSUME NEW n \in 1..Len(rows), Chosen(n - 1)
        PROVE  Chosen(n)
    <2>1. PICK place : Places(f[n - 1], n - 1, place)
      BY <1>4
    <2>2. CASE rows[n].status = "archived"
      <3>1. f[n] = f[n - 1]
        BY <1>2, <2>2 DEF KeptAfter
      <3>2. Places(f[n], n, place)
        BY <2>1, <3>1
      <3> QED BY <1>4, <3>1, <3>2
    <2>3. CASE rows[n].status # "archived"
      <3> DEFINE before == f[n - 1]
                 longer == [i \in 1..(Len(before) + 1) |->
                              IF i = Len(before) + 1 THEN n ELSE place[i]]
      <3>1. f[n] = Append(before, rows[n]) /\ before \in Seq(Row) /\ rows[n] \in Row
        <4>1. f[n] = Append(before, rows[n])
          <5>1. n \in 0..Len(rows) /\ n # 0
            BY <1>0
          <5>2. f[n] = KeptAfter(f, rows, n)
            BY <1>2, <5>1
          <5> HIDE DEF longer, Chosen, Good
          <5> QED BY <2>3, <5>1, <5>2 DEF KeptAfter
        <4>2. before \in Seq(Row)
          BY <1>4
        <4>3. rows[n] \in Row
          OBVIOUS
        <4> HIDE DEF before
        <4> QED BY <4>1, <4>2, <4>3
      <3>2. /\ f[n] \in Seq(Row) /\ DOMAIN f[n] = 1..(Len(before) + 1)
            /\ f[n][Len(before) + 1] = rows[n]
            /\ \A i \in 1..Len(before) : f[n][i] = before[i]
        <4> HIDE DEF before
        <4> QED BY <3>1
      <3>3. /\ place \in [1..Len(before) -> 1..(n - 1)]
            /\ \A i, j \in 1..Len(before) : place[i] = place[j] => i = j
            /\ \A i \in 1..Len(before) : before[i] = rows[place[i]]
        <4>1. DOMAIN before = 1..Len(before)
          BY <3>1
        <4> QED BY <2>1, <4>1
      <3>4. Len(before) \in Nat
        BY <3>1
      <3> HIDE DEF before
      <3>5. Places(f[n], n, longer)
        <4>1. longer \in [1..(Len(before) + 1) -> 1..n]
          BY <3>3, <3>4
        <4>2. \A i \in 1..(Len(before) + 1) : f[n][i] = rows[longer[i]]
          BY <3>2, <3>3, <3>4
        <4>3. \A i, j \in 1..(Len(before) + 1) : longer[i] = longer[j] => i = j
          <5>1. \A i \in 1..Len(before) : longer[i] = place[i] /\ longer[i] # n
            BY <3>3, <3>4
          <5>2. longer[Len(before) + 1] = n
            BY <3>4
          <5>3. \A i \in 1..(Len(before) + 1) : i \in 1..Len(before) \/ i = Len(before) + 1
            BY <3>4
          <5> HIDE DEF longer
          <5> SUFFICES ASSUME NEW i \in 1..(Len(before) + 1), NEW j \in 1..(Len(before) + 1),
                              longer[i] = longer[j]
                       PROVE  i = j
            OBVIOUS
          <5>4. CASE i \in 1..Len(before) /\ j \in 1..Len(before)
            BY <3>3, <5>1, <5>4
          <5>5. CASE i = Len(before) + 1 \/ j = Len(before) + 1
            BY <5>1, <5>2, <5>3, <5>5
          <5> QED BY <5>3, <5>4, <5>5
        <4> QED BY <3>2, <4>1, <4>2, <4>3
      <3> QED BY <3>2, <3>5
    <2> QED BY <2>2, <2>3
  <1>5. Chosen(Len(rows))
    <2>1. 0 \in Good /\ \A n \in 1..Len(rows) : n - 1 \in Good => n \in Good
      <3> HIDE DEF Chosen
      <3> QED BY <1>3, <1>4
    <2>2. \A n \in 0..Len(rows) : n \in Good
      <3> HIDE DEF Good
      <3> QED BY <1>0, <2>1, Climbing
    <2> QED BY <2>2
  <1>6. DOMAIN rows = 1..Len(rows)
    OBVIOUS
  <1> DEFINE new == Transformed(rows)
  <1>7. PICK place : Places(f[Len(rows)], Len(rows), place)
    BY <1>5
  <1>8. new = f[Len(rows)] /\ new \in Seq(Row)
    BY <1>1, <1>5
  <1> HIDE DEF new
  <1>9. /\ place \in [DOMAIN new -> DOMAIN rows]
        /\ \A i, j \in DOMAIN new : place[i] = place[j] => i = j
        /\ \A i \in DOMAIN new : SameRecord(new[i], rows[place[i]])
    BY <1>6, <1>7, <1>8 DEF SameRecord
  <1>10. Subrows(new, rows)
    BY <1>8, <1>9 DEF Subrows
  <1> QED BY <1>10 DEF new

\* The rows of a collection as a whole.
LEMMA AllRows ==
    ASSUME NEW rows \in Seq(Row)
    PROVE  Subrows(rows, rows)
  <1> DEFINE place == [i \in DOMAIN rows |-> i]
  <1>1. place \in [DOMAIN rows -> DOMAIN rows] /\ \A i \in DOMAIN rows : place[i] = i
    OBVIOUS
  <1> HIDE DEF place
  <1> QED BY <1>1 DEF Subrows, SameRecord

\* What each kind of migration function makes of collections is drawn from them.
LEMMA FunctionDrawn ==
    ASSUME NEW X, WellFormed(X), X # Raised, NEW step \in Function,
           MigrationFunction(X, step) # Raised
    PROVE  Drawn(MigrationFunction(X, step), X)
  <1> DEFINE Y == MigrationFunction(X, step)
             s == step.source
             d == step.destination
  <1>1. \A c \in DOMAIN X : Subrows(X[c], X[c])
    BY AllRows DEF WellFormed
  <1>2. X = [c \in DOMAIN X |-> X[c]]
    BY DEF WellFormed
  <1>3. CASE step.kind = "rename"
    <2>1. Y = RenameCollection(X, s, d)
      BY <1>3 DEF MigrationFunction
    <2>2. CASE s \notin DOMAIN X
      <3>1. Y = X
        BY <2>1, <2>2 DEF RenameCollection
      <3> DEFINE source == [c \in DOMAIN X |-> c]
      <3>2. \A c \in DOMAIN X : source[c] = c
        OBVIOUS
      <3> HIDE DEF source, Y
      <3> QED BY <1>1, <1>2, <3>1, <3>2 DEF Drawn, Y
    <2>3. CASE s \in DOMAIN X
      <3> DEFINE names == (DOMAIN X \ {s}) \cup {d}
                 source == [c \in names |-> IF c = d THEN s ELSE c]
      <3>1. d \notin DOMAIN X /\ Y = [c \in names |-> IF c = d THEN X[s] ELSE X[c]]
        BY <2>1, <2>3 DEF RenameCollection
      <3>2. /\ DOMAIN Y = names /\ Y = [c \in names |-> Y[c]]
            /\ \A c \in names : source[c] \in DOMAIN X /\ Y[c] = X[source[c]]
            /\ \A c, e \in names : source[c] = source[e] => c = e
        BY <2>3, <3>1
      <3> HIDE DEF source, Y, names
      <3> QED BY <1>1, <3>2 DEF Drawn, Y
    <2> QED BY <2>2, <2>3
  <1>4. CASE step.kind = "add_field"
    <2> DEFINE Field(c) == [i \in DOMAIN X[c] |->
                              [X[c][i] EXCEPT !.season = IF @ = Missing THEN 0 ELSE @]]
               source == [c \in DOMAIN X |-> c]
    <2>1. Y = [c \in DOMAIN X |-> IF c # s THEN X[c] ELSE Field(c)]
      BY <1>4 DEF MigrationFunction, AddField
    <2>2. ASSUME NEW c \in DOMAIN X PROVE Subrows(Field(c), X[c])
      <3>1. X[c] \in Seq(Row)
        BY DEF WellFormed
      <3>2. ASSUME NEW row \in Row
            PROVE  LET new == [row EXCEPT !.season = IF @ = Missing THEN 0 ELSE @]
                   IN  new \in Row /\ SameRecord(new, row)
        BY DEF Row, SameRecord
      <3>3. \A i \in DOMAIN X[c] : Field(c)[i] \in Row /\ SameRecord(Field(c)[i], X[c][i])
        BY <3>1, <3>2
      <3> DEFINE place == [i \in DOMAIN X[c] |-> i]
      <3>4. Field(c) \in Seq(Row) /\ DOMAIN Field(c) = DOMAIN X[c]
        <4>1. DOMAIN X[c] = 1..Len(X[c]) /\ Len(X[c]) \in Nat
          BY <3>1
        <4>2. Field(c) \in [1..Len(X[c]) -> Row]
          <5> DEFINE new == Field(c)
          <5>1. new = [i \in 1..Len(X[c]) |-> new[i]]
            BY <4>1
          <5> HIDE DEF new
          <5> QED BY <3>3, <4>1, <5>1 DEF new
        <4> QED BY <4>1, <4>2
      <3>5. place \in [DOMAIN X[c] -> DOMAIN X[c]] /\ \A i \in DOMAIN X[c] : place[i] = i
        OBVIOUS
      <3> HIDE DEF place, Field
      <3> QED BY <3>3, <3>4, <3>5 DEF Subrows
    <2>3. \A c \in DOMAIN X : source[c] = c
      OBVIOUS
    <2> HIDE DEF Field, source
    <2>4. DOMAIN Y = DOMAIN X /\ Y = [c \in DOMAIN X |-> Y[c]]
      BY <2>1
    <2>5. \A c \in DOMAIN Y : Subrows(Y[c], X[c])
      BY <1>1, <2>1, <2>2
    <2> HIDE DEF Y
    <2> QED BY <2>3, <2>4, <2>5 DEF Drawn, Y
  <1>5. CASE step.kind = "transform"
    <2> DEFINE names == DOMAIN X \cup {s}
               source == [c \in names |-> c]
    <2>1. Y = [c \in names |-> IF c # s THEN X[c]
                               ELSE IF s \notin DOMAIN X THEN <<>> ELSE Transformed(X[c])]
      BY <1>5 DEF MigrationFunction, TransformCollection
    <2>2. \A c \in names : source[c] = c
      OBVIOUS
    <2>3. \A c \in DOMAIN X : Subrows(Transformed(X[c]), X[c])
      BY TransformedDrawn DEF WellFormed
    <2>4. \A c \in names : Y[c] = <<>> \/ (c \in DOMAIN X /\ Subrows(Y[c], X[c]))
      BY <1>1, <2>1, <2>3
    <2>5. DOMAIN Y = names /\ Y = [c \in names |-> Y[c]]
      BY <2>1
    <2> HIDE DEF Y, source, names
    <2> QED BY <2>2, <2>4, <2>5 DEF Drawn, Y
  <1> QED BY <1>3, <1>4, <1>5 DEF Function

\* What is true of collections that were migrated, or a migration raised.
MigratedWell(X, old, raced) ==
    X # Raised => WellFormed(X) /\ Apart(X, raced) /\ Stems(X, old)

\* Functions that were composed keep what each of them keeps.
LEMMA ComposedKeeps ==
    ASSUME NEW X, NEW old, NEW raced, MigratedWell(X, old, raced),
           NEW functions \in Seq(Function)
    PROVE  MigratedWell(Composed(functions, X), old, raced)
  <1>0. Len(functions) \in Nat
    OBVIOUS
  <1>1. PICK f : /\ f = [n \in 0..Len(functions) |-> ComposedAfter(f, functions, X, n)]
                 /\ Composed(functions, X) = f[Len(functions)]
    BY <1>0, ComposedIs
  <1> DEFINE Good == {n \in 0..Len(functions) : MigratedWell(f[n], old, raced)}
  <1>2. \A n \in 0..Len(functions) : f[n] = ComposedAfter(f, functions, X, n)
    BY <1>1
  <1>3. 0 \in Good
    BY <1>2 DEF ComposedAfter
  <1>4. ASSUME NEW n \in 1..Len(functions), MigratedWell(f[n - 1], old, raced)
        PROVE  MigratedWell(f[n], old, raced)
    <2>1. f[n] = MigrationFunction(f[n - 1], functions[n]) /\ functions[n] \in Function
      BY <1>2 DEF ComposedAfter
    <2>2. CASE f[n - 1] = Raised
      BY <2>1, <2>2 DEF MigrationFunction, MigratedWell
    <2>3. CASE f[n - 1] # Raised /\ f[n] # Raised
      BY <1>4, <2>1, <2>3, FunctionDrawn, DrawnKeeps DEF MigratedWell
    <2> QED BY <2>2, <2>3 DEF MigratedWell
  <1>5. \A n \in 1..Len(functions) : n - 1 \in Good => n \in Good
    BY <1>4
  <1> HIDE DEF Good
  <1>6. \A n \in 0..Len(functions) : n \in Good
    BY <1>0, <1>3, <1>5, Climbing
  <1> QED BY <1>1, <1>6 DEF Good

\* So do the migrations of a plan, one version after the other.
LEMMA MigratedKeeps ==
    ASSUME NEW X, NEW old, NEW raced, MigratedWell(X, old, raced),
           NEW from \in 1..LatestVersion, NEW to \in 1..LatestVersion, from <= to
    PROVE  MigratedWell(Migrated(X, from, to), old, raced)
  <1>0. /\ Registry \in Seq(Seq(Function)) /\ LatestVersion = Len(Registry) + 1
        /\ Len(Registry) \in Nat /\ to - from \in Nat /\ from \in Nat /\ to \in Nat
    <2>1. Registry \in Seq(Seq(Function)) /\ LatestVersion = Len(Registry) + 1
      BY CatalogAssumption DEF LatestVersion
    <2> QED BY <2>1
  <1>1. PICK f : /\ f = [n \in 0..(to - from) |-> MigratedAfter(f, X, from, n)]
                 /\ Migrated(X, from, to) = f[to - from]
    BY <1>0, MigratedIs
  <1> DEFINE Good == {n \in 0..(to - from) : MigratedWell(f[n], old, raced)}
  <1>2. \A n \in 0..(to - from) : f[n] = MigratedAfter(f, X, from, n)
    BY <1>1
  <1>3. 0 \in Good
    BY <1>0, <1>2 DEF MigratedAfter
  <1>4. ASSUME NEW n \in 1..(to - from), MigratedWell(f[n - 1], old, raced)
        PROVE  MigratedWell(f[n], old, raced)
    <2>1. f[n] = Composed(Registry[from + n - 1], f[n - 1])
      BY <1>0, <1>2 DEF MigratedAfter
    <2>2. Registry[from + n - 1] \in Seq(Function)
      BY <1>0
    <2> QED BY <1>4, <2>1, <2>2, ComposedKeeps
  <1>5. \A n \in 1..(to - from) : n - 1 \in Good => n \in Good
    BY <1>4
  <1> HIDE DEF Good
  <1>6. \A n \in 0..(to - from) : n \in Good
    BY <1>0, <1>3, <1>5, Climbing
  <1> QED BY <1>0, <1>1, <1>6 DEF Good

-----------------------------------------------------------------------------
IdsDiffer(rows) == \A i, j \in DOMAIN rows : rows[i].id = rows[j].id => i = j

\* new is rows but for the row with the id.
OnlyOf(id, new, rows) ==
    /\ new \in Seq(Row) /\ IdsDiffer(new)
    /\ \A i \in DOMAIN new : new[i].id # id => \E j \in DOMAIN rows : new[i] = rows[j]
    /\ \A j \in DOMAIN rows : rows[j].id # id => \E i \in DOMAIN new : new[i] = rows[j]

\* The row that is replaced or removed is the one with the id.
LEMMA FirstIs ==
    ASSUME NEW rows \in Seq(Row), IdsDiffer(rows), NEW id, IndexOf(rows, id) # {}
    PROVE  FirstOf(rows, id) \in DOMAIN rows /\ rows[FirstOf(rows, id)].id = id
  <1>1. PICK i \in IndexOf(rows, id) : TRUE
    OBVIOUS
  <1>2. \A j \in IndexOf(rows, id) : i <= j
    BY <1>1 DEF IndexOf, IdsDiffer
  <1>3. FirstOf(rows, id) \in IndexOf(rows, id)
    BY <1>1, <1>2 DEF FirstOf
  <1> QED BY <1>3 DEF IndexOf

\* A row is saved in the place of the one with its id, or is the last.
LEMMA SavedInPlace ==
    ASSUME NEW rows \in Seq(Row), IdsDiffer(rows), NEW row \in Row
    PROVE  /\ OnlyOf(row.id, RowSaved(rows, row), rows)
           /\ \E k \in DOMAIN RowSaved(rows, row) : RowSaved(rows, row)[k] = row
  <1>1. CASE IndexOf(rows, row.id) = {}
    <2>1. RowSaved(rows, row) = Append(rows, row)
      BY <1>1 DEF RowSaved
    <2>2. PICK new, n : new = Append(rows, row) /\ n = Len(rows)
      OBVIOUS
    <2>3. /\ new \in Seq(Row) /\ n \in Nat /\ DOMAIN rows = 1..n /\ DOMAIN new = 1..(n + 1)
          /\ new[n + 1] = row /\ \A i \in 1..n : new[i] = rows[i]
      BY <2>2
    <2>4. \A i \in 1..n : rows[i].id # row.id
      BY <1>1, <2>3 DEF IndexOf
    <2>5. IdsDiffer(new)
      BY <2>3, <2>4 DEF IdsDiffer
    <2>6. OnlyOf(row.id, new, rows)
      BY <2>3, <2>4, <2>5 DEF OnlyOf
    <2> QED BY <2>1, <2>2, <2>3, <2>6
  <1>2. CASE IndexOf(rows, row.id) # {}
    <2>1. PICK k : k = FirstOf(rows, row.id)
      OBVIOUS
    <2>2. k \in DOMAIN rows /\ rows[k].id = row.id
      BY <1>2, <2>1, FirstIs
    <2>3. PICK new : new = [rows EXCEPT ![k] = row]
      OBVIOUS
    <2>4. RowSaved(rows, row) = new
      BY <1>2, <2>1, <2>3 DEF RowSaved
    <2>5. /\ new \in Seq(Row) /\ DOMAIN new = DOMAIN rows /\ new[k] = row
          /\ \A i \in DOMAIN rows \ {k} : new[i] = rows[i] /\ rows[i].id # row.id
      BY <2>2, <2>3 DEF IdsDiffer
    <2>6. IdsDiffer(new)
      BY <2>2, <2>5 DEF IdsDiffer
    <2>7. OnlyOf(row.id, new, rows)
      BY <2>2, <2>5, <2>6 DEF OnlyOf
    <2> QED BY <2>2, <2>4, <2>5, <2>7
  <1> QED BY <1>1, <1>2

\* A row is taken out from between those before and those after it.
LEMMA RemovedAlone ==
    ASSUME NEW rows \in Seq(Row), IdsDiffer(rows), NEW k \in DOMAIN rows
    PROVE  /\ OnlyOf(rows[k].id, RemoveAt(rows, k), rows)
           /\ \A i \in DOMAIN RemoveAt(rows, k) : RemoveAt(rows, k)[i].id # rows[k].id
  <1>1. PICK new, n, before, after :
          /\ new = RemoveAt(rows, k) /\ n = Len(rows)
          /\ before = SubSeq(rows, 1, k - 1) /\ after = SubSeq(rows, k + 1, n)
    OBVIOUS
  <1>2. /\ n \in Nat /\ k \in 1..n /\ DOMAIN rows = 1..n
        /\ before \in Seq(Row) /\ Len(before) = k - 1
        /\ \A i \in 1..(k - 1) : before[i] = rows[i]
        /\ after \in Seq(Row) /\ Len(after) = n - k
        /\ \A i \in 1..(n - k) : after[i] = rows[k + i]
    BY <1>1, SMTT(30)
  <1>3. new = before \o after
    BY <1>1 DEF RemoveAt
  <1>4. /\ new \in Seq(Row) /\ DOMAIN new = 1..(n - 1)
        /\ \A i \in 1..(n - 1) : new[i] = IF i < k THEN rows[i] ELSE rows[i + 1]
    <2>1. /\ new \in Seq(Row) /\ Len(new) = n - 1
          /\ \A i \in 1..(n - 1) : new[i] = IF i <= k - 1 THEN before[i] ELSE after[i - (k - 1)]
      BY <1>2, <1>3
    <2>2. ASSUME NEW i \in 1..(n - 1)
          PROVE  new[i] = IF i < k THEN rows[i] ELSE rows[i + 1]
      <3>1. CASE i < k
        BY <1>2, <2>1, <3>1
      <3>2. CASE ~(i < k)
        <4>1. PICK m : m = i - (k - 1)
          OBVIOUS
        <4>2. m \in 1..(n - k) /\ k + m = i + 1 /\ ~(i <= k - 1)
          BY <1>2, <3>2, <4>1
        <4>3. new[i] = after[m]
          BY <2>1, <4>1, <4>2
        <4>4. after[m] = rows[k + m]
          BY <1>2, <4>2
        <4> QED BY <3>2, <4>2, <4>3, <4>4
      <3> QED BY <3>1, <3>2
    <2> QED BY <1>2, <2>1, <2>2
  <1>5. ASSUME NEW i \in 1..(n - 1)
        PROVE  \E j \in 1..n : j # k /\ j = (IF i < k THEN i ELSE i + 1) /\ new[i] = rows[j]
    BY <1>2, <1>4
  <1>6. ASSUME NEW j \in 1..n, j # k
        PROVE  \E i \in 1..(n - 1) : new[i] = rows[j]
    <2>1. CASE j < k
      BY <1>2, <1>4, <2>1, SMTT(30)
    <2>2. CASE j > k
      <3>1. j - 1 \in 1..(n - 1) /\ ~(j - 1 < k) /\ (j - 1) + 1 = j
        BY <1>2, <2>2
      <3> QED BY <1>4, <3>1
    <2>3. j < k \/ j > k
      BY <1>2, <1>6
    <2> QED BY <2>1, <2>2, <2>3
  <1>7. IdsDiffer(new)
    <2> SUFFICES ASSUME NEW a \in 1..(n - 1), NEW b \in 1..(n - 1), new[a].id = new[b].id
                 PROVE  a = b
      BY <1>4 DEF IdsDiffer
    <2>1. PICK c \in 1..n : c = (IF a < k THEN a ELSE a + 1) /\ new[a] = rows[c]
      BY <1>5
    <2>2. PICK d \in 1..n : d = (IF b < k THEN b ELSE b + 1) /\ new[b] = rows[d]
      BY <1>5
    <2>3. c = d
      BY <1>2, <2>1, <2>2, ZenonT(40) DEF IdsDiffer
    <2> QED BY <1>2, <2>1, <2>2, <2>3
  <1>8. \A i \in 1..(n - 1) : new[i].id # rows[k].id
    BY <1>2, <1>5 DEF IdsDiffer
  <1>9. OnlyOf(rows[k].id, new, rows)
    <2>1. \A i \in DOMAIN new : \E j \in DOMAIN rows : new[i] = rows[j]
      BY <1>2, <1>4, <1>5
    <2>2. \A j \in DOMAIN rows : rows[j].id # rows[k].id => \E i \in DOMAIN new : new[i] = rows[j]
      BY <1>2, <1>4, <1>6
    <2> QED BY <1>4, <1>7, <2>1, <2>2 DEF OnlyOf
  <1> QED BY <1>1, <1>4, <1>8, <1>9

\* The rows of the store are those of the collection and those of the others.
LEMMA CollectionIs ==
    ASSUME WellFormed(shelf)
    PROVE  /\ CollectionRows \in Seq(Row) /\ IdsDiffer(CollectionRows)
           /\ \A i \in DOMAIN CollectionRows : /\ Collection \in DOMAIN shelf
                                               /\ i \in DOMAIN shelf[Collection]
                                               /\ CollectionRows[i] = shelf[Collection][i]
           /\ \A i \in DOMAIN CollectionRows : CollectionRows[i] \in Stored
           /\ Collection \in DOMAIN shelf => shelf[Collection] = CollectionRows
  <1>1. CASE Collection \in DOMAIN shelf
    <2>1. CollectionRows = shelf[Collection]
      BY <1>1 DEF CollectionRows
    <2> QED BY <1>1, <2>1, RowsIn DEF WellFormed, IdsDiffer, Stored
  <1>2. CASE Collection \notin DOMAIN shelf
    <2>1. CollectionRows = <<>>
      BY <1>2 DEF CollectionRows
    <2>2. DOMAIN CollectionRows = {} /\ CollectionRows \in Seq(Row)
      BY <2>1
    <2> QED BY <1>2, <2>2 DEF IdsDiffer
  <1> QED BY <1>1, <1>2

-----------------------------------------------------------------------------
\* The request of another thread is what it was.
LEMMA OthersServe ==
    ASSUME CatalogInv, NEW r \in Requests, NEW new, Serve(r, new)
    PROVE  /\ request'[r] = new
           /\ \A q \in Requests \ {r} : /\ request'[q] = request[q]
                                        /\ Served(q)' = Served(q) /\ Subject(q)' = Subject(q)
  BY DEF CatalogInv, MigrationInv, Serve, Served, Subject

\* What was lost of the completed requests about one row: nothing.
KeptOf(id) ==
    LET rows == {row \in Stored : row.id = id}
    IN  /\ (rows = {}) = (acknowledged[id].gone \/ acknowledged[id].version = 0)
        /\ \A row \in rows : /\ row.version = acknowledged[id].version
                             /\ row.notes = acknowledged[id].notes

\* The property UpdatesLostOnlyInRaces, told of each id.
LEMMA UpdatesKept == UpdatesLostOnlyInRaces <=> \A id \in Entities \ overlapped : KeptOf(id)
  BY DEF UpdatesLostOnlyInRaces, KeptOf

\* A step that writes nothing and leaves one request sound.
LEMMA QuietKeeps ==
    ASSUME CatalogInv, MigrationInv', NEW r \in Requests, NEW new, Serve(r, new),
           UNCHANGED <<shelf, storeRevision, storeSchema, acknowledged>>,
           issued' \in Entities, issued <= issued',
           overlapped \subseteq overlapped', overlapped' \subseteq Entities \cup Slugs,
           RequestSound(r)', Subject(r)' \cap Concurrent(r) \subseteq overlapped'
    PROVE  CatalogInv'
  <1>1. /\ request'[r] = new
        /\ \A q \in Requests \ {r} : /\ request'[q] = request[q]
                                     /\ Served(q)' = Served(q) /\ Subject(q)' = Subject(q)
    BY OthersServe
  <1>2. CatalogTyped'
    BY DEF CatalogInv, CatalogTyped
  <1>3. WellFormed(shelf)' /\ Apart(shelf, overlapped)'
    BY DEF CatalogInv, WellFormed, Apart
  <1>4. \A id \in Entities : id > issued' => id \notin IdsOf(shelf') /\ acknowledged'[id] = Nothing
    <2>1. issued \in Int /\ issued' \in Int /\ Entities \subseteq Int
      BY DEF CatalogInv, CatalogTyped, Entities
    <2>2. \A id \in Entities : id > issued' => id > issued
      BY <2>1
    <2> QED BY <2>2 DEF CatalogInv
  <1>5. UpdatesLostOnlyInRaces'
    <2>1. \A id \in Entities \ overlapped : KeptOf(id)
      BY UpdatesKept DEF CatalogInv
    <2>2. \A id \in Entities \ overlapped' : KeptOf(id)'
      BY <2>1 DEF KeptOf, Stored
    <2> QED BY <2>2 DEF UpdatesLostOnlyInRaces, KeptOf
  <1>6. ASSUME NEW q \in Requests \ {r} PROVE RequestSound(q)'
    <2>1. RequestSound(q) /\ request'[q] = request[q] /\ Served(q)' = Served(q)
      BY <1>1 DEF CatalogInv
    <2>2. ASSUME RowRequest(request[q]) PROVE RowRequest(request[q])'
      <3>1. request[q].row.id \in Int /\ issued \in Int /\ issued' \in Int
        BY <2>2 DEF RowRequest, Row, Entities, CatalogInv, CatalogTyped
      <3>2. CollectionRows' = CollectionRows
        BY DEF CollectionRows
      <3>3. PICK was : was = request[q] /\ was = request'[q]
        BY <2>1
      <3>4. was.row.id <= issued => was.row.id <= issued'
        BY <3>1, <3>3
      <3>5. /\ IsFresh(was.row.id, was) => IsFresh(was.row.id, was)'
            /\ IsHeld(was.row.id, was) => IsHeld(was.row.id, was)'
        BY <3>2 DEF IsFresh, IsHeld
      <3>6. RowRequest(was)
        BY <2>2, <3>3
      <3>7. RowRequest(was)'
        BY <3>2, <3>4, <3>5, <3>6 DEF RowRequest
      <3> QED BY <3>3, <3>7
    <2> QED BY <2>1, <2>2 DEF RequestSound
  <1>7. ASSUME NEW p \in Requests, NEW q \in Requests, p # q
        PROVE  Subject(p)' \cap Subject(q)' \subseteq overlapped'
    <2>1. Subject(p) \cap Subject(q) \subseteq overlapped
      BY <1>7 DEF CatalogInv
    <2>2. CASE p # r /\ q # r
      BY <1>1, <2>1, <2>2
    <2>3. CASE p = r
      <3>1. Subject(q)' = Subject(q) /\ Subject(q) \subseteq Concurrent(r)
        BY <1>1, <1>7, <2>3 DEF Concurrent
      <3> QED BY <2>3, <3>1
    <2>4. CASE q = r
      <3>1. Subject(p)' = Subject(p) /\ Subject(p) \subseteq Concurrent(r)
        BY <1>1, <1>7, <2>4 DEF Concurrent
      <3> QED BY <2>4, <3>1
    <2> QED BY <2>2, <2>3, <2>4
  <1> QED BY <1>2, <1>3, <1>4, <1>5, <1>6, <1>7 DEF CatalogInv

\* The request has written: the collection differs in its row alone, and what its
\* caller is told of that row is what is there.
Written(r, rows, told) ==
    LET row == request[r].row
    IN  /\ OnlyOf(row.id, rows, CollectionRows)
        /\ \A i \in DOMAIN rows : rows[i].id = row.id => Served(r) = "save" /\ rows[i] = row
        /\ told \in [version : Nat, notes : Nat, gone : BOOLEAN]
        /\ row.id \notin overlapped =>
              IF Served(r) = "save"
              THEN /\ \E i \in DOMAIN rows : rows[i] = row
                   /\ told = [version |-> row.version, notes |-> row.notes, gone |-> FALSE]
              ELSE told.gone

\* What a request has written keeps the invariant: the other requests are about other
\* rows, or their rows have been in a race.
LEMMA WriteKeeps ==
    ASSUME CatalogInv, MigrationInv', NEW r \in Requests, Served(r) \in {"save", "delete"},
           NEW rows, NEW told, Written(r, rows, told),
           Serve(r, NoRequest), Wrote(WithCollection(rows)),
           acknowledged' = [acknowledged EXCEPT ![request[r].row.id] = told],
           UNCHANGED <<storeSchema, issued, overlapped>>
    PROVE  CatalogInv'
  <1> DEFINE row == request[r].row
             id == row.id
  <1>1. /\ request'[r] = NoRequest
        /\ \A q \in Requests \ {r} : /\ request'[q] = request[q]
                                     /\ Served(q)' = Served(q) /\ Subject(q)' = Subject(q)
    BY OthersServe
  <1>2. RowRequest(request[r]) /\ Subject(r) = {id, row.slug}
    BY DEF CatalogInv, RequestSound, Subject
  <1>3. /\ row \in Row /\ row.version > row.notes /\ id \in Entities /\ id <= issued
        /\ id \in Int /\ issued \in Int /\ row.version \in Nat /\ row.notes \in Nat
    BY <1>2 DEF RowRequest, Row, CatalogInv, CatalogTyped, Entities
  <1>4. /\ shelf' = [c \in DOMAIN shelf' |-> shelf'[c]]
        /\ DOMAIN shelf' = DOMAIN shelf \cup {Collection}
        /\ shelf'[Collection] = rows /\ CollectionRows' = rows
        /\ \A c \in DOMAIN shelf \ {Collection} : shelf'[c] = shelf[c]
    BY DEF Wrote, WithCollection, CollectionRows
  <1>5. /\ rows \in Seq(Row) /\ IdsDiffer(rows)
        /\ \A i \in DOMAIN rows : /\ rows[i].id # id => \E j \in DOMAIN CollectionRows :
                                                          rows[i] = CollectionRows[j]
                                  /\ rows[i].id = id => Served(r) = "save" /\ rows[i] = row
        /\ \A j \in DOMAIN CollectionRows :
              CollectionRows[j].id # id => \E i \in DOMAIN rows : rows[i] = CollectionRows[j]
    BY DEF Written, OnlyOf
  <1>6. /\ CollectionRows \in Seq(Row) /\ IdsDiffer(CollectionRows)
        /\ \A i \in DOMAIN CollectionRows : /\ Collection \in DOMAIN shelf
                                            /\ i \in DOMAIN shelf[Collection]
                                            /\ CollectionRows[i] = shelf[Collection][i]
        /\ \A i \in DOMAIN CollectionRows : CollectionRows[i] \in Stored
        /\ Collection \in DOMAIN shelf => shelf[Collection] = CollectionRows
    BY CollectionIs DEF CatalogInv
  <1>7. ASSUME NEW other, other.id # id
        PROVE  other \in Stored' <=> other \in Stored
    <2>1. ASSUME other \in Stored' PROVE other \in Stored
      <3>1. PICK c \in DOMAIN shelf' : \E i \in DOMAIN shelf'[c] : other = shelf'[c][i]
        BY <2>1, RowsIn DEF Stored
      <3>2. CASE c = Collection
        BY <1>4, <1>5, <1>6, <1>7, <3>1, <3>2
      <3>3. CASE c # Collection
        <4>1. c \in DOMAIN shelf /\ shelf'[c] = shelf[c]
          BY <1>4, <3>3
        <4> QED BY <3>1, <4>1, RowsIn DEF Stored
      <3> QED BY <3>2, <3>3
    <2>2. ASSUME other \in Stored PROVE other \in Stored'
      <3>1. PICK c \in DOMAIN shelf : \E i \in DOMAIN shelf[c] : other = shelf[c][i]
        BY <2>2, RowsIn DEF Stored
      <3>2. CASE c = Collection
        <4>1. \E i \in DOMAIN rows : rows[i] = other
          <5>1. PICK j \in DOMAIN shelf[c] : other = shelf[c][j]
            BY <3>1
          <5>2. j \in DOMAIN CollectionRows /\ other = CollectionRows[j]
            BY <1>6, <3>2, <5>1
          <5> HIDE DEF row, id
          <5> QED BY <1>5, <1>7, <5>2
        <4>2. \E d \in DOMAIN shelf' : \E i \in DOMAIN shelf'[d] : other = shelf'[d][i]
          BY <1>4, <4>1
        <4> QED BY <4>2, RowsIn DEF Stored
      <3>3. CASE c # Collection
        <4>1. c \in DOMAIN shelf' /\ shelf'[c] = shelf[c]
          BY <1>4, <3>3
        <4>2. \E d \in DOMAIN shelf' : \E i \in DOMAIN shelf'[d] : other = shelf'[d][i]
          BY <3>1, <4>1
        <4> QED BY <4>2, RowsIn DEF Stored
      <3> QED BY <3>2, <3>3
    <2> QED BY <2>1, <2>2
  <1>8. ASSUME id \notin overlapped, NEW c \in DOMAIN shelf \ {Collection}, NEW i \in DOMAIN shelf[c]
        PROVE  shelf[c][i].id # id
    <2>1. IsFresh(id, request[r]) \/ IsHeld(id, request[r])
      BY <1>2, <1>8 DEF RowRequest
    <2>2. CASE IsFresh(id, request[r])
      BY <2>2, IdsIn DEF IsFresh
    <2>3. CASE IsHeld(id, request[r])
      BY <1>6, <1>8, <2>3 DEF IsHeld, CatalogInv, Apart
    <2> QED BY <2>1, <2>2, <2>3
  <1>9. ASSUME NEW other \in Stored', other.id = id
        PROVE  \/ other = row /\ Served(r) = "save"
               \/ other \in Stored /\ id \in overlapped
    <2>1. PICK c \in DOMAIN shelf' : \E i \in DOMAIN shelf'[c] : other = shelf'[c][i]
      BY RowsIn DEF Stored
    <2>2. CASE c = Collection
      BY <1>4, <1>5, <1>9, <2>1, <2>2
    <2>3. CASE c # Collection
      <3>1. c \in DOMAIN shelf \ {Collection} /\ shelf'[c] = shelf[c]
        BY <1>4, <2>3
      <3>2. other \in Stored
        BY <2>1, <3>1, RowsIn DEF Stored
      <3> QED BY <1>8, <1>9, <2>1, <3>1, <3>2
    <2> QED BY <2>2, <2>3
  <1> HIDE DEF row, id
  <1>10. WellFormed(shelf')
    <2>1. ASSUME NEW c \in DOMAIN shelf'
          PROVE  shelf'[c] \in Seq(Row) /\ \A i, j \in DOMAIN shelf'[c] :
                                             shelf'[c][i].id = shelf'[c][j].id => i = j
      BY <1>4, <1>5 DEF CatalogInv, WellFormed, IdsDiffer
    <2>2. \A other \in RowsOf(shelf') : other.version > other.notes
      BY <1>3, <1>7, <1>9 DEF Stored, CatalogInv, WellFormed
    <2> QED BY <1>4, <2>1, <2>2 DEF WellFormed
  <1>11. Apart(shelf', overlapped)
    <2>1. ASSUME NEW i \in DOMAIN rows, NEW j \in DOMAIN rows, rows[i].slug = rows[j].slug,
                 rows[i].slug \notin overlapped
          PROVE  i = j
      <3>1. CASE rows[i].id # id /\ rows[j].id # id
        <4>1. PICK k \in DOMAIN CollectionRows : rows[i] = CollectionRows[k]
          BY <1>5, <3>1
        <4>2. PICK l \in DOMAIN CollectionRows : rows[j] = CollectionRows[l]
          BY <1>5, <3>1
        <4>3. k = l
          BY <1>6, <2>1, <4>1, <4>2 DEF CatalogInv, Apart
        <4> QED BY <1>5, <4>1, <4>2, <4>3 DEF IdsDiffer
      <3>2. ASSUME NEW k \in DOMAIN rows, NEW l \in DOMAIN rows, rows[k].id = id,
                   rows[k].slug = rows[l].slug, rows[k].slug \notin overlapped
            PROVE  rows[l].id = id
        <4>1. Served(r) = "save" /\ rows[k] = row
          BY <1>5, <3>2
        <4>2. \A m \in DOMAIN CollectionRows : CollectionRows[m].slug = row.slug =>
                                                 CollectionRows[m].id = id
          BY <1>2, <3>2, <4>1 DEF RowRequest, row, id, Served
        <4> QED BY <1>5, <3>2, <4>1, <4>2
      <3> QED BY <1>5, <2>1, <3>1, <3>2 DEF IdsDiffer
    <2>2. ASSUME NEW d \in DOMAIN shelf \ {Collection}, NEW i \in DOMAIN rows,
                 NEW j \in DOMAIN shelf[d], rows[i].id = shelf[d][j].id
          PROVE  rows[i].id \in overlapped
      <3>1. CASE rows[i].id = id
        BY <1>8, <2>2, <3>1
      <3>2. CASE rows[i].id # id
        <4>1. PICK k \in DOMAIN CollectionRows : rows[i] = CollectionRows[k]
          BY <1>5, <3>2
        <4> QED BY <1>6, <2>2, <4>1 DEF CatalogInv, Apart
      <3> QED BY <3>1, <3>2
    <2> SUFFICES ASSUME NEW c \in DOMAIN shelf', NEW d \in DOMAIN shelf',
                        NEW i \in DOMAIN shelf'[c], NEW j \in DOMAIN shelf'[d]
                 PROVE  /\ c = d /\ shelf'[c][i].slug = shelf'[d][j].slug =>
                              i = j \/ shelf'[c][i].slug \in overlapped
                        /\ shelf'[c][i].id = shelf'[d][j].id =>
                              c = d \/ shelf'[c][i].id \in overlapped
      BY DEF Apart
    <2>3. CASE c = Collection /\ d = Collection
      BY <1>4, <2>1, <2>3
    <2>4. CASE c = Collection /\ d # Collection
      BY <1>4, <2>2, <2>4
    <2>5. CASE c # Collection /\ d = Collection
      BY <1>4, <2>2, <2>5
    <2>6. CASE c # Collection /\ d # Collection
      <3>1. c \in DOMAIN shelf /\ d \in DOMAIN shelf /\ shelf'[c] = shelf[c] /\ shelf'[d] = shelf[d]
        BY <1>4, <2>6
      <3> QED BY <3>1 DEF CatalogInv, Apart
    <2> QED BY <2>3, <2>4, <2>5, <2>6
  <1>12. CatalogTyped'
    <2>1. storeRevision' \in 0..MaxStoreRevision
      <3>1. MaxStoreRevision \in Nat
        BY CatalogAssumption
      <3> QED BY <3>1 DEF CatalogInv, CatalogTyped, Wrote
    <2>2. acknowledged' \in [Entities -> [version : Nat, notes : Nat, gone : BOOLEAN]]
      BY DEF CatalogInv, CatalogTyped, Written
    <2> QED BY <2>1, <2>2 DEF CatalogInv, CatalogTyped
  <1>13. \A x \in Entities \ {id} : acknowledged'[x] = acknowledged[x]
    BY DEF CatalogInv, CatalogTyped, id, row
  <1>14. ASSUME NEW x, x # id PROVE x \in IdsOf(shelf') <=> x \in IdsOf(shelf)
    <2>1. \A other : other.id = x => (other \in RowsOf(shelf') <=> other \in RowsOf(shelf))
      BY <1>7, <1>14 DEF Stored
    <2> QED BY <2>1 DEF IdsOf
  <1>15. ASSUME NEW x \in Entities, x > issued'
         PROVE  x \notin IdsOf(shelf') /\ acknowledged'[x] = Nothing
    <2>1. x # id
      BY <1>3, <1>15
    <2> QED BY <1>13, <1>14, <1>15, <2>1 DEF CatalogInv
  <1>16. UpdatesLostOnlyInRaces'
    <2>1. \A x \in Entities \ overlapped : KeptOf(x)
      BY UpdatesKept DEF CatalogInv
    <2>2. ASSUME NEW x \in Entities \ overlapped PROVE KeptOf(x)'
      <3>1. CASE x # id
        <4>1. {other \in Stored' : other.id = x} = {other \in Stored : other.id = x}
          BY <1>7, <3>1
        <4> QED BY <1>13, <2>1, <3>1, <4>1 DEF KeptOf
      <3>2. CASE x = id
        <4>1. acknowledged'[x] = told
          BY <1>3, <3>2 DEF CatalogInv, CatalogTyped, id, row
        <4>2. \A other \in Stored' : other.id = x => other = row /\ Served(r) = "save"
          BY <1>9, <2>2, <3>2
        <4>3. CASE Served(r) = "save"
          <5>1. (\E i \in DOMAIN rows : rows[i] = row)
                  /\ told = [version |-> row.version, notes |-> row.notes, gone |-> FALSE]
            BY <2>2, <3>2, <4>3 DEF Written, id, row
          <5>2. row \in Stored'
            <6>1. \E c \in DOMAIN shelf' : \E i \in DOMAIN shelf'[c] : row = shelf'[c][i]
              BY <1>4, <5>1
            <6> QED BY <6>1, RowsIn DEF Stored
          <5>3. row.version # 0 /\ row.id = x
            BY <1>3, <3>2 DEF id
          <5> QED BY <4>1, <4>2, <5>1, <5>2, <5>3 DEF KeptOf
        <4>4. CASE Served(r) # "save"
          <5>1. told.gone = TRUE
            BY <2>2, <3>2, <4>4 DEF Written, id, row
          <5>2. {other \in Stored' : other.id = x} = {}
            BY <4>2, <4>4
          <5> QED BY <4>1, <5>1, <5>2 DEF KeptOf
        <4> QED BY <4>3, <4>4
      <3> QED BY <3>1, <3>2
    <2> QED BY <2>2 DEF UpdatesLostOnlyInRaces, KeptOf
  <1>17. ASSUME NEW q \in Requests \ {r} PROVE RequestSound(q)'
    <2> DEFINE new == request[q]
    <2>1. RequestSound(q) /\ request'[q] = new /\ Served(q)' = Served(q)
      BY <1>1 DEF CatalogInv
    <2>2. ASSUME Served(q) \in {"save", "delete"}, RowRequest(new) PROVE RowRequest(new)'
      <3>1. Subject(q) = {new.row.id, new.row.slug} /\ Subject(r) = {id, row.slug}
        BY <1>2, <2>2 DEF Subject, id
      <3>2. (Subject(q) \cap Subject(r)) \subseteq overlapped
        BY DEF CatalogInv
      <3>3. ASSUME new.row.id \notin overlapped
            PROVE  IsFresh(new.row.id, new)' \/ IsHeld(new.row.id, new)'
        <4>1. new.row.id # id /\ new.row.id \in Entities
          BY <2>2, <3>1, <3>2, <3>3 DEF RowRequest, Row
        <4>2. acknowledged'[new.row.id] = acknowledged[new.row.id]
          BY <1>13, <4>1
        <4>3. CASE IsFresh(new.row.id, new)
          BY <1>14, <2>1, <4>1, <4>2, <4>3 DEF IsFresh
        <4>4. CASE IsHeld(new.row.id, new)
          <5>1. PICK j \in DOMAIN CollectionRows : CollectionRows[j].id = new.row.id
            BY <4>4 DEF IsHeld
          <5>2. PICK i \in DOMAIN rows : rows[i] = CollectionRows[j]
            BY <1>5, <4>1, <5>1
          <5> QED BY <1>4, <2>1, <4>2, <4>4, <5>1, <5>2 DEF IsHeld
        <4> QED BY <2>2, <3>3, <4>3, <4>4 DEF RowRequest
      <3>4. ASSUME new.kind = "save", new.row.slug \notin overlapped,
                   NEW i \in DOMAIN rows, rows[i].slug = new.row.slug
            PROVE  rows[i].id = new.row.id
        <4>1. new.row.slug # row.slug
          BY <3>1, <3>2, <3>4
        <4>2. rows[i].id # id
          BY <1>5, <3>4, <4>1
        <4> QED BY <1>5, <2>2, <3>4, <4>2 DEF RowRequest
      <3>5. \A i \in DOMAIN CollectionRows' : new.kind = "save" /\ new.row.slug \notin overlapped =>
               (CollectionRows'[i].slug = new.row.slug => CollectionRows'[i].id = new.row.id)
        BY <1>4, <3>4
      <3> QED BY <2>1, <2>2, <3>3, <3>5 DEF RowRequest
    <2>3. storeRevision \in Nat /\ storeRevision' = storeRevision + 1
      BY DEF CatalogInv, MigrationInv, Wrote
    <2>4. Served(q) = "migrate" => new.base # storeRevision'
      BY <2>3 DEF CatalogInv, MigrationInv, CurrentOrStale
    <2> QED BY <2>1, <2>2, <2>4 DEF RequestSound
  <1>18. Served(r)' = "none" /\ Subject(r)' = {}
    BY <1>1 DEF Served, Subject
  <1>19. RequestSound(r)'
    BY <1>18 DEF RequestSound
  <1>20. ASSUME NEW p \in Requests, NEW q \in Requests, p # q
         PROVE  Subject(p)' \cap Subject(q)' \subseteq overlapped'
    <2>1. Subject(p) \cap Subject(q) \subseteq overlapped
      BY <1>20 DEF CatalogInv
    <2> QED BY <1>1, <1>18, <2>1
  <1> QED BY <1>10, <1>11, <1>12, <1>15, <1>16, <1>17, <1>19, <1>20 DEF CatalogInv

-----------------------------------------------------------------------------
\* A request is about an id that was handed out, and a slug.
LEMMA SubjectsAre ==
    ASSUME CatalogInv, NEW q \in Requests, NEW x \in Subject(q)
    PROVE  x \in Slugs \/ (x \in Entities /\ x <= issued)
  <1>1. Served(q) \in {"save", "delete"} /\ x \in {request[q].row.id, request[q].row.slug}
    BY DEF Subject
  <1>2. RowRequest(request[q])
    BY <1>1 DEF CatalogInv, RequestSound
  <1> QED BY <1>1, <1>2 DEF RowRequest, Row

\* So are the requests another one meets.
LEMMA ConcurrentAre ==
    ASSUME CatalogInv, NEW r \in Requests, NEW x \in Concurrent(r)
    PROVE  x \in Slugs \/ (x \in Entities /\ x <= issued)
  BY SubjectsAre DEF Concurrent

\* The row of a new request: its id was not handed out before.
LEMMA CreateKeeps ==
    ASSUME CatalogInv, MigrationInv', NEW r \in Requests, NEW slug \in Slugs,
           NEW name \in Names, BeginCreate(r, slug, name)
    PROVE  CatalogInv'
  <1>1. PICK row, new : /\ row = NewRow(issued', slug, name)
                        /\ new = [kind |-> "save", row |-> row, touches |-> 0, notes |-> 0]
    OBVIOUS
  <1>2. /\ Serve(r, new) /\ issued < MaxEntities /\ issued' = issued + 1
        /\ overlapped' = overlapped \cup ({slug} \cap Concurrent(r))
        /\ UNCHANGED <<shelf, storeRevision, storeSchema, acknowledged>>
        /\ \A i \in DOMAIN CollectionRows : CollectionRows[i].slug # slug
    BY <1>1 DEF BeginCreate
  <1>3. /\ issued' \in Entities /\ issued <= issued' /\ issued' > issued /\ issued' \in Int
    BY <1>2, CatalogAssumption DEF CatalogInv, CatalogTyped, Entities
  <1>4. /\ row.id = issued' /\ row.slug = slug /\ row.version = 1 /\ row.notes = 0
        /\ row \in Row
    <2>1. name \in Nat
      BY CatalogAssumption
    <2> QED BY <1>1, <1>3, <2>1 DEF NewRow, Row, RowStatuses
  <1>5. new.kind = "save" /\ new.row = row /\ new.touches = 0 /\ new.notes = 0
    BY <1>1
  <1>6. request'[r] = new
    BY <1>2, OthersServe
  <1>7. CollectionRows' = CollectionRows
    BY <1>2 DEF CollectionRows
  <1>8. RowRequest(new)'
    <2>1. IsFresh(row.id, new)'
      BY <1>2, <1>3, <1>4, <1>5 DEF IsFresh, CatalogInv
    <2> QED BY <1>2, <1>3, <1>4, <1>5, <1>7, <2>1 DEF RowRequest
  <1>9. RequestSound(r)'
    BY <1>5, <1>6, <1>8 DEF RequestSound, Served
  <1>10. Subject(r)' \cap Concurrent(r) \subseteq overlapped'
    <2>1. Subject(r)' \subseteq {issued', slug}
      BY <1>4, <1>5, <1>6 DEF Subject
    <2>2. issued' \notin Concurrent(r)
      <3> SUFFICES ASSUME issued' \in Concurrent(r) PROVE FALSE
        OBVIOUS
      <3>1. issued' \in Slugs \/ issued' <= issued
        BY ConcurrentAre
      <3>2. issued' \notin Slugs
        BY <1>3, CatalogAssumption
      <3>3. issued \in Int
        BY DEF CatalogInv, CatalogTyped, Entities
      <3> QED BY <1>2, <3>1, <3>2, <3>3
    <2> QED BY <1>2, <2>1, <2>2
  <1>11. overlapped \subseteq overlapped' /\ overlapped' \subseteq Entities \cup Slugs
    BY <1>2 DEF CatalogInv, CatalogTyped
  <1> QED BY <1>2, <1>3, <1>9, <1>10, <1>11, QuietKeeps

\* A row that is in the collection, as a request reads it.
LEMMA RowRead ==
    ASSUME CatalogInv, NEW i \in DOMAIN CollectionRows, NEW row, row = CollectionRows[i]
    PROVE  /\ row \in Row /\ row.version > row.notes /\ row.id \in Entities /\ row.slug \in Slugs
           /\ row.id <= issued
           /\ row.id \notin overlapped => /\ row.version = acknowledged[row.id].version
                                          /\ row.notes = acknowledged[row.id].notes
           /\ row.slug \notin overlapped =>
                \A j \in DOMAIN CollectionRows :
                   CollectionRows[j].slug = row.slug => CollectionRows[j].id = row.id
  <1>1. /\ CollectionRows \in Seq(Row)
        /\ \A j \in DOMAIN CollectionRows : /\ Collection \in DOMAIN shelf
                                            /\ j \in DOMAIN shelf[Collection]
                                            /\ CollectionRows[j] = shelf[Collection][j]
        /\ row \in Stored
    BY CollectionIs DEF CatalogInv
  <1>2. row \in Row /\ row.id \in Entities /\ row.slug \in Slugs
    <2>1. row \in Row
      BY <1>1
    <2> QED BY <2>1 DEF Row
  <1>3. row.version > row.notes
    BY <1>1 DEF CatalogInv, WellFormed, Stored
  <1>4. row.id <= issued
    <2>1. row.id \in IdsOf(shelf)
      BY <1>1 DEF IdsOf, Stored
    <2>2. row.id \in Int /\ issued \in Int
      BY <1>2 DEF Entities, CatalogInv, CatalogTyped
    <2> QED BY <1>2, <2>1, <2>2 DEF CatalogInv
  <1>5. row.id \notin overlapped => /\ row.version = acknowledged[row.id].version
                                    /\ row.notes = acknowledged[row.id].notes
    <2>1. row.id \notin overlapped => KeptOf(row.id)
      BY <1>2, UpdatesKept DEF CatalogInv
    <2> QED BY <1>1, <2>1 DEF KeptOf
  <1>6. ASSUME row.slug \notin overlapped, NEW j \in DOMAIN CollectionRows,
               CollectionRows[j].slug = row.slug
        PROVE  CollectionRows[j].id = row.id
    <2>1. i = j
      BY <1>1, <1>6 DEF CatalogInv, Apart
    <2> QED BY <2>1
  <1> QED BY <1>2, <1>3, <1>4, <1>5, <1>6

\* How often an update touches the row: once for each field, and for a note.
LEMMA TouchesAre ==
    ASSUME NEW change \in UpdateBody, NEW row
    PROVE  /\ TouchCount(row, change) \in Nat /\ change.note \in Nat
           /\ TouchCount(row, change) >= change.note
  <1> DEFINE touched == {f \in {"name", "status", "season"} : change[f] # Missing}
  <1>1. IsFiniteSet({"name", "status", "season"})
    <2>1. /\ IsFiniteSet({})
          /\ {"name", "status", "season"} = (({} \cup {"name"}) \cup {"status"}) \cup {"season"}
      BY FS_EmptySet
    <2>2. IsFiniteSet((({} \cup {"name"}) \cup {"status"}) \cup {"season"})
      BY <2>1, FS_AddElement
    <2> QED BY <2>1, <2>2
  <1>2. IsFiniteSet(touched)
    <2>1. touched \subseteq {"name", "status", "season"}
      OBVIOUS
    <2> HIDE DEF touched
    <2> QED BY <1>1, <2>1, FS_Subset
  <1>3. Cardinality(touched) \in Nat
    BY <1>2, FS_CardinalityType
  <1>4. change.note \in {0, 1}
    BY DEF UpdateBody
  <1>5. Cardinality({change.tags} \ {Missing, row.tags}) \in Nat
    <2>1. IsFiniteSet({change.tags})
      BY FS_Singleton
    <2>2. {change.tags} \ {Missing, row.tags} \subseteq {change.tags}
      OBVIOUS
    <2> QED BY <2>1, <2>2, FS_Subset, FS_CardinalityType
  <1>6. TouchCount(row, change) =
          Cardinality(touched) + Cardinality({change.tags} \ {Missing, row.tags}) + change.note
    BY DEF TouchCount
  <1> HIDE DEF touched
  <1> QED BY <1>3, <1>4, <1>5, <1>6

\* A request about a row that is there, read as it is.
LEMMA ReadKeeps ==
    ASSUME CatalogInv, MigrationInv', NEW r \in Requests, NEW new, Serve(r, new),
           NEW i \in DOMAIN CollectionRows, NEW was, was = CollectionRows[i],
           new.kind \in {"save", "delete"}, new.row \in Row, new.row.version > new.row.notes,
           new.row.id = was.id, new.row.slug = was.slug,
           new.kind = "save" =>
              /\ {new.touches, new.notes} \subseteq Nat
              /\ new.row.version = was.version + new.touches
              /\ new.row.notes = was.notes + new.notes,
           overlapped' = overlapped \cup ({was.id, was.slug} \cap Concurrent(r)),
           UNCHANGED <<shelf, storeRevision, storeSchema, issued, acknowledged>>
    PROVE  CatalogInv'
  <1>1. /\ was \in Row /\ was.version > was.notes /\ was.id \in Entities /\ was.slug \in Slugs
        /\ was.id <= issued
        /\ was.id \notin overlapped => /\ was.version = acknowledged[was.id].version
                                       /\ was.notes = acknowledged[was.id].notes
        /\ was.slug \notin overlapped =>
             \A j \in DOMAIN CollectionRows :
                CollectionRows[j].slug = was.slug => CollectionRows[j].id = was.id
    BY RowRead
  <1>2. request'[r] = new
    BY OthersServe
  <1>3. CollectionRows' = CollectionRows
    BY DEF CollectionRows
  <1>4. was.id \notin overlapped => IsHeld(was.id, new)'
    BY <1>1, <1>3 DEF IsHeld
  <1>5. RowRequest(new)'
    BY <1>1, <1>3, <1>4 DEF RowRequest
  <1>6. RequestSound(r)'
    BY <1>2, <1>5 DEF RequestSound, Served
  <1>7. Subject(r)' \cap Concurrent(r) \subseteq overlapped'
    <2>1. Subject(r)' \subseteq {was.id, was.slug}
      BY <1>2 DEF Subject
    <2> QED BY <2>1
  <1>8. overlapped \subseteq overlapped' /\ overlapped' \subseteq Entities \cup Slugs
    BY <1>1 DEF CatalogInv, CatalogTyped
  <1>9. issued' \in Entities /\ issued <= issued'
    BY DEF CatalogInv, CatalogTyped, Entities
  <1> QED BY <1>6, <1>7, <1>8, <1>9, QuietKeeps

\* update and archive: what is to be saved is what was read, and the change.
LEMMA UpdateRowKeeps ==
    ASSUME CatalogInv, MigrationInv', NEW r \in Requests, NEW i \in DOMAIN CollectionRows,
           NEW change \in Changes \cup {ArchiveChange}, BeginUpdate(r, i, change)
    PROVE  CatalogInv'
  <1>1. PICK was, row, new :
          /\ was = CollectionRows[i] /\ row = Changed(was, change)
          /\ new = [kind |-> "save", row |-> row,
                    touches |-> TouchCount(was, change), notes |-> change.note]
    OBVIOUS
  <1>2. /\ Serve(r, new)
        /\ overlapped' = overlapped \cup ({was.id, was.slug} \cap Concurrent(r))
        /\ UNCHANGED <<shelf, storeRevision, storeSchema, issued, acknowledged>>
    BY <1>1 DEF BeginUpdate
  <1>3. change \in UpdateBody
    <2>1. ArchiveChange \in UpdateBody
      BY DEF ArchiveChange, UpdateBody, RowStatuses
    <2> QED BY <2>1, CatalogAssumption
  <1>4. /\ TouchCount(was, change) \in Nat /\ change.note \in Nat
        /\ TouchCount(was, change) >= change.note
    BY <1>3, TouchesAre
  <1>5. was \in Row /\ was.version > was.notes
    BY <1>1, RowRead
  <1>6. /\ row \in Row /\ row.id = was.id /\ row.slug = was.slug
        /\ row.version = was.version + TouchCount(was, change)
        /\ row.notes = was.notes + change.note
    <2>1. /\ Given(change.name, was.name) \in Nat
          /\ Given(change.status, was.status) \in RowStatuses
          /\ Given(change.tags, was.tags) \in SUBSET STRING
          /\ Given(change.season, was.season) \in {Missing} \cup Nat
      BY <1>3, <1>5 DEF Given, UpdateBody, Row
    <2>2. row = [was EXCEPT !.name = Given(change.name, was.name),
                            !.status = Given(change.status, was.status),
                            !.tags = Given(change.tags, was.tags),
                            !.season = Given(change.season, was.season),
                            !.notes = was.notes + change.note,
                            !.version = was.version + TouchCount(was, change)]
      BY <1>1 DEF Changed
    <2>3. /\ was.notes + change.note \in Nat
          /\ was.version + TouchCount(was, change) \in Nat
      BY <1>4, <1>5 DEF Row
    <2>4. PICK name, status, tags, season, notes, version :
            /\ name = Given(change.name, was.name)
            /\ status = Given(change.status, was.status)
            /\ tags = Given(change.tags, was.tags)
            /\ season = Given(change.season, was.season)
            /\ notes = was.notes + change.note
            /\ version = was.version + TouchCount(was, change)
      OBVIOUS
    <2>5. row = [was EXCEPT !.name = name, !.status = status, !.tags = tags,
                            !.season = season, !.notes = notes, !.version = version]
      BY <2>2, <2>4
    <2>6. /\ name \in Nat /\ status \in RowStatuses /\ tags \in SUBSET STRING
          /\ season \in {Missing} \cup Nat
          /\ notes \in Nat /\ version \in Nat
      BY <2>1, <2>3, <2>4
    <2> QED BY <1>5, <2>4, <2>5, <2>6 DEF Row
  <1>7. row.version > row.notes
    BY <1>4, <1>5, <1>6 DEF Row
  <1>8. /\ new.kind = "save" /\ new.row = row /\ new.touches = TouchCount(was, change)
        /\ new.notes = change.note
    BY <1>1
  <1> QED BY <1>1, <1>2, <1>4, <1>6, <1>7, <1>8, ReadKeeps

\* delete: the row that is read is the one to remove.
LEMMA BeginDeleteKeeps ==
    ASSUME CatalogInv, MigrationInv', NEW r \in Requests, NEW i \in DOMAIN CollectionRows,
           BeginDelete(r, i)
    PROVE  CatalogInv'
  <1>1. PICK was, new : was = CollectionRows[i] /\ new = [kind |-> "delete", row |-> was]
    OBVIOUS
  <1>2. /\ Serve(r, new)
        /\ overlapped' = overlapped \cup ({was.id, was.slug} \cap Concurrent(r))
        /\ UNCHANGED <<shelf, storeRevision, storeSchema, issued, acknowledged>>
    BY <1>1 DEF BeginDelete
  <1>3. was \in Row /\ was.version > was.notes
    BY <1>1, RowRead
  <1>4. new.kind = "delete" /\ new.row = was
    BY <1>1
  <1> QED BY <1>1, <1>2, <1>3, <1>4, ReadKeeps

\* A request that ends without a write.
LEMMA EndKeeps ==
    ASSUME CatalogInv, MigrationInv', NEW r \in Requests, Serve(r, NoRequest),
           UNCHANGED <<shelf, storeRevision, storeSchema, issued, overlapped, acknowledged>>
    PROVE  CatalogInv'
  <1>1. request'[r] = NoRequest
    BY OthersServe
  <1>2. Served(r)' = "none" /\ Subject(r)' = {}
    BY <1>1 DEF Served, Subject
  <1>3. RequestSound(r)' /\ Subject(r)' \cap Concurrent(r) \subseteq overlapped'
    BY <1>2 DEF RequestSound
  <1>4. /\ issued' \in Entities /\ issued <= issued'
        /\ overlapped \subseteq overlapped' /\ overlapped' \subseteq Entities \cup Slugs
    BY DEF CatalogInv, CatalogTyped, Entities
  <1> QED BY <1>3, <1>4, QuietKeeps

\* A migration that is begun has read the store and its revision at once.
LEMMA BeginMigrateKeeps ==
    ASSUME CatalogInv, MigrationInv', NEW r \in Requests, NEW target \in 2..LatestVersion,
           BeginMigrate(r, target)
    PROVE  CatalogInv'
  <1>1. PICK new : new = [kind |-> "migrate", base |-> storeRevision, target |-> target,
                          collections |-> Migrated(shelf, storeSchema, target)]
    OBVIOUS
  <1>2. /\ Serve(r, new) /\ Migrated(shelf, storeSchema, target) # Raised
        /\ storeSchema < target
        /\ UNCHANGED <<shelf, storeRevision, storeSchema, issued, overlapped, acknowledged>>
    BY <1>1 DEF BeginMigrate
  <1>3. request'[r] = new
    BY <1>2, OthersServe
  <1>4. /\ new.kind = "migrate" /\ new.base = storeRevision /\ new.target = target
        /\ new.collections = Migrated(shelf, storeSchema, target)
    BY <1>1
  <1>5. RequestSound(r)' /\ Subject(r)' = {}
    BY <1>2, <1>3, <1>4 DEF RequestSound, Served, Subject
  <1>6. /\ issued' \in Entities /\ issued <= issued'
        /\ overlapped \subseteq overlapped' /\ overlapped' \subseteq Entities \cup Slugs
    BY <1>2 DEF CatalogInv, CatalogTyped, Entities
  <1> QED BY <1>2, <1>5, <1>6, QuietKeeps

\* The save of create, update and archive: the row takes its place, and what its
\* request is told is what the row adds up to.
LEMMA SaveRowKeeps ==
    ASSUME CatalogInv, MigrationInv', NEW r \in Requests, SaveRow(r)
    PROVE  CatalogInv'
  <1>1. PICK row, rows : row = request[r].row /\ rows = RowSaved(CollectionRows, row)
    OBVIOUS
  <1> DEFINE old == acknowledged[row.id]
             told == [version |-> (IF old.version = 0 THEN 1 ELSE old.version) + request[r].touches,
                      notes |-> old.notes + request[r].notes, gone |-> FALSE]
  <1>2. /\ Served(r) = "save" /\ request[r].kind = "save"
        /\ Wrote(WithCollection(rows)) /\ Serve(r, NoRequest)
        /\ acknowledged' = [acknowledged EXCEPT ![row.id] = told]
        /\ UNCHANGED <<storeSchema, issued, overlapped>>
    BY <1>1 DEF SaveRow, Served
  <1>3. /\ row \in Row /\ row.id \in Entities
        /\ request[r].touches \in Nat /\ request[r].notes \in Nat
        /\ row.id \notin overlapped => IsFresh(row.id, request[r]) \/ IsHeld(row.id, request[r])
    <2>1. RowRequest(request[r])
      BY <1>2 DEF CatalogInv, RequestSound
    <2> QED BY <1>1, <1>2, <2>1 DEF RowRequest, Row
  <1>4. CollectionRows \in Seq(Row) /\ IdsDiffer(CollectionRows)
    BY CollectionIs DEF CatalogInv
  <1>5. OnlyOf(row.id, rows, CollectionRows) /\ \E k \in DOMAIN rows : rows[k] = row
    BY <1>1, <1>3, <1>4, SavedInPlace
  <1>6. \A i \in DOMAIN rows : rows[i].id = row.id => rows[i] = row
    BY <1>5 DEF OnlyOf, IdsDiffer
  <1>7. old \in [version : Nat, notes : Nat, gone : BOOLEAN]
    BY <1>3 DEF CatalogInv, CatalogTyped
  <1> HIDE DEF old
  <1>8. told \in [version : Nat, notes : Nat, gone : BOOLEAN]
    BY <1>3, <1>7
  <1>9. row.id \notin overlapped =>
          told = [version |-> row.version, notes |-> row.notes, gone |-> FALSE]
    <2> SUFFICES ASSUME row.id \notin overlapped
                 PROVE  told.version = row.version /\ told.notes = row.notes
      OBVIOUS
    <2>1. CASE IsFresh(row.id, request[r])
      BY <1>1, <2>1 DEF IsFresh, Nothing, old
    <2>2. CASE IsHeld(row.id, request[r])
      <3>1. /\ row.version = old.version + request[r].touches
            /\ row.notes = old.notes + request[r].notes
            /\ \E i \in DOMAIN CollectionRows : CollectionRows[i].id = row.id
        BY <1>1, <1>2, <2>2 DEF IsHeld, old
      <3>2. PICK i \in DOMAIN CollectionRows : CollectionRows[i].id = row.id
        BY <3>1
      <3>3. PICK was : was = CollectionRows[i]
        OBVIOUS
      <3>4. was.version = old.version /\ was.version > was.notes /\ was \in Row
        BY <3>2, <3>3, RowRead DEF old
      <3>5. old.version # 0
        BY <3>4 DEF Row
      <3> QED BY <3>1, <3>5
    <2> QED BY <1>3, <2>1, <2>2
  <1> HIDE DEF told
  <1>10. Written(r, rows, told)
    BY <1>1, <1>2, <1>5, <1>6, <1>8, <1>9 DEF Written
  <1> QED BY <1>1, <1>2, <1>10, WriteKeeps

\* The removal of delete: the row is gone, and its request is told so.
LEMMA DeleteRowKeeps ==
    ASSUME CatalogInv, MigrationInv', NEW r \in Requests, DeleteRow(r)
    PROVE  CatalogInv'
  <1>1. PICK id, first, rows : /\ id = request[r].row.id /\ first = FirstOf(CollectionRows, id)
                               /\ rows = RemoveAt(CollectionRows, first)
    OBVIOUS
  <1>2. PICK told : told = [acknowledged[id] EXCEPT !.gone = TRUE]
    OBVIOUS
  <1>3. /\ Served(r) = "delete" /\ IndexOf(CollectionRows, id) # {}
        /\ Wrote(WithCollection(rows)) /\ Serve(r, NoRequest)
        /\ UNCHANGED <<storeSchema, issued, overlapped>>
    BY <1>1 DEF DeleteRow
  <1>4. id \in Entities
    BY <1>1, <1>3 DEF CatalogInv, RequestSound, RowRequest, Row
  <1>5. acknowledged[id] \in [version : Nat, notes : Nat, gone : BOOLEAN]
    BY <1>4 DEF CatalogInv, CatalogTyped
  <1>6. told \in [version : Nat, notes : Nat, gone : BOOLEAN] /\ told.gone
    BY <1>2, <1>5
  <1>7. acknowledged' = [acknowledged EXCEPT ![id] = told]
    BY <1>1, <1>2 DEF DeleteRow
  <1>8. CollectionRows \in Seq(Row) /\ IdsDiffer(CollectionRows)
    BY CollectionIs DEF CatalogInv
  <1>9. first \in DOMAIN CollectionRows /\ CollectionRows[first].id = id
    BY <1>1, <1>3, <1>8, FirstIs
  <1>10. OnlyOf(id, rows, CollectionRows) /\ \A i \in DOMAIN rows : rows[i].id # id
    BY <1>1, <1>8, <1>9, RemovedAlone
  <1>11. Written(r, rows, told)
    BY <1>1, <1>3, <1>6, <1>10 DEF Written
  <1> QED BY <1>1, <1>3, <1>7, <1>11, WriteKeeps

\* A migration writes what the functions make of the store as it is: rows that stem
\* from those there.  It meets every request that is under way.
LEMMA CommitMigrationKeeps ==
    ASSUME CatalogInv, MigrationInv', NEW r \in Requests, CommitMigration(r)
    PROVE  CatalogInv'
  <1>1. /\ Served(r) = "migrate" /\ request[r].base = storeRevision
        /\ Wrote(request[r].collections) /\ Serve(r, NoRequest)
        /\ storeSchema' = request[r].target /\ issued' = issued
        /\ overlapped' = overlapped \cup Concurrent(r)
        /\ acknowledged' = [x \in Entities |->
              IF x \in Dropped(request[r].collections)
              THEN [acknowledged[x] EXCEPT !.gone = TRUE] ELSE acknowledged[x]]
    BY DEF CommitMigration
  <1>2. /\ shelf' = Migrated(shelf, storeSchema, storeSchema') /\ shelf' # Raised
        /\ storeSchema \in 1..LatestVersion /\ storeSchema' \in 1..LatestVersion
        /\ storeSchema < storeSchema' /\ shelf' = request[r].collections
    <2>1. RequestSound(r) /\ CurrentOrStale(r)
      BY DEF CatalogInv, MigrationInv
    <2>2. shelf' = request[r].collections
      BY <1>1 DEF Wrote
    <2>3. LatestVersion \in Nat
      BY CatalogAssumption DEF LatestVersion
    <2> QED BY <1>1, <2>1, <2>2, <2>3 DEF RequestSound, CurrentOrStale, CatalogInv, CatalogTyped
  <1>3. WellFormed(shelf') /\ Apart(shelf', overlapped) /\ Stems(shelf', Stored)
    <2>1. MigratedWell(shelf, Stored, overlapped)
      BY DEF MigratedWell, CatalogInv, Stems, SameRecord, Stored
    <2>2. storeSchema <= storeSchema'
      BY <1>2, CatalogAssumption DEF LatestVersion
    <2>3. MigratedWell(shelf', Stored, overlapped)
      BY <1>2, <2>1, <2>2, MigratedKeeps
    <2> QED BY <1>2, <2>3 DEF MigratedWell
  <1>4. Apart(shelf', overlapped')
    BY <1>1, <1>3 DEF Apart
  <1>5. overlapped' \subseteq Entities \cup Slugs
    BY <1>1, ConcurrentAre DEF CatalogInv, CatalogTyped
  <1>6. ASSUME NEW x, x \in IdsOf(shelf') PROVE x \in IdsOf(shelf)
    BY <1>3, <1>6 DEF Stems, SameRecord, IdsOf, Stored
  <1>7. ASSUME NEW x \in Entities
        PROVE  /\ acknowledged[x] \in [version : Nat, notes : Nat, gone : BOOLEAN]
               /\ x \in IdsOf(shelf) \ IdsOf(shelf') =>
                    acknowledged'[x] = [acknowledged[x] EXCEPT !.gone = TRUE]
               /\ x \notin IdsOf(shelf) \ IdsOf(shelf') => acknowledged'[x] = acknowledged[x]
    BY <1>1, <1>2 DEF Dropped, CatalogInv, CatalogTyped
  <1>8. CatalogTyped'
    <2>1. storeRevision' \in 0..MaxStoreRevision
      BY <1>1, CatalogAssumption DEF CatalogInv, CatalogTyped, Wrote
    <2>2. ASSUME NEW x \in Entities
          PROVE  acknowledged'[x] \in [version : Nat, notes : Nat, gone : BOOLEAN]
      <3>1. PICK was : was = acknowledged[x]
        OBVIOUS
      <3>2. [was EXCEPT !.gone = TRUE] \in [version : Nat, notes : Nat, gone : BOOLEAN]
        BY <1>7, <3>1
      <3> QED BY <1>7, <3>1, <3>2
    <2>3. acknowledged' = [x \in Entities |-> acknowledged'[x]]
      BY <1>1
    <2>4. acknowledged' \in [Entities -> [version : Nat, notes : Nat, gone : BOOLEAN]]
      BY <2>2, <2>3
    <2> QED BY <1>1, <1>2, <1>5, <2>1, <2>4 DEF CatalogInv, CatalogTyped
  <1>9. ASSUME NEW x \in Entities, x > issued'
        PROVE  x \notin IdsOf(shelf') /\ acknowledged'[x] = Nothing
    <2>1. x \notin IdsOf(shelf) /\ acknowledged[x] = Nothing
      BY <1>1, <1>9 DEF CatalogInv
    <2> QED BY <1>6, <1>7, <2>1
  <1>10. ASSUME NEW x \in Entities \ overlapped' PROVE KeptOf(x)'
    <2>1. KeptOf(x)
      BY <1>1, UpdatesKept DEF CatalogInv
    <2>2. \A y : /\ y \in IdsOf(shelf) <=> {row \in Stored : row.id = y} # {}
                 /\ y \in IdsOf(shelf') <=> {row \in Stored' : row.id = y} # {}
      BY DEF IdsOf, Stored
    <2>3. CASE x \in IdsOf(shelf) \ IdsOf(shelf')
      <3>1. acknowledged'[x].gone = TRUE
        <4>1. PICK was : was = acknowledged[x]
          OBVIOUS
        <4> QED BY <1>7, <2>3, <4>1
      <3>2. {row \in Stored' : row.id = x} = {}
        BY <2>2, <2>3
      <3> QED BY <3>1, <3>2 DEF KeptOf
    <2>4. CASE x \notin IdsOf(shelf) \ IdsOf(shelf')
      <3>1. acknowledged'[x] = acknowledged[x]
        BY <1>7, <2>4
      <3>2. x \in IdsOf(shelf) <=> x \in IdsOf(shelf')
        BY <1>6, <2>4
      <3>3. ASSUME NEW row \in Stored', row.id = x
            PROVE  row.version = acknowledged[x].version /\ row.notes = acknowledged[x].notes
        <4>1. PICK was \in Stored : SameRecord(row, was)
          BY <1>3 DEF Stems, Stored
        <4> QED BY <2>1, <3>3, <4>1 DEF KeptOf, SameRecord
      <3>4. ({row \in Stored' : row.id = x} = {}) = ({row \in Stored : row.id = x} = {})
        BY <2>2, <3>2
      <3> QED BY <2>1, <3>1, <3>3, <3>4 DEF KeptOf
    <2> QED BY <2>3, <2>4
  <1>11. UpdatesLostOnlyInRaces'
    BY <1>10 DEF UpdatesLostOnlyInRaces, KeptOf
  <1>12. /\ request'[r] = NoRequest
         /\ \A q \in Requests \ {r} : /\ request'[q] = request[q]
                                      /\ Served(q)' = Served(q) /\ Subject(q)' = Subject(q)
    BY <1>1, OthersServe
  <1>13. Served(r)' = "none" /\ Subject(r)' = {}
    BY <1>12 DEF Served, Subject
  <1>14. ASSUME NEW q \in Requests \ {r} PROVE RequestSound(q)'
    <2> DEFINE new == request[q]
    <2>1. RequestSound(q) /\ request'[q] = new /\ Served(q)' = Served(q)
      BY <1>12 DEF CatalogInv
    <2>2. ASSUME Served(q) \in {"save", "delete"}, RowRequest(new) PROVE RowRequest(new)'
      <3>1. {new.row.id, new.row.slug} \subseteq overlapped'
        BY <1>1, <2>2 DEF Subject, Concurrent
      <3>2. PICK was : was = request[q] /\ was = request'[q]
        BY <2>1
      <3>3. RowRequest(was)'
        BY <1>1, <2>2, <3>1, <3>2 DEF RowRequest
      <3> QED BY <3>2, <3>3
    <2>3. Served(q) = "migrate" => new.base # storeRevision'
      BY <1>1, <2>1 DEF CatalogInv, MigrationInv, CurrentOrStale, Wrote
    <2> QED BY <2>1, <2>2, <2>3 DEF RequestSound
  <1>15. RequestSound(r)'
    BY <1>13 DEF RequestSound
  <1>16. ASSUME NEW p \in Requests, NEW q \in Requests, p # q
         PROVE  Subject(p)' \cap Subject(q)' \subseteq overlapped'
    <2>1. Subject(p) \cap Subject(q) \subseteq overlapped
      BY <1>16 DEF CatalogInv
    <2> QED BY <1>1, <1>12, <1>13, <2>1
  <1> QED BY <1>3, <1>4, <1>8, <1>9, <1>11, <1>14, <1>15, <1>16 DEF CatalogInv

\* Nothing of the catalog changes, nor does what the invariant says of it.
LEMMA QuietCatalog ==
    ASSUME CatalogInv, UNCHANGED catalogVars
    PROVE  CatalogInv'
  <1>1. /\ shelf' = shelf /\ storeRevision' = storeRevision /\ storeSchema' = storeSchema
        /\ issued' = issued /\ request' = request /\ overlapped' = overlapped
        /\ acknowledged' = acknowledged
    BY DEF catalogVars
  <1>2. CollectionRows' = CollectionRows /\ Stored' = Stored
    BY <1>1 DEF CollectionRows, Stored
  <1>3. MigrationInv'
    BY <1>1 DEF CatalogInv, MigrationInv, CurrentOrStale, Served
  <1>4. CatalogTyped' /\ UpdatesLostOnlyInRaces'
    BY <1>1, <1>2 DEF CatalogInv, CatalogTyped, UpdatesLostOnlyInRaces
  <1>5. \A r \in Requests : RequestSound(r)' /\ Subject(r)' = Subject(r)
    <2> TAKE r \in Requests
    <2>1. RequestSound(r)
      BY DEF CatalogInv
    <2> QED BY <1>1, <1>2, <2>1 DEF RequestSound, RowRequest, IsFresh, IsHeld, Served, Subject
  <1> QED BY <1>1, <1>3, <1>4, <1>5 DEF CatalogInv, WellFormed, Apart, Nothing

\* The collections a store starts with are as requests that met no other left them.
LEMMA StartSound ==
    ASSUME CatalogInit
    PROVE  CatalogInv
  <1>1. /\ shelf \in Shelves /\ storeRevision = 0 /\ storeSchema = 1 /\ overlapped = {}
        /\ issued = Cardinality(IdsOf(shelf) \ {0})
        /\ request = [r \in Requests |-> NoRequest]
    BY DEF CatalogInit
  <1>2. /\ shelf = [c \in DOMAIN shelf |-> shelf[c]]
        /\ \A c \in DOMAIN shelf :
              /\ shelf[c] \in Seq(Row)
              /\ \A i, j \in DOMAIN shelf[c] : shelf[c][i].slug = shelf[c][j].slug => i = j
        /\ \A c, d \in DOMAIN shelf : \A i \in DOMAIN shelf[c], j \in DOMAIN shelf[d] :
              shelf[c][i].id = shelf[d][j].id => c = d /\ i = j
        /\ \A row \in RowsOf(shelf) : row.version > row.notes
        /\ IdsOf(shelf) \ {0} = 1..issued
    BY <1>1, ShelvesAssumption
  <1>3. WellFormed(shelf)
    BY <1>2 DEF WellFormed
  <1>4. Apart(shelf, overlapped)
    BY <1>2 DEF Apart
  <1>5. \A row \in Stored : row \in Row /\ row.version > row.notes
    BY <1>2, RowsIn DEF Stored
  <1>6. IdsOf(shelf) \subseteq Entities
    BY <1>5 DEF IdsOf, Stored, Row
  <1>7. issued \in Entities
    <2>1. MaxEntities \in Nat
      BY CatalogAssumption
    <2>2. IsFiniteSet(Entities)
      BY <2>1, FS_Interval DEF Entities
    <2>3. IsFiniteSet(IdsOf(shelf) \ {0})
      <3>1. IdsOf(shelf) \ {0} \subseteq Entities
        BY <1>6
      <3> QED BY <2>2, <3>1, FS_Subset
    <2>4. issued \in Nat
      BY <1>1, <2>3, FS_CardinalityType
    <2>5. issued = 0 \/ issued \in Entities
      BY <1>2, <1>6, <2>4
    <2> QED BY <2>1, <2>5 DEF Entities
  <1>8. ASSUME NEW x \in Entities
        PROVE  acknowledged[x] = IF x \in IdsOf(shelf)
                                 THEN LET row == CHOOSE row \in Stored : row.id = x
                                      IN  [version |-> row.version, notes |-> row.notes,
                                           gone |-> FALSE]
                                 ELSE Nothing
    BY DEF CatalogInit, Nothing
  <1>9. ASSUME NEW x \in IdsOf(shelf)
        PROVE  \E row \in Stored :
                  /\ row.id = x /\ \A other \in Stored : other.id = x => other = row
                  /\ acknowledged[x] = [version |-> row.version, notes |-> row.notes, gone |-> FALSE]
    <2> DEFINE first == CHOOSE row \in Stored : row.id = x
    <2>1. first \in Stored /\ first.id = x
      BY DEF IdsOf, Stored
    <2>2. acknowledged[x] = [version |-> first.version, notes |-> first.notes, gone |-> FALSE]
      BY <1>6, <1>8
    <2> HIDE DEF first
    <2>3. ASSUME NEW other \in Stored, other.id = x PROVE other = first
      <3>1. PICK c \in DOMAIN shelf : \E i \in DOMAIN shelf[c] : other = shelf[c][i]
        BY RowsIn DEF Stored
      <3>2. PICK i \in DOMAIN shelf[c] : other = shelf[c][i]
        BY <3>1
      <3>3. PICK d \in DOMAIN shelf : \E j \in DOMAIN shelf[d] : first = shelf[d][j]
        BY <2>1, RowsIn DEF Stored
      <3>4. PICK j \in DOMAIN shelf[d] : first = shelf[d][j]
        BY <3>3
      <3>5. c = d /\ i = j
        BY <1>2, <2>1, <2>3, <3>2, <3>4
      <3> QED BY <3>2, <3>4, <3>5
    <2> QED BY <2>1, <2>2, <2>3
  <1>10. ASSUME NEW x \in Entities
         PROVE  acknowledged[x] \in [version : Nat, notes : Nat, gone : BOOLEAN]
    <2>1. CASE x \in IdsOf(shelf)
      <3>1. PICK row \in Stored : acknowledged[x] = [version |-> row.version,
                                                     notes |-> row.notes, gone |-> FALSE]
        BY <1>9, <2>1
      <3>2. row.version \in Nat /\ row.notes \in Nat
        BY <1>5 DEF Row
      <3> QED BY <3>1, <3>2
    <2>2. CASE x \notin IdsOf(shelf)
      <3>1. Nothing \in [version : Nat, notes : Nat, gone : BOOLEAN]
        BY DEF Nothing
      <3>2. acknowledged[x] = Nothing
        BY <1>8, <2>2
      <3> QED BY <3>1, <3>2
    <2> QED BY <2>1, <2>2
  <1>11. CatalogTyped
    <2>1. acknowledged = [x \in Entities |-> acknowledged[x]]
      BY DEF CatalogInit
    <2>2. acknowledged \in [Entities -> [version : Nat, notes : Nat, gone : BOOLEAN]]
      BY <1>10, <2>1
    <2>3. LatestVersion \in Nat /\ 1 <= LatestVersion /\ MaxStoreRevision \in Nat
      BY CatalogAssumption DEF LatestVersion
    <2> QED BY <1>1, <1>7, <2>2, <2>3 DEF CatalogTyped
  <1>12. ASSUME NEW x \in Entities, x > issued
         PROVE  x \notin IdsOf(shelf) /\ acknowledged[x] = Nothing
    <2>1. x # 0 /\ x \notin 1..issued
      BY <1>7, <1>12 DEF Entities
    <2>2. x \notin IdsOf(shelf)
      BY <1>2, <2>1
    <2> QED BY <1>8, <2>2
  <1>13. ASSUME NEW x \in Entities PROVE KeptOf(x)
    <2>1. CASE x \in IdsOf(shelf)
      <3>1. PICK row \in Stored :
              /\ row.id = x /\ \A other \in Stored : other.id = x => other = row
              /\ acknowledged[x] = [version |-> row.version, notes |-> row.notes, gone |-> FALSE]
        BY <1>9, <2>1
      <3>2. row.version # 0
        BY <1>5 DEF Row
      <3> QED BY <3>1, <3>2 DEF KeptOf
    <2>2. CASE x \notin IdsOf(shelf)
      <3>1. {row \in Stored : row.id = x} = {}
        BY <2>2 DEF IdsOf, Stored
      <3> QED BY <1>8, <2>2, <3>1 DEF KeptOf, Nothing
    <2> QED BY <2>1, <2>2
  <1>14. UpdatesLostOnlyInRaces
    BY <1>13 DEF UpdatesLostOnlyInRaces, KeptOf
  <1>15. \A r \in Requests : Served(r) = "none" /\ Subject(r) = {}
    BY <1>1 DEF Served, Subject
  <1>16. \A r \in Requests : RequestSound(r)
    BY <1>15 DEF RequestSound
  <1>17. MigrationInv
    BY <1>1, <1>15 DEF MigrationInv, CurrentOrStale
  <1> QED BY <1>3, <1>4, <1>11, <1>12, <1>14, <1>15, <1>16, <1>17 DEF CatalogInv

\* Every step of a request or a migration keeps the invariant, and so do the other
\* services.
LEMMA CatalogStep ==
    ASSUME CatalogInv, [ServicesNext]_servicesVars
    PROVE  CatalogInv'
  <1>1. MigrationInv'
    BY MigrationStep DEF CatalogInv
  <1>2. CASE UNCHANGED catalogVars
    BY <1>2, QuietCatalog
  <1>3. ASSUME NEW r \in Requests,
               \/ \E slug \in Slugs, name \in Names : BeginCreate(r, slug, name)
               \/ \E i \in DOMAIN CollectionRows :
                     \/ \E change \in Changes \cup {ArchiveChange} : BeginUpdate(r, i, change)
                     \/ BeginDelete(r, i)
               \/ SaveRow(r) \/ DeleteRow(r)
               \/ \E target \in 2..LatestVersion : BeginMigrate(r, target)
               \/ CommitMigration(r)
        PROVE  CatalogInv'
    BY <1>1, <1>3, CreateKeeps, UpdateRowKeeps, BeginDeleteKeeps, SaveRowKeeps, DeleteRowKeeps,
       BeginMigrateKeeps, CommitMigrationKeeps
  <1>4. ASSUME NEW r \in Requests,
               DeleteFindsNothing(r) \/ RequestLost(r) \/ RefuseMigration(r)
        PROVE  CatalogInv'
    <2>1. /\ Serve(r, NoRequest)
          /\ UNCHANGED <<shelf, storeRevision, storeSchema, issued, overlapped, acknowledged>>
      BY <1>4 DEF DeleteFindsNothing, RequestLost, RefuseMigration
    <2> QED BY <1>1, <2>1, EndKeeps
  <1>5. CatalogNext => CatalogInv'
    BY <1>2, <1>3, <1>4 DEF CatalogNext, CatalogRests
  <1> QED BY <1>2, <1>5 DEF ServicesNext, servicesVars

\* The inductive invariant of the catalog holds in every state.
THEOREM CatalogInvariance == ServicesSpec => []CatalogInv
  <1>1. ServicesInit => CatalogInv
    <2>1. ServicesInit => CatalogInit
      BY Zenon DEF ServicesInit
    <2> QED BY <2>1, StartSound
  <1>2. CatalogInv /\ [ServicesNext]_servicesVars => CatalogInv'
    BY CatalogStep
  <1> QED BY <1>1, <1>2, PTL DEF ServicesSpec

\* A collection holds one row per id, a slug twice only after a race, and of every row
\* that was in no race what the completed requests about it did.
THEOREM RequestsStayKept == ServicesSpec => []RequestsAreKept
  <1>1. CatalogInv => RequestsAreKept
    <2> SUFFICES ASSUME CatalogInv PROVE RequestsAreKept
      OBVIOUS
    <2>1. \A row \in Stored : row.id \in Entities /\ row.version > row.notes
      <3>1. \A row \in Stored : row \in Row
        BY RowsIn DEF CatalogInv, WellFormed, Stored
      <3> QED BY <3>1 DEF CatalogInv, WellFormed, Stored, Row
    <2>2. CatalogTypeOK
      BY <2>1 DEF CatalogTypeOK, CatalogInv, CatalogTyped
    <2>3. SlugsClashOnlyInRaces
      <3>1. \A i \in DOMAIN CollectionRows : /\ Collection \in DOMAIN shelf
                                             /\ i \in DOMAIN shelf[Collection]
                                             /\ CollectionRows[i] = shelf[Collection][i]
        BY CollectionIs DEF CatalogInv
      <3> QED BY <3>1 DEF SlugsClashOnlyInRaces, CatalogInv, Apart
    <2> QED BY <2>2, <2>3 DEF RequestsAreKept, CatalogInv, WellFormed
  <1> QED BY <1>1, CatalogInvariance, PTL

-----------------------------------------------------------------------------
(***************************************************************************)
(* Record lifecycles.                                                      *)
(***************************************************************************)
\* A record is what its callers were told.  (Only a workflow that ascends tells of a
\* production where it stands.)
Told(kind, row, promise) ==
    (kind = "production" => WorkflowAscends) => promise = PromiseOf(kind, row)

\* A copy of the record as it is stored still will tell what its caller is told.
CallSound(call) ==
    /\ call.kind \in DOMAIN entity
    /\ IsRecord(call.kind, call.row) /\ ValidMetadata(call.kind, call.row)
    /\ call.base \in Nat /\ call.base <= saves[call.kind]
    /\ call.kind \notin outrun \cup overruled /\ call.base = saves[call.kind] /\ ~Overrules(call) =>
          Told(call.kind, call.row, Promise(promised[call.kind], call))

RecordTyped ==
    /\ entity = [kind \in DOMAIN entity |-> entity[kind]]
    /\ DOMAIN entity \subseteq DOMAIN Fields
    /\ saves \in [DOMAIN entity -> Nat]
    /\ promised = [kind \in DOMAIN entity |-> promised[kind]]
    /\ copy = [c \in Callers |-> copy[c]]
    /\ \A kind \in DOMAIN entity :
          IsRecord(kind, entity[kind]) /\ ValidMetadata(kind, entity[kind])

RecordInv ==
    /\ RecordTyped
    /\ \A kind \in DOMAIN entity \ (outrun \cup overruled) : Told(kind, entity[kind], promised[kind])
    /\ \A c \in Callers : copy[c] # NoCopy => CallSound(copy[c])

\* A call that gets a record and changes its copy keeps the invariant, if what its
\* caller will be told is what the copy says.
LEMMA ChangeKeeps ==
    ASSUME RecordInv, NEW c \in Callers, NEW kind, NEW operation, NEW told, NEW row,
           On(kind), Change(c, kind, operation, told, row), IsRecord(kind, row),
           LET call == [kind |-> kind, operation |-> operation, told |-> told,
                        row |-> row, base |-> saves[kind]]
           IN  Told(kind, entity[kind], promised[kind]) /\ ~Overrules(call) =>
                 Told(kind, row, Promise(promised[kind], call))
    PROVE  RecordInv'
  <1> DEFINE call == [kind |-> kind, operation |-> operation, told |-> told,
                      row |-> row, base |-> saves[kind]]
  <1>1. /\ copy' = [copy EXCEPT ![c] = call] /\ ValidMetadata(kind, row)
        /\ UNCHANGED <<entity, saves, promised, outrun, overruled>>
    BY DEF Change
  <1>2. Told(kind, entity[kind], promised[kind]) /\ ~Overrules(call) =>
          Told(kind, row, Promise(promised[kind], call))
    OBVIOUS
  <1>3. kind \in DOMAIN entity /\ saves[kind] \in Nat
    BY DEF On, RecordInv, RecordTyped
  <1>4. call.kind = kind /\ call.row = row /\ call.base = saves[kind]
    OBVIOUS
  <1> HIDE DEF call
  <1>5. CallSound(call)
    BY <1>1, <1>2, <1>3, <1>4 DEF CallSound, RecordInv
  <1>6. \A d \in Callers : copy'[d] = IF d = c THEN call ELSE copy[d]
    BY <1>1 DEF RecordInv, RecordTyped
  <1>7. RecordTyped'
    BY <1>1 DEF RecordInv, RecordTyped
  <1>8. \A k \in DOMAIN entity' \ (outrun \cup overruled)' : Told(k, entity[k], promised[k])'
    BY <1>1 DEF RecordInv
  <1>9. ASSUME NEW d \in Callers, copy'[d] # NoCopy PROVE CallSound(copy[d])'
    <2>1. CallSound(copy'[d])
      BY <1>5, <1>6, <1>9 DEF RecordInv
    <2> QED BY <1>1, <2>1 DEF CallSound, Overrules
  <1> QED BY <1>7, <1>8, <1>9 DEF RecordInv

\* A save over a save of another makes the kind outrun, one of a request that gives the
\* promised field overruled; the copies of others are stale from then on.
LEMMA SaveCopyKeeps ==
    ASSUME RecordInv, NEW c \in Callers, SaveCopy(c)
    PROVE  RecordInv'
  <1> DEFINE kind == copy[c].kind
  <1>1. /\ CallSound(copy[c]) /\ copy[c] # NoCopy
        /\ entity' = [entity EXCEPT ![kind] = copy[c].row]
        /\ saves' = [saves EXCEPT ![kind] = @ + 1]
        /\ promised' = [promised EXCEPT ![kind] = Promise(promised[kind], copy[c])]
        /\ outrun' = outrun \cup (IF copy[c].base = saves[kind] THEN {} ELSE {kind})
        /\ overruled' = overruled \cup (IF Overrules(copy[c]) THEN {kind} ELSE {})
        /\ copy' = [copy EXCEPT ![c] = NoCopy]
    BY DEF SaveCopy, RecordInv
  <1>2. kind \in DOMAIN entity /\ DOMAIN entity' = DOMAIN entity
    BY <1>1 DEF CallSound
  <1>3. RecordTyped'
    <2>1. /\ entity' = [k \in DOMAIN entity' |-> entity'[k]]
          /\ DOMAIN entity' \subseteq DOMAIN Fields
          /\ saves' \in [DOMAIN entity' -> Nat]
          /\ promised' = [k \in DOMAIN entity' |-> promised'[k]]
          /\ copy' = [d \in Callers |-> copy'[d]]
      <3> HIDE DEF kind
      <3>1. /\ entity' = [k \in DOMAIN entity' |-> entity'[k]]
            /\ DOMAIN entity' \subseteq DOMAIN Fields
        BY <1>1, <1>2 DEF RecordInv, RecordTyped
      <3>2. saves' \in [DOMAIN entity' -> Nat]
        BY <1>1, <1>2 DEF RecordInv, RecordTyped
      <3>3. promised' = [k \in DOMAIN entity' |-> promised'[k]]
        BY <1>1, <1>2 DEF RecordInv, RecordTyped
      <3>4. copy' = [d \in Callers |-> copy'[d]]
        BY <1>1 DEF RecordInv, RecordTyped
      <3> QED BY <3>1, <3>2, <3>3, <3>4
    <2>2. ASSUME NEW k \in DOMAIN entity
          PROVE  IsRecord(k, entity'[k]) /\ ValidMetadata(k, entity'[k])
      BY <1>1, <1>2 DEF RecordInv, RecordTyped, CallSound
    <2> QED BY <1>2, <2>1, <2>2 DEF RecordTyped
  <1>4. ASSUME NEW k \in DOMAIN entity' \ (outrun \cup overruled)'
        PROVE  Told(k, entity[k], promised[k])'
    <2>1. CASE k = kind
      <3>1. k \notin outrun \cup overruled /\ copy[c].base = saves[kind] /\ ~Overrules(copy[c])
        BY <1>1, <1>4, <2>1
      <3>2. entity'[k] = copy[c].row /\ promised'[k] = Promise(promised[kind], copy[c])
        BY <1>1, <1>2, <2>1 DEF RecordInv, RecordTyped
      <3>3. Told(k, entity'[k], promised'[k])
        BY <1>1, <2>1, <3>1, <3>2 DEF CallSound
      <3> QED BY <3>3 DEF Told
    <2>2. CASE k # kind
      <3>1. /\ entity'[k] = entity[k] /\ promised'[k] = promised[k]
            /\ k \in DOMAIN entity \ (outrun \cup overruled)
        BY <1>1, <1>2, <1>4, <2>2 DEF RecordInv, RecordTyped
      <3> QED BY <3>1 DEF RecordInv, Told
    <2> QED BY <2>1, <2>2
  <1>5. ASSUME NEW d \in Callers, copy'[d] # NoCopy PROVE CallSound(copy[d])'
    <2> DEFINE k == copy[d].kind
    <2>1. copy'[d] = copy[d] /\ CallSound(copy[d])
      BY <1>1, <1>5 DEF RecordInv, RecordTyped
    <2>2. /\ k \in DOMAIN entity' /\ IsRecord(k, copy[d].row) /\ ValidMetadata(k, copy[d].row)
          /\ copy[d].base \in Nat
      BY <1>2, <2>1 DEF CallSound
    <2>3. CASE k = kind
      <3>1. saves'[k] = saves[k] + 1 /\ saves[k] \in Nat /\ copy[d].base <= saves[k]
        BY <1>1, <1>2, <2>1, <2>3 DEF RecordInv, RecordTyped, CallSound
      <3>2. copy[d].base <= saves'[k] /\ copy[d].base # saves'[k]
        BY <2>2, <3>1
      <3> QED BY <2>1, <2>2, <3>2 DEF CallSound, Overrules
    <2>4. CASE k # kind
      <3>1. /\ saves'[k] = saves[k] /\ promised'[k] = promised[k]
            /\ k \in (outrun \cup overruled)' <=> k \in outrun \cup overruled
        BY <1>1, <1>2, <2>2, <2>4 DEF RecordInv, RecordTyped
      <3> QED BY <2>1, <2>2, <3>1 DEF CallSound, Overrules
    <2> QED BY <2>3, <2>4
  <1> QED BY <1>3, <1>4, <1>5 DEF RecordInv

\* The records of each kind.
LEMMA RecordsAre ==
    ASSUME NEW row
    PROVE  /\ IsRecord("production", row) <=>
                 row \in [stage : StageNames \cup {Absent}, status : {"active", "archived"}]
           /\ IsRecord("preview_hold", row) <=>
                 row \in [lift_at : LiftTimes \cup {Absent}, manually_lifted : BOOLEAN]
           /\ IsRecord("performance", row) <=>
                 row \in [capacity : Nat, sold : Nat, held : Nat]
           /\ IsRecord("prop_asset", row) <=>
                 row \in [condition : {"good", "retired"}, checked_out_to : Cast \cup {Nobody}]
           /\ IsRecord("program", row) <=>
                 row \in [sections : Seq(Titles), credits : SUBSET Titles, published : BOOLEAN]
           /\ IsRecord("showbook", row) <=>
                 row \in [sections : SUBSET Titles, revision : Nat, locked : BOOLEAN]
           /\ IsRecord("role_track", row) <=>
                 row \in [primary_cast_id : Cast \cup {Nobody}, understudy_ids : SUBSET Cast]
  <1>1. IsRecord("production", row) <=>
          row \in [stage : StageNames \cup {Absent}, status : {"active", "archived"}]
    BY DEF IsRecord, Fields
  <1>2. IsRecord("preview_hold", row) <=>
          row \in [lift_at : LiftTimes \cup {Absent}, manually_lifted : BOOLEAN]
    BY DEF IsRecord, Fields
  <1>3. IsRecord("performance", row) <=> row \in [capacity : Nat, sold : Nat, held : Nat]
    BY DEF IsRecord, Fields
  <1>4. IsRecord("prop_asset", row) <=>
          row \in [condition : {"good", "retired"}, checked_out_to : Cast \cup {Nobody}]
    BY DEF IsRecord, Fields
  <1>5. IsRecord("program", row) <=>
          row \in [sections : Seq(Titles), credits : SUBSET Titles, published : BOOLEAN]
    BY DEF IsRecord, Fields
  <1>6. IsRecord("showbook", row) <=>
          row \in [sections : SUBSET Titles, revision : Nat, locked : BOOLEAN]
    BY DEF IsRecord, Fields
  <1>7. IsRecord("role_track", row) <=>
          row \in [primary_cast_id : Cast \cup {Nobody}, understudy_ids : SUBSET Cast]
    BY DEF IsRecord, Fields
  <1> QED BY <1>1, <1>2, <1>3, <1>4, <1>5, <1>6, <1>7

\* A record that agrees with another in the promised fields makes the same promise.
LEMMA PromiseIsOfItsFields ==
    ASSUME NEW kind \in DOMAIN Fields, NEW row, NEW old,
           \A f \in PromisedFields[kind] : row[f] = old[f]
    PROVE  PromiseOf(kind, row) = PromiseOf(kind, old)
  <1>1. kind \in {"production", "preview_hold", "performance", "prop_asset", "program",
                 "showbook", "role_track"}
    BY DEF Fields
  <1>2. CASE kind = "production"
    <2>1. row.stage = old.stage
      BY <1>2 DEF PromisedFields
    <2> QED BY <1>2, <2>1 DEF PromiseOf, StageOf
  <1>3. CASE kind = "preview_hold"
    <2>1. row.lift_at = old.lift_at /\ row.manually_lifted = old.manually_lifted
      BY <1>3 DEF PromisedFields
    <2> QED BY <1>3, <2>1 DEF PromiseOf
  <1>4. CASE kind = "performance"
    BY <1>4 DEF PromisedFields, PromiseOf
  <1>5. CASE kind = "prop_asset"
    BY <1>5 DEF PromisedFields, PromiseOf
  <1>6. CASE kind = "program"
    <2>1. /\ row.sections = old.sections /\ row.credits = old.credits
          /\ row.published = old.published
      BY <1>6 DEF PromisedFields
    <2> QED BY <1>6, <2>1 DEF PromiseOf
  <1>7. CASE kind = "showbook"
    <2>1. row.sections = old.sections /\ row.locked = old.locked
      BY <1>7 DEF PromisedFields
    <2> QED BY <1>7, <2>1 DEF PromiseOf
  <1>8. CASE kind = "role_track"
    BY <1>8 DEF PromisedFields, PromiseOf
  <1> QED BY <1>1, <1>2, <1>3, <1>4, <1>5, <1>6, <1>7, <1>8

\* An update merges values of the fields; what it does not overrule stays promised.
LEMMA UpdateKeeps ==
    ASSUME RecordInv, NEW c \in Callers, NEW kind \in DOMAIN entity,
           NEW values \in Updates[kind], Update(c, kind, values)
    PROVE  RecordInv'
  <1> DEFINE row == [f \in DOMAIN entity[kind] |->
                       IF f \in DOMAIN values THEN values[f] ELSE entity[kind][f]]
             call == [kind |-> kind, operation |-> "update", told |-> DOMAIN values,
                      row |-> row, base |-> saves[kind]]
  <1>1. /\ kind \in DOMAIN Fields /\ DOMAIN entity[kind] = DOMAIN Fields[kind]
        /\ \A f \in DOMAIN Fields[kind] : entity[kind][f] \in Fields[kind][f]
    BY DEF RecordInv, RecordTyped, IsRecord
  <1>2. \A f \in DOMAIN values \cap DOMAIN Fields[kind] : values[f] \in Fields[kind][f]
    BY <1>1, RecordsAssumption
  <1>3. IsRecord(kind, row)
    BY <1>1, <1>2 DEF IsRecord
  <1>4. Change(c, kind, "update", DOMAIN values, row) /\ On(kind)
    BY DEF Update, On
  <1>5. PromisedFields[kind] \subseteq DOMAIN Fields[kind]
    BY <1>1 DEF PromisedFields, Fields
  <1>6. ASSUME Told(kind, entity[kind], promised[kind]), ~Overrules(call)
        PROVE  Told(kind, row, Promise(promised[kind], call))
    <2>1. PromisedFields[kind] \cap DOMAIN values = {}
      BY <1>6 DEF Overrules
    <2>2. \A f \in PromisedFields[kind] : row[f] = entity[kind][f]
      BY <1>1, <1>5, <2>1
    <2> HIDE DEF row
    <2>3. PromiseOf(kind, row) = PromiseOf(kind, entity[kind])
      BY <1>1, <2>2, PromiseIsOfItsFields
    <2>4. Promise(promised[kind], call) = promised[kind]
      BY DEF Promise
    <2> QED BY <1>6, <2>3, <2>4 DEF Told
  <1> HIDE DEF row
  <1> QED BY <1>3, <1>4, <1>6, ChangeKeeps

\* A hold is extended past the moment it lasts until.
LEMMA ExtendKeeps ==
    ASSUME RecordInv, NEW c \in Callers, NEW moment \in LiftTimes, ExtendUntil(c, moment)
    PROVE  RecordInv'
  <1> DEFINE old == entity["preview_hold"]
             row == [lift_at |-> moment, manually_lifted |-> FALSE]
             call == [kind |-> "preview_hold", operation |-> "extend_until", told |-> moment,
                      row |-> row, base |-> saves["preview_hold"]]
  <1>1. On("preview_hold") /\ Change(c, "preview_hold", "extend_until", moment, row)
    BY DEF ExtendUntil
  <1>2. old \in [lift_at : LiftTimes \cup {Absent}, manually_lifted : BOOLEAN]
    BY <1>1, RecordsAre DEF On, RecordInv, RecordTyped
  <1>3. row \in [lift_at : LiftTimes \cup {Absent}, manually_lifted : BOOLEAN]
    BY <1>2, LifecycleAssumption, RecordsAssumption
  <1>4. ASSUME Told("preview_hold", old, promised["preview_hold"])
        PROVE  Told("preview_hold", row, Promise(promised["preview_hold"], call))
    <2>1. promised["preview_hold"] = PromiseOf("preview_hold", old)
      BY <1>4 DEF Told
    <2>2. Promise(promised["preview_hold"], call) = PromiseOf("preview_hold", row)
      BY <1>2, <2>1, LifecycleAssumption, RecordsAssumption DEF Promise, PromiseOf,
         ExtendUntil, Later
    <2> QED BY <2>2 DEF Told
  <1>5. IsRecord("preview_hold", row)
    BY <1>3, RecordsAre
  <1> QED BY <1>1, <1>4, <1>5, ChangeKeeps

\* A hold that is lifted holds nothing.
LEMMA LiftKeeps ==
    ASSUME RecordInv, NEW c \in Callers, Lift(c)
    PROVE  RecordInv'
  <1> DEFINE old == entity["preview_hold"]
             row == [old EXCEPT !.manually_lifted = TRUE]
             call == [kind |-> "preview_hold", operation |-> "lift", told |-> Absent,
                      row |-> row, base |-> saves["preview_hold"]]
  <1>1. On("preview_hold") /\ Change(c, "preview_hold", "lift", Absent, row)
    BY DEF Lift
  <1>2. old \in [lift_at : LiftTimes \cup {Absent}, manually_lifted : BOOLEAN]
    BY <1>1, RecordsAre DEF On, RecordInv, RecordTyped
  <1>3. row \in [lift_at : LiftTimes \cup {Absent}, manually_lifted : BOOLEAN]
    BY <1>2
  <1>4. ASSUME Told("preview_hold", old, promised["preview_hold"])
        PROVE  Told("preview_hold", row, Promise(promised["preview_hold"], call))
    <2>1. promised["preview_hold"] = PromiseOf("preview_hold", old)
      BY <1>4 DEF Told
    <2>2. Promise(promised["preview_hold"], call) = PromiseOf("preview_hold", row)
      BY <1>2, <2>1 DEF Promise, PromiseOf, Lift
    <2> QED BY <2>2 DEF Told
  <1>5. IsRecord("preview_hold", row)
    BY <1>3, RecordsAre
  <1> QED BY <1>1, <1>4, <1>5, ChangeKeeps

\* The seats sold are added to those sold before.
LEMMA SalesKeep ==
    ASSUME RecordInv, NEW c \in Callers, NEW quantity \in 1..2, RecordSales(c, quantity)
    PROVE  RecordInv'
  <1> DEFINE old == entity["performance"]
             row == [old EXCEPT !.sold = @ + quantity]
             call == [kind |-> "performance", operation |-> "record_sales", told |-> quantity,
                      row |-> row, base |-> saves["performance"]]
  <1>1. On("performance") /\ Change(c, "performance", "record_sales", quantity, row)
    BY DEF RecordSales
  <1>2. old \in [capacity : Nat, sold : Nat, held : Nat]
    BY <1>1, RecordsAre DEF On, RecordInv, RecordTyped
  <1>3. row \in [capacity : Nat, sold : Nat, held : Nat]
    BY <1>2
  <1>4. ASSUME Told("performance", old, promised["performance"])
        PROVE  Told("performance", row, Promise(promised["performance"], call))
    <2>1. promised["performance"] = PromiseOf("performance", old)
      BY <1>4 DEF Told
    <2>2. Promise(promised["performance"], call) = PromiseOf("performance", row)
      BY <1>2, <2>1 DEF Promise, PromiseOf, RecordSales
    <2> QED BY <2>2 DEF Told
  <1>5. IsRecord("performance", row)
    BY <1>3, RecordsAre
  <1> QED BY <1>1, <1>4, <1>5, ChangeKeeps

\* An asset is checked out to one person, as it was out to nobody.
LEMMA CheckOutKeeps ==
    ASSUME RecordInv, NEW c \in Callers, NEW person \in Cast, CheckOut(c, person)
    PROVE  RecordInv'
  <1> DEFINE old == entity["prop_asset"]
             row == [old EXCEPT !.checked_out_to = person]
             call == [kind |-> "prop_asset", operation |-> "check_out", told |-> person,
                      row |-> row, base |-> saves["prop_asset"]]
  <1>1. On("prop_asset") /\ Change(c, "prop_asset", "check_out", person, row)
    BY DEF CheckOut
  <1>2. old \in [condition : {"good", "retired"}, checked_out_to : Cast \cup {Nobody}]
    BY <1>1, RecordsAre DEF On, RecordInv, RecordTyped
  <1>3. row \in [condition : {"good", "retired"}, checked_out_to : Cast \cup {Nobody}]
    BY <1>2, LifecycleAssumption
  <1>4. ASSUME Told("prop_asset", old, promised["prop_asset"])
        PROVE  Told("prop_asset", row, Promise(promised["prop_asset"], call))
    <2>1. promised["prop_asset"] = PromiseOf("prop_asset", old)
      BY <1>4 DEF Told
    <2>2. Promise(promised["prop_asset"], call) = PromiseOf("prop_asset", row)
      BY <1>2, <2>1, LifecycleAssumption DEF Promise, PromiseOf, CheckOut
    <2> QED BY <2>2 DEF Told
  <1>5. IsRecord("prop_asset", row)
    BY <1>3, RecordsAre
  <1> QED BY <1>1, <1>4, <1>5, ChangeKeeps

\* An asset that is returned is out to nobody.
LEMMA ReturnKeeps ==
    ASSUME RecordInv, NEW c \in Callers, ReturnTo(c)
    PROVE  RecordInv'
  <1> DEFINE old == entity["prop_asset"]
             row == [old EXCEPT !.checked_out_to = Nobody]
             call == [kind |-> "prop_asset", operation |-> "return_to", told |-> Absent,
                      row |-> row, base |-> saves["prop_asset"]]
  <1>1. On("prop_asset") /\ Change(c, "prop_asset", "return_to", Absent, row)
    BY DEF ReturnTo
  <1>2. old \in [condition : {"good", "retired"}, checked_out_to : Cast \cup {Nobody}]
    BY <1>1, RecordsAre DEF On, RecordInv, RecordTyped
  <1>3. row \in [condition : {"good", "retired"}, checked_out_to : Cast \cup {Nobody}]
    BY <1>2
  <1>4. ASSUME Told("prop_asset", old, promised["prop_asset"])
        PROVE  Told("prop_asset", row, Promise(promised["prop_asset"], call))
    <2>1. promised["prop_asset"] = PromiseOf("prop_asset", old)
      BY <1>4 DEF Told
    <2>2. Promise(promised["prop_asset"], call) = PromiseOf("prop_asset", row)
      BY <1>2, <2>1 DEF Promise, PromiseOf, ReturnTo
    <2> QED BY <2>2 DEF Told
  <1>5. IsRecord("prop_asset", row)
    BY <1>3, RecordsAre
  <1> QED BY <1>1, <1>4, <1>5, ChangeKeeps

\* The condition of an asset does not tell who has it.
LEMMA ConditionKeeps ==
    ASSUME RecordInv, NEW c \in Callers, NEW condition \in {"good", "retired"},
           SetCondition(c, condition)
    PROVE  RecordInv'
  <1> DEFINE old == entity["prop_asset"]
             row == [old EXCEPT !.condition = condition]
             call == [kind |-> "prop_asset", operation |-> "set_condition", told |-> condition,
                      row |-> row, base |-> saves["prop_asset"]]
  <1>1. On("prop_asset") /\ Change(c, "prop_asset", "set_condition", condition, row)
    BY DEF SetCondition
  <1>2. old \in [condition : {"good", "retired"}, checked_out_to : Cast \cup {Nobody}]
    BY <1>1, RecordsAre DEF On, RecordInv, RecordTyped
  <1>3. row \in [condition : {"good", "retired"}, checked_out_to : Cast \cup {Nobody}]
    BY <1>2
  <1>4. ASSUME Told("prop_asset", old, promised["prop_asset"])
        PROVE  Told("prop_asset", row, Promise(promised["prop_asset"], call))
    <2>1. promised["prop_asset"] = PromiseOf("prop_asset", old)
      BY <1>4 DEF Told
    <2>2. Promise(promised["prop_asset"], call) = PromiseOf("prop_asset", row)
      BY <1>2, <2>1 DEF Promise, PromiseOf, SetCondition
    <2> QED BY <2>2 DEF Told
  <1>5. IsRecord("prop_asset", row)
    BY <1>3, RecordsAre
  <1> QED BY <1>1, <1>4, <1>5, ChangeKeeps

\* A program that gets a section is not published.
LEMMA AddProgramKeeps ==
    ASSUME RecordInv, NEW c \in Callers, NEW title \in Titles, AddProgramSection(c, title)
    PROVE  RecordInv'
  <1> DEFINE old == entity["program"]
             row == [old EXCEPT !.sections = Append(@, title)]
             call == [kind |-> "program", operation |-> "add", told |-> title,
                      row |-> row, base |-> saves["program"]]
  <1>1. On("program") /\ Change(c, "program", "add", title, row)
    BY DEF AddProgramSection
  <1>2. old \in [sections : Seq(Titles), credits : SUBSET Titles, published : BOOLEAN]
    BY <1>1, RecordsAre DEF On, RecordInv, RecordTyped
  <1>3. row \in [sections : Seq(Titles), credits : SUBSET Titles, published : BOOLEAN]
    <2>1. Append(old.sections, title) \in Seq(Titles)
      BY <1>2
    <2> QED BY <1>2, <2>1
  <1>4. ASSUME Told("program", old, promised["program"])
        PROVE  Told("program", row, Promise(promised["program"], call))
    <2>1. promised["program"] = PromiseOf("program", old)
      BY <1>4 DEF Told
    <2>2. Promise(promised["program"], call) = PromiseOf("program", row)
      BY <1>2, <2>1 DEF Promise, PromiseOf, AddProgramSection
    <2> QED BY <2>2 DEF Told
  <1>5. IsRecord("program", row)
    BY <1>3, RecordsAre
  <1> QED BY <1>1, <1>4, <1>5, ChangeKeeps

\* A program that gets a credit is not published.
LEMMA AddCreditKeeps ==
    ASSUME RecordInv, NEW c \in Callers, NEW title \in Titles, AddCredit(c, title)
    PROVE  RecordInv'
  <1> DEFINE old == entity["program"]
             row == [old EXCEPT !.credits = @ \cup {title}]
             call == [kind |-> "program", operation |-> "add", told |-> title,
                      row |-> row, base |-> saves["program"]]
  <1>1. On("program") /\ Change(c, "program", "add", title, row)
    BY DEF AddCredit
  <1>2. old \in [sections : Seq(Titles), credits : SUBSET Titles, published : BOOLEAN]
    BY <1>1, RecordsAre DEF On, RecordInv, RecordTyped
  <1>3. row \in [sections : Seq(Titles), credits : SUBSET Titles, published : BOOLEAN]
    BY <1>2
  <1>4. ASSUME Told("program", old, promised["program"])
        PROVE  Told("program", row, Promise(promised["program"], call))
    <2>1. promised["program"] = PromiseOf("program", old)
      BY <1>4 DEF Told
    <2>2. Promise(promised["program"], call) = PromiseOf("program", row)
      BY <1>2, <2>1 DEF Promise, PromiseOf, AddCredit
    <2> QED BY <2>2 DEF Told
  <1>5. IsRecord("program", row)
    BY <1>3, RecordsAre
  <1> QED BY <1>1, <1>4, <1>5, ChangeKeeps

\* The caller that publishes a program is told its contents.
LEMMA ProgramKeeps ==
    ASSUME RecordInv, NEW c \in Callers, Publish(c)
    PROVE  RecordInv'
  <1> DEFINE old == entity["program"]
             row == [old EXCEPT !.published = TRUE]
             call == [kind |-> "program", operation |-> "publish", told |-> Absent,
                      row |-> row, base |-> saves["program"]]
  <1>1. On("program") /\ Change(c, "program", "publish", Absent, row)
    BY DEF Publish
  <1>2. old \in [sections : Seq(Titles), credits : SUBSET Titles, published : BOOLEAN]
    BY <1>1, RecordsAre DEF On, RecordInv, RecordTyped
  <1>3. row \in [sections : Seq(Titles), credits : SUBSET Titles, published : BOOLEAN]
    BY <1>2
  <1>4. ASSUME Told("program", old, promised["program"])
        PROVE  Told("program", row, Promise(promised["program"], call))
    <2>1. promised["program"] = PromiseOf("program", old)
      BY <1>4 DEF Told
    <2>2. Promise(promised["program"], call) = PromiseOf("program", row)
      BY <1>2, <2>1 DEF Promise, PromiseOf, Publish
    <2> QED BY <2>2 DEF Told
  <1>5. IsRecord("program", row)
    BY <1>3, RecordsAre
  <1> QED BY <1>1, <1>4, <1>5, ChangeKeeps

\* A showbook that gets a section is not locked.
LEMMA AddSectionKeeps ==
    ASSUME RecordInv, NEW c \in Callers, NEW title \in Titles, AddSection(c, title)
    PROVE  RecordInv'
  <1> DEFINE old == entity["showbook"]
             row == [old EXCEPT !.sections = @ \cup {title}, !.revision = @ + 1]
             call == [kind |-> "showbook", operation |-> "add", told |-> title,
                      row |-> row, base |-> saves["showbook"]]
  <1>1. On("showbook") /\ Change(c, "showbook", "add", title, row)
    BY DEF AddSection
  <1>2. old \in [sections : SUBSET Titles, revision : Nat, locked : BOOLEAN]
    BY <1>1, RecordsAre DEF On, RecordInv, RecordTyped
  <1>3. row \in [sections : SUBSET Titles, revision : Nat, locked : BOOLEAN]
    <2>1. old.sections \cup {title} \in SUBSET Titles /\ old.revision + 1 \in Nat
      BY <1>2
    <2> QED BY <1>2, <2>1
  <1>4. ASSUME Told("showbook", old, promised["showbook"])
        PROVE  Told("showbook", row, Promise(promised["showbook"], call))
    <2>1. promised["showbook"] = PromiseOf("showbook", old)
      BY <1>4 DEF Told
    <2>2. Promise(promised["showbook"], call) = PromiseOf("showbook", row)
      BY <1>2, <2>1 DEF Promise, PromiseOf, AddSection
    <2> QED BY <2>2 DEF Told
  <1>5. IsRecord("showbook", row)
    BY <1>3, RecordsAre
  <1> QED BY <1>1, <1>4, <1>5, ChangeKeeps

\* The caller that locks or unlocks a showbook is told its sections, or nothing.
LEMMA LockKeeps ==
    ASSUME RecordInv, NEW c \in Callers, NEW locked \in BOOLEAN, Lock(c, locked)
    PROVE  RecordInv'
  <1> DEFINE old == entity["showbook"]
             row == [old EXCEPT !.locked = locked]
             call == [kind |-> "showbook", operation |-> IF locked THEN "lock" ELSE "unlock",
                      told |-> Absent,
                      row |-> row, base |-> saves["showbook"]]
  <1>1. On("showbook") /\ Change(c, "showbook", IF locked THEN "lock" ELSE "unlock", Absent, row)
    BY DEF Lock
  <1>2. old \in [sections : SUBSET Titles, revision : Nat, locked : BOOLEAN]
    BY <1>1, RecordsAre DEF On, RecordInv, RecordTyped
  <1>3. row \in [sections : SUBSET Titles, revision : Nat, locked : BOOLEAN]
    BY <1>2
  <1>4. ASSUME Told("showbook", old, promised["showbook"])
        PROVE  Told("showbook", row, Promise(promised["showbook"], call))
    <2>1. promised["showbook"] = PromiseOf("showbook", old)
      BY <1>4 DEF Told
    <2>2. Promise(promised["showbook"], call) = PromiseOf("showbook", row)
      BY <1>2, <2>1 DEF Promise, PromiseOf, Lock
    <2> QED BY <2>2 DEF Told
  <1>5. IsRecord("showbook", row)
    BY <1>3, RecordsAre
  <1> QED BY <1>1, <1>4, <1>5, ChangeKeeps

\* A new primary does not change the understudies.
LEMMA PrimaryKeeps ==
    ASSUME RecordInv, NEW c \in Callers, NEW person \in Cast \cup {Nobody},
           AssignPrimary(c, person)
    PROVE  RecordInv'
  <1> DEFINE old == entity["role_track"]
             row == [old EXCEPT !.primary_cast_id = person]
             call == [kind |-> "role_track", operation |-> "assign_primary", told |-> person,
                      row |-> row, base |-> saves["role_track"]]
  <1>1. On("role_track") /\ Change(c, "role_track", "assign_primary", person, row)
    BY DEF AssignPrimary
  <1>2. old \in [primary_cast_id : Cast \cup {Nobody}, understudy_ids : SUBSET Cast]
    BY <1>1, RecordsAre DEF On, RecordInv, RecordTyped
  <1>3. row \in [primary_cast_id : Cast \cup {Nobody}, understudy_ids : SUBSET Cast]
    BY <1>2
  <1>4. ASSUME Told("role_track", old, promised["role_track"])
        PROVE  Told("role_track", row, Promise(promised["role_track"], call))
    <2>1. promised["role_track"] = PromiseOf("role_track", old)
      BY <1>4 DEF Told
    <2>2. Promise(promised["role_track"], call) = PromiseOf("role_track", row)
      BY <1>2, <2>1 DEF Promise, PromiseOf, AssignPrimary
    <2> QED BY <2>2 DEF Told
  <1>5. IsRecord("role_track", row)
    BY <1>3, RecordsAre
  <1> QED BY <1>1, <1>4, <1>5, ChangeKeeps

\* An understudy is added to those there are.
LEMMA UnderstudyKeeps ==
    ASSUME RecordInv, NEW c \in Callers, NEW person \in Cast, AddUnderstudy(c, person)
    PROVE  RecordInv'
  <1> DEFINE old == entity["role_track"]
             row == [old EXCEPT !.understudy_ids = @ \cup {person}]
             call == [kind |-> "role_track", operation |-> "add_understudy", told |-> person,
                      row |-> row, base |-> saves["role_track"]]
  <1>1. On("role_track") /\ Change(c, "role_track", "add_understudy", person, row)
    BY DEF AddUnderstudy
  <1>2. old \in [primary_cast_id : Cast \cup {Nobody}, understudy_ids : SUBSET Cast]
    BY <1>1, RecordsAre DEF On, RecordInv, RecordTyped
  <1>3. row \in [primary_cast_id : Cast \cup {Nobody}, understudy_ids : SUBSET Cast]
    BY <1>2
  <1>4. ASSUME Told("role_track", old, promised["role_track"])
        PROVE  Told("role_track", row, Promise(promised["role_track"], call))
    <2>1. promised["role_track"] = PromiseOf("role_track", old)
      BY <1>4 DEF Told
    <2>2. Promise(promised["role_track"], call) = PromiseOf("role_track", row)
      BY <1>2, <2>1 DEF Promise, PromiseOf, AddUnderstudy
    <2> QED BY <2>2 DEF Told
  <1>5. IsRecord("role_track", row)
    BY <1>3, RecordsAre
  <1> QED BY <1>1, <1>4, <1>5, ChangeKeeps

\* A stage has its place in the order of the stages.
LEMMA StageIndexIs ==
    ASSUME NEW stage \in StageNames
    PROVE  StageIndex(stage) \in 1..5
  <1>1. \E i \in DOMAIN ALLOWED_STAGES : ALLOWED_STAGES[i] = stage
    BY DEF StageNames
  <1>2. DOMAIN ALLOWED_STAGES = 1..5
    BY DEF ALLOWED_STAGES
  <1> QED BY <1>1, <1>2 DEF StageIndex

\* Where a production starts.
LEMMA PlanningIsFirst == StageIndex("planning") = 1
  <1>1. /\ DOMAIN ALLOWED_STAGES = 1..5 /\ ALLOWED_STAGES[1] = "planning"
        /\ \A i \in 2..5 : ALLOWED_STAGES[i] # "planning"
    BY DEF ALLOWED_STAGES
  <1>2. \A i \in DOMAIN ALLOWED_STAGES : ALLOWED_STAGES[i] = "planning" <=> i = 1
    BY <1>1
  <1> QED BY <1>1, <1>2 DEF StageIndex

\* A stage that is set, alone or in the pipeline, is no earlier than the one before.
LEMMA StageKeeps ==
    ASSUME RecordInv, NEW c \in Callers, NEW stage, stage # Absent, On("production"),
           WorkflowAscends => StageIndex(stage) >= StageIndex(StageOf(entity["production"])),
           Change(c, "production", "set_stage", stage, [entity["production"] EXCEPT !.stage = stage])
    PROVE  RecordInv'
  <1> DEFINE old == entity["production"]
             row == [old EXCEPT !.stage = stage]
             call == [kind |-> "production", operation |-> "set_stage", told |-> stage,
                      row |-> row, base |-> saves["production"]]
  <1>1. /\ old \in [stage : StageNames \cup {Absent}, status : {"active", "archived"}]
        /\ ValidProduction(old)
    BY RecordsAre DEF On, RecordInv, RecordTyped, ValidMetadata
  <1>2. stage \in StageNames
    BY <1>1 DEF Change, ValidMetadata, ValidProduction
  <1>3. row \in [stage : StageNames \cup {Absent}, status : {"active", "archived"}]
    BY <1>1, <1>2
  <1>4. StageOf(row) = stage /\ StageOf(old) \in StageNames
    <2>1. "planning" \in StageNames
      BY DEF StageNames, ALLOWED_STAGES
    <2> QED BY <1>1, <1>2, <2>1 DEF StageOf
  <1>5. ASSUME Told("production", old, promised["production"])
        PROVE  Told("production", row, Promise(promised["production"], call))
    <2> SUFFICES ASSUME WorkflowAscends
                 PROVE  Promise(promised["production"], call) = PromiseOf("production", row)
      BY DEF Told
    <2>1. promised["production"] = StageIndex(StageOf(old))
      BY <1>5 DEF Told, PromiseOf
    <2>2. /\ StageIndex(stage) \in Nat /\ StageIndex(StageOf(old)) \in Nat
          /\ StageIndex(stage) >= StageIndex(StageOf(old))
      BY <1>2, <1>4, StageIndexIs
    <2>3. Promise(promised["production"], call) = Later(promised["production"], StageIndex(stage))
      BY DEF Promise
    <2>4. PromiseOf("production", row) = StageIndex(stage)
      BY <1>4 DEF PromiseOf
    <2> QED BY <2>1, <2>2, <2>3, <2>4 DEF Later
  <1>6. IsRecord("production", row)
    BY <1>3, RecordsAre
  <1> QED BY <1>5, <1>6, ChangeKeeps

\* Setting a stage by its name is a change to that stage.
LEMMA SetStageKeeps ==
    ASSUME RecordInv, NEW c \in Callers, NEW stage \in StageNames, SetStage(c, stage)
    PROVE  RecordInv'
  <1>1. stage # Absent
    BY RecordsAssumption
  <1> QED BY <1>1, StageKeeps DEF SetStage

\* Advancing goes to the stage after the one the production is in, never to an earlier one.
LEMMA AdvanceKeeps ==
    ASSUME RecordInv, NEW c \in Callers, Advance(c)
    PROVE  RecordInv'
  <1> DEFINE old == entity["production"]
  <1>1. On("production")
    BY DEF Advance
  <1>2. PICK stage \in NextStage(PipelineStage(old)) :
          Change(c, "production", "set_stage", stage, [old EXCEPT !.stage = stage])
    BY DEF Advance
  <1>3. PICK i \in 1..(Len(Workflow) - 1) :
          Workflow[i] = PipelineStage(old) /\ stage = Workflow[i + 1]
    BY <1>2 DEF NextStage
  <1>4. i \in DOMAIN Workflow /\ i + 1 \in DOMAIN Workflow /\ i < i + 1
    BY <1>3, LifecycleAssumption
  <1>5. stage # Absent
    BY <1>3, <1>4, RecordsAssumption
  <1>6. WorkflowAscends => StageIndex(stage) >= StageIndex(StageOf(old))
    <2> SUFFICES ASSUME WorkflowAscends PROVE StageIndex(stage) >= StageIndex(StageOf(old))
      OBVIOUS
    <2>1. old \in [stage : StageNames \cup {Absent}, status : {"active", "archived"}]
      BY <1>1, RecordsAre DEF On, RecordInv, RecordTyped
    <2>2. stage \in StageNames
      BY <1>2, <1>5, <2>1 DEF Change, ValidMetadata, ValidProduction
    <2>3. CASE old.stage = Absent
      <3>1. StageOf(old) = "planning" /\ StageIndex("planning") = 1
        BY <2>3, PlanningIsFirst DEF StageOf
      <3> QED BY <2>2, <3>1, StageIndexIs
    <2>4. CASE old.stage # Absent
      <3>1. old.stage \in StageNames /\ Workflow[i] = old.stage /\ StageOf(old) = old.stage
        BY <1>3, <2>1, <2>4 DEF PipelineStage, StageOf
      <3>2. StageIndex(old.stage) < StageIndex(stage)
        BY <1>3, <1>4, <2>2, <3>1 DEF WorkflowAscends
      <3> QED BY <2>2, <3>1, <3>2, StageIndexIs
    <2> QED BY <2>3, <2>4
  <1> QED BY <1>1, <1>2, <1>5, <1>6, StageKeeps

\* A copy that is dropped was never stored.
LEMMA CopyLostKeeps ==
    ASSUME RecordInv, NEW c \in Callers, CopyLost(c)
    PROVE  RecordInv'
  <1>1. /\ copy' = [copy EXCEPT ![c] = NoCopy]
        /\ UNCHANGED <<entity, saves, promised, outrun, overruled>>
    BY DEF CopyLost
  <1>2. RecordTyped'
    BY <1>1 DEF RecordInv, RecordTyped
  <1>3. \A kind \in DOMAIN entity' \ (outrun \cup overruled)' :
            Told(kind, entity[kind], promised[kind])'
    BY <1>1 DEF RecordInv
  <1>4. ASSUME NEW d \in Callers, copy'[d] # NoCopy PROVE CallSound(copy[d])'
    <2>1. copy'[d] = copy[d] /\ CallSound(copy[d])
      BY <1>1, <1>4 DEF RecordInv, RecordTyped
    <2> QED BY <1>1, <2>1 DEF CallSound
  <1> QED BY <1>2, <1>3, <1>4 DEF RecordInv

\* At the start each record is the promise nobody has made yet.
LEMMA RecordStart == ServicesInit => RecordInv
  <1> SUFFICES ASSUME ServicesInit PROVE RecordInv
    OBVIOUS
  <1>1. /\ entity \in Starts /\ copy = [c \in Callers |-> NoCopy]
        /\ saves = [kind \in DOMAIN entity |-> 0]
        /\ promised = [kind \in DOMAIN entity |-> PromiseOf(kind, entity[kind])]
    BY Zenon DEF ServicesInit, RecordInit
  <1>2. /\ entity = [kind \in DOMAIN entity |-> entity[kind]]
        /\ \A kind \in DOMAIN entity :
              /\ kind \in DOMAIN Fields
              /\ IsRecord(kind, entity[kind]) /\ ValidMetadata(kind, entity[kind])
    BY <1>1, RecordsAssumption
  <1>3. RecordTyped
    BY <1>1, <1>2 DEF RecordTyped
  <1>4. \A kind \in DOMAIN entity : Told(kind, entity[kind], promised[kind])
    BY <1>1 DEF Told
  <1> QED BY <1>1, <1>3, <1>4 DEF RecordInv

\* Every operation, save and loss of a copy keeps the invariant of the records.
LEMMA RecordStep ==
    ASSUME RecordInv, [ServicesNext]_servicesVars
    PROVE  RecordInv'
  <1>1. CASE UNCHANGED recordVars
    BY <1>1 DEF recordVars, RecordInv, RecordTyped, CallSound, Told, Overrules
  <1>2. ASSUME RecordNext PROVE RecordInv'
    BY <1>2, UpdateKeeps, SetStageKeeps, AdvanceKeeps, LiftKeeps, ReturnKeeps,
       ProgramKeeps, ExtendKeeps, SalesKeep, ConditionKeeps, AddProgramKeeps,
       AddCreditKeeps, AddSectionKeeps, LockKeeps, CheckOutKeeps, UnderstudyKeeps,
       PrimaryKeeps, SaveCopyKeeps, CopyLostKeeps DEF RecordNext
  <1> QED BY <1>1, <1>2 DEF ServicesNext, servicesVars

\* As long as no caller saves over the save of another and no request overrules them, each
\* record is what the callers that wrote it were told; and a copy of it as it is stored will be.
THEOREM RecordInvariance == ServicesSpec => []RecordInv
  BY RecordStart, RecordStep, PTL DEF ServicesSpec

\* Only saves over the save of another caller, and update requests that give the promised
\* field, break what a caller was told, and none stores a record that is not valid.
THEOREM PromisesKept == ServicesSpec => []PromisesAreKept
  <1>1. RecordInv => PromisesAreKept
    <2> SUFFICES ASSUME RecordInv PROVE PromisesAreKept
      OBVIOUS
    <2>1. ASSUME NEW kind \in DOMAIN entity PROVE ValidMetadata(kind, entity[kind])
      BY DEF RecordInv, RecordTyped
    <2>2. ASSUME NEW kind \in DOMAIN entity \ (outrun \cup overruled) PROVE Kept(kind)
      <3>1. Told(kind, entity[kind], promised[kind])
        BY DEF RecordInv
      <3>2. CASE kind = "preview_hold"
        <4>1. /\ entity[kind] \in [lift_at : LiftTimes \cup {Absent}, manually_lifted : BOOLEAN]
              /\ promised[kind] = PromiseOf("preview_hold", entity[kind])
          BY <3>1, <3>2, RecordsAre DEF Told, RecordInv, RecordTyped
        <4>2. \A now \in 0..(promised[kind] - 1) : ~HoldIsLifted(entity[kind], now)
          BY <4>1, LifecycleAssumption, RecordsAssumption DEF HoldIsLifted, PromiseOf
        <4> QED BY <3>2, <4>2 DEF Kept
      <3>3. CASE kind = "production"
        BY <3>1, <3>3 DEF Kept, Told, PromiseOf
      <3>4. CASE kind \notin {"production", "preview_hold"}
        BY <3>1, <3>4 DEF Kept, Told
      <3> QED BY <3>2, <3>3, <3>4
    <2>3. ASSUME "preview_hold" \in DOMAIN entity \ (outrun \cup overruled),
                 NEW now \in Nat, Publishable(RequiredStages, now)
          PROVE  promised["preview_hold"] <= now
      <3> DEFINE hold == entity["preview_hold"]
      <3>1. /\ hold \in [lift_at : LiftTimes \cup {Absent}, manually_lifted : BOOLEAN]
            /\ promised["preview_hold"] = PromiseOf("preview_hold", hold)
        BY <2>3, RecordsAre DEF Told, RecordInv, RecordTyped
      <3>2. now >= LiftTime(hold)
        BY <2>3 DEF Publishable, CheckerIsLifted
      <3>3. CASE hold.manually_lifted \/ hold.lift_at = Absent
        BY <3>1, <3>3 DEF PromiseOf
      <3>4. CASE ~hold.manually_lifted /\ hold.lift_at # Absent
        BY <3>1, <3>2, <3>4, LifecycleAssumption DEF PromiseOf, LiftTime
      <3> QED BY <3>3, <3>4
    <2>4. LiftTimes \cup {0} \subseteq Nat
      BY LifecycleAssumption
    <2> QED BY <2>1, <2>2, <2>3, <2>4 DEF PromisesAreKept, On
  <1> QED BY <1>1, RecordInvariance, PTL

-----------------------------------------------------------------------------
(***************************************************************************)
(* What the packs of days that follow each other tell.                     *)
(***************************************************************************)
\* Ids are in an order.
LEMMA IdsAreOrdered ==
    ASSUME NEW ids \in SUBSET Nat
    PROVE  Ordered(ids, Smaller(ids))
  <1>1. \A a \in ids : a \in Int
    OBVIOUS
  <1>2. \A a, b \in ids : <<a, b>> \in Smaller(ids) <=> a < b
    BY DEF Smaller
  <1> QED BY <1>1, <1>2 DEF Ordered

\* A performance or a rehearsal comes before another by its time, and then by its id.
LEMMA TimesAreOrdered ==
    ASSUME NEW ids \in SUBSET Nat, NEW rows, \A a \in ids : rows[a].starts_at \in Int
    PROVE  Ordered(ids, Earlier(rows, ids))
  <1>1. \A a \in ids : a \in Int
    OBVIOUS
  <1>2. \A a, b \in ids :
           <<a, b>> \in Earlier(rows, ids) <=>
               \/ rows[a].starts_at < rows[b].starts_at
               \/ rows[a].starts_at = rows[b].starts_at /\ a < b
    BY DEF Earlier
  <1>3. \A a \in ids : <<a, a>> \notin Earlier(rows, ids)
    BY <1>1, <1>2
  <1>4. ASSUME NEW a \in ids, NEW b \in ids, a # b
        PROVE  <<a, b>> \in Earlier(rows, ids) \/ <<b, a>> \in Earlier(rows, ids)
    <2>1. rows[a].starts_at \in Int /\ rows[b].starts_at \in Int /\ a \in Int /\ b \in Int
      BY <1>1
    <2> QED BY <1>2, <1>4, <2>1
  <1>5. ASSUME NEW a \in ids, NEW b \in ids, NEW c \in ids,
               <<a, b>> \in Earlier(rows, ids), <<b, c>> \in Earlier(rows, ids)
        PROVE  <<a, c>> \in Earlier(rows, ids)
    <2>1. /\ rows[a].starts_at \in Int /\ rows[b].starts_at \in Int /\ rows[c].starts_at \in Int
          /\ a \in Int /\ b \in Int /\ c \in Int
      BY <1>1
    <2>2. /\ \/ rows[a].starts_at < rows[b].starts_at
             \/ rows[a].starts_at = rows[b].starts_at /\ a < b
          /\ \/ rows[b].starts_at < rows[c].starts_at
             \/ rows[b].starts_at = rows[c].starts_at /\ b < c
      BY <1>2, <1>5
    <2>3. \/ rows[a].starts_at < rows[c].starts_at
          \/ rows[a].starts_at = rows[c].starts_at /\ a < c
      BY <2>1, <2>2
    <2> QED BY <1>2, <2>3
  <1> QED BY <1>3, <1>4, <1>5 DEF Ordered

-----------------------------------------------------------------------------
FirstDate == Min(Dates)
LastDate == Max(Dates)

\* The midnights of the days that packs are built for, and the one after them, follow
\* each other, however long the days are; a day lasts from one to the next.
LEMMA MidnightsAre ==
    /\ Dates = FirstDate..LastDate /\ FirstDate \in Nat /\ LastDate \in Nat /\ FirstDate <= LastDate
    /\ \A d \in FirstDate..(LastDate + 1) : LocalMidnight(d) \in Int
    /\ \A d \in Dates : /\ d \in Nat /\ LocalMidnight(d) < LocalMidnight(d + 1)
                        /\ DayWindow(d, ResolveTimezone(zoneName))
                             = [start |-> LocalMidnight(d), end |-> LocalMidnight(d + 1)]
  <1> DEFINE zone == ResolveTimezone(zoneName)
  <1>1. Dates = FirstDate..LastDate /\ FirstDate \in Nat /\ LastDate \in Nat /\ FirstDate <= LastDate
    <2>1. Dates = FirstDate..LastDate /\ FirstDate \in Nat /\ LastDate \in Nat /\ Dates # {}
      BY AssemblyAssumption DEF FirstDate, LastDate
    <2> QED BY <2>1
  <1>2. \A d \in Dates : d \in Nat
    BY <1>1
  <1>3. CASE zone = "UTC"
    <2>1. UtcDay \in Nat /\ UtcDay > 0
      BY AssemblyAssumption
    <2>2. \A d : LocalMidnight(d) = d * UtcDay
      BY <1>3 DEF LocalMidnight
    <2>3. \A d \in Nat : /\ d * UtcDay \in Int /\ (d + 1) * UtcDay = d * UtcDay + UtcDay
                         /\ d * UtcDay < (d + 1) * UtcDay
      BY <2>1
    <2>4. \A d \in FirstDate..(LastDate + 1) : d \in Nat
      BY <1>1
    <2>5. \A d \in Dates :
             DayWindow(d, zone) = [start |-> d * UtcDay, end |-> d * UtcDay + UtcDay]
      BY <1>3 DEF DayWindow
    <2> HIDE DEF zone
    <2>6. \A d \in Dates : LocalMidnight(d + 1) = d * UtcDay + UtcDay
      BY <1>2, <2>2, <2>3
    <2>7. \A d \in Dates : LocalMidnight(d) < LocalMidnight(d + 1)
      BY <1>2, <2>2, <2>3
    <2>8. \A d \in FirstDate..(LastDate + 1) : LocalMidnight(d) \in Int
      BY <2>2, <2>3, <2>4
    <2>9. \A d \in Dates :
             DayWindow(d, zone) = [start |-> LocalMidnight(d), end |-> LocalMidnight(d + 1)]
      BY <2>2, <2>5, <2>6
    <2> QED BY <1>1, <1>2, <2>7, <2>8, <2>9 DEF zone
  <1>4. CASE zone # "UTC"
    <2>1. zone \in Zones
      BY <1>4 DEF ResolveTimezone
    <2>2. \A d : LocalMidnight(d) = Midnight[zone][d]
      BY <1>4 DEF LocalMidnight
    <2>3. \A d \in Dates : /\ Midnight[zone][d] \in Int /\ Midnight[zone][d + 1] \in Int
                           /\ Midnight[zone][d] < Midnight[zone][d + 1]
      <3> HIDE DEF zone
      <3> QED BY <2>1, AssemblyAssumption
    <2>4. \A d \in FirstDate..(LastDate + 1) : d \in Dates \/ (d - 1 \in Dates /\ (d - 1) + 1 = d)
      BY <1>1
    <2>5. \A d \in Dates :
             DayWindow(d, zone) = [start |-> Midnight[zone][d], end |-> Midnight[zone][d + 1]]
      BY <1>4 DEF DayWindow
    <2> HIDE DEF zone
    <2>6. \A d \in FirstDate..(LastDate + 1) : LocalMidnight(d) \in Int
      BY <2>2, <2>3, <2>4
    <2> QED BY <1>1, <1>2, <2>2, <2>3, <2>5, <2>6 DEF zone
  <1> QED BY <1>3, <1>4

\* Later days begin later.
LEMMA MidnightsRise ==
    \A d, e \in FirstDate..(LastDate + 1) : d < e => LocalMidnight(d) < LocalMidnight(e)
  <1> DEFINE n == LastDate + 1 - FirstDate
             Good == {k \in 0..n : \A j \in 0..n :
                         j < k => LocalMidnight(FirstDate + j) < LocalMidnight(FirstDate + k)}
  <1>1. FirstDate \in Nat /\ LastDate \in Nat /\ FirstDate <= LastDate /\ Dates = FirstDate..LastDate
    BY MidnightsAre
  <1>2. n \in Nat
    BY <1>1
  <1>3. 0 \in Good
    BY <1>2
  <1>4. ASSUME NEW k \in 1..n, k - 1 \in Good
        PROVE  k \in Good
    <2>1. k \in Int /\ k - 1 \in 0..n /\ FirstDate + (k - 1) \in Dates
          /\ (FirstDate + (k - 1)) + 1 = FirstDate + k /\ FirstDate + k \in FirstDate..(LastDate + 1)
          /\ FirstDate + (k - 1) \in FirstDate..(LastDate + 1)
      BY <1>1
    <2>2. LocalMidnight(FirstDate + (k - 1)) < LocalMidnight(FirstDate + k)
      BY <2>1, MidnightsAre
    <2>3. LocalMidnight(FirstDate + (k - 1)) \in Int /\ LocalMidnight(FirstDate + k) \in Int
      BY <2>1, MidnightsAre
    <2>4. ASSUME NEW j \in 0..n, j < k
          PROVE  LocalMidnight(FirstDate + j) < LocalMidnight(FirstDate + k)
      <3>1. j = k - 1 \/ j < k - 1
        BY <1>2, <2>1, <2>4
      <3>2. FirstDate + j \in FirstDate..(LastDate + 1)
        BY <1>1
      <3>3. LocalMidnight(FirstDate + j) \in Int
        BY <3>2, MidnightsAre
      <3>4. j < k - 1 => LocalMidnight(FirstDate + j) < LocalMidnight(FirstDate + (k - 1))
        BY <1>4
      <3>5. CASE j = k - 1
        BY <2>2, <3>5
      <3>6. CASE j < k - 1
        <4> HIDE DEF n
        <4> QED BY <2>2, <2>3, <3>3, <3>4, <3>6
      <3> QED BY <3>1, <3>5, <3>6
    <2> QED BY <2>1, <2>4
  <1>5. \A k \in 0..n : k \in Good
    <2> HIDE DEF Good, n
    <2> QED BY <1>2, <1>3, <1>4, Climbing
  <1> SUFFICES ASSUME NEW d \in FirstDate..(LastDate + 1), NEW e \in FirstDate..(LastDate + 1), d < e
               PROVE  LocalMidnight(d) < LocalMidnight(e)
    OBVIOUS
  <1>6. /\ d - FirstDate \in 0..n /\ e - FirstDate \in 0..n /\ d - FirstDate < e - FirstDate
        /\ FirstDate + (d - FirstDate) = d /\ FirstDate + (e - FirstDate) = e
    BY <1>1
  <1>7. LocalMidnight(FirstDate + (d - FirstDate)) < LocalMidnight(FirstDate + (e - FirstDate))
    BY <1>5, <1>6
  <1> QED BY <1>6, <1>7

\* Every instant of those days is part of one of them: the one DayOf says.
LEMMA DayIs ==
    ASSUME NEW m \in Covered
    PROVE  /\ m \in Int /\ DayOf(m) \in Dates
           /\ \A d \in Dates :
                 LocalMidnight(d) <= m /\ m < LocalMidnight(d + 1) <=> d = DayOf(m)
  <1> DEFINE n == LastDate + 1 - FirstDate
             Good == {k \in 0..n : LocalMidnight(FirstDate + k) <= m}
             begun == {d \in Dates : LocalMidnight(d) <= m}
  <1>1. FirstDate \in Nat /\ LastDate \in Nat /\ FirstDate <= LastDate /\ Dates = FirstDate..LastDate
    BY MidnightsAre
  <1>2. /\ FirstDate \in FirstDate..(LastDate + 1) /\ LastDate + 1 \in FirstDate..(LastDate + 1)
        /\ n \in Nat
        /\ FirstDate + 0 = FirstDate /\ FirstDate + n = LastDate + 1
    BY <1>1
  <1>3. LocalMidnight(FirstDate) \in Int /\ LocalMidnight(LastDate + 1) \in Int
    BY <1>2, MidnightsAre
  <1>4. m \in Int /\ LocalMidnight(FirstDate) <= m /\ m < LocalMidnight(LastDate + 1)
    <2>1. m \in LocalMidnight(FirstDate)..(LocalMidnight(LastDate + 1) - 1)
      BY DEF Covered, FirstDate, LastDate
    <2> QED BY <1>3, <2>1
  <1>5. 0 \in Good
    BY <1>2, <1>4
  <1>6. n \notin Good
    <2>1. ~ (LocalMidnight(FirstDate + n) <= m)
      <3> HIDE DEF n
      <3> QED BY <1>2, <1>3, <1>4
    <2> QED BY <2>1
  <1>7. PICK k \in 1..n : k - 1 \in Good /\ k \notin Good
    <2> SUFFICES ASSUME \A k \in 1..n : k - 1 \in Good => k \in Good PROVE FALSE
      OBVIOUS
    <2> HIDE DEF Good, n
    <2>1. \A k \in 0..n : k \in Good
      BY <1>2, <1>5, Climbing
    <2> QED BY <1>2, <1>6, <2>1
  <1> DEFINE day == FirstDate + (k - 1)
  <1>8. /\ day \in Dates /\ day + 1 = FirstDate + k /\ day + 1 \in FirstDate..(LastDate + 1)
        /\ day \in FirstDate..(LastDate + 1) /\ day \in Int
    BY <1>1
  <1>9. LocalMidnight(day) <= m /\ m < LocalMidnight(day + 1)
    <2>1. ~ (LocalMidnight(FirstDate + k) <= m)
      BY <1>7
    <2>2. LocalMidnight(day + 1) \in Int
      BY <1>8, MidnightsAre
    <2>3. LocalMidnight(day) <= m
      BY <1>7
    <2> QED BY <1>4, <1>8, <2>1, <2>2, <2>3
  <1>10. ASSUME NEW d \in Dates
         PROVE  /\ LocalMidnight(d) <= m => d <= day
                /\ LocalMidnight(d) <= m /\ m < LocalMidnight(d + 1) => d = day
    <2>1. d \in Int /\ d \in FirstDate..(LastDate + 1) /\ d + 1 \in FirstDate..(LastDate + 1)
      BY <1>1
    <2>2. LocalMidnight(d) \in Int /\ LocalMidnight(d + 1) \in Int
          /\ LocalMidnight(day) \in Int /\ LocalMidnight(day + 1) \in Int
      BY <1>8, <2>1, MidnightsAre
    <2>3. day + 1 < d => LocalMidnight(day + 1) < LocalMidnight(d)
      BY <1>8, <2>1, MidnightsRise
    <2>4. d + 1 < day => LocalMidnight(d + 1) < LocalMidnight(day)
      BY <1>8, <2>1, MidnightsRise
    <2> HIDE DEF day
    <2>5. LocalMidnight(d) <= m => d <= day
      BY <1>4, <1>8, <1>9, <2>1, <2>2, <2>3
    <2>6. d + 1 <= day => LocalMidnight(d + 1) <= LocalMidnight(day)
      BY <1>8, <2>1, <2>2, <2>4
    <2>7. m < LocalMidnight(d + 1) => day <= d
      BY <1>4, <1>8, <1>9, <2>1, <2>2, <2>6
    <2> QED BY <1>8, <2>1, <2>5, <2>7
  <1>11. DayOf(m) = day
    <2>1. day \in begun /\ \A d \in begun : day >= d
      <3>1. day \in begun
        BY <1>8, <1>9
      <3>2. \A d \in begun : d <= day
        BY <1>10
      <3>3. \A d \in begun : d \in Int
        BY <1>1
      <3> HIDE DEF day, begun
      <3> QED BY <1>8, <3>1, <3>2, <3>3
    <2>2. \A x \in begun : (\A y \in begun : x >= y) => x = day
      <3>1. \A x \in begun : x \in Int
        BY <1>1
      <3> HIDE DEF day, begun
      <3> QED BY <1>8, <2>1, <3>1
    <2>3. Max(begun) = day
      <3> HIDE DEF day, begun
      <3> QED BY <2>1, <2>2 DEF Max
    <2> QED BY <2>3 DEF DayOf
  <1> HIDE DEF day
  <1> QED BY <1>4, <1>8, <1>9, <1>10, <1>11

\* And the instants of each of them are among those of all.
LEMMA DaysAreCovered ==
    ASSUME NEW d \in Dates, NEW m \in Int, LocalMidnight(d) <= m, m < LocalMidnight(d + 1)
    PROVE  m \in Covered
  <1>1. /\ FirstDate \in Nat /\ LastDate \in Nat /\ FirstDate <= LastDate
        /\ Dates = FirstDate..LastDate
    BY MidnightsAre
  <1>2. /\ d \in Int /\ FirstDate <= d /\ d + 1 <= LastDate + 1
        /\ {d, d + 1, FirstDate, LastDate + 1} \subseteq FirstDate..(LastDate + 1)
    BY <1>1
  <1>3. /\ LocalMidnight(d) \in Int /\ LocalMidnight(d + 1) \in Int
        /\ LocalMidnight(FirstDate) \in Int /\ LocalMidnight(LastDate + 1) \in Int
    BY <1>2, MidnightsAre
  <1>4. FirstDate < d => LocalMidnight(FirstDate) < LocalMidnight(d)
    BY <1>2, MidnightsRise
  <1>5. d + 1 < LastDate + 1 => LocalMidnight(d + 1) < LocalMidnight(LastDate + 1)
    BY <1>2, MidnightsRise
  <1>6. LocalMidnight(FirstDate) <= LocalMidnight(d)
    BY <1>1, <1>2, <1>3, <1>4
  <1>7. LocalMidnight(d + 1) <= LocalMidnight(LastDate + 1)
    BY <1>1, <1>2, <1>3, <1>5
  <1>8. m \in LocalMidnight(FirstDate)..(LocalMidnight(LastDate + 1) - 1)
    BY <1>3, <1>6, <1>7
  <1> QED BY <1>8 DEF Covered, FirstDate, LastDate

-----------------------------------------------------------------------------
\* The performances and the rehearsals of a day.
ShownOn(d) ==
    {p \in ShowIds : /\ shows[p].linked /\ shows[p].starts_at # NoTime
                     /\ LocalMidnight(d) <= shows[p].starts_at
                     /\ shows[p].starts_at < LocalMidnight(d + 1)}
RehearsedOn(d) ==
    {s \in SlotIds : /\ slots[s].linked /\ slots[s].starts_at # NoTime
                     /\ slots[s].starts_at < LocalMidnight(d + 1)
                     /\ slots[s].ends_at > LocalMidnight(d)}

\* Rows that have a time have one that can be compared.
LEMMA RowsAre ==
    ASSUME AssemblyTypeOK
    PROVE  /\ \A p \in ShowIds : shows[p].starts_at # NoTime => shows[p].starts_at \in Int
           /\ \A s \in SlotIds : slots[s].starts_at # NoTime =>
                 /\ slots[s].starts_at \in Int /\ slots[s].ends_at \in Int
                 /\ slots[s].starts_at < slots[s].ends_at
  <1>1. \A p \in ShowIds : shows[p] \in ShowRows
    BY DEF AssemblyTypeOK
  <1>2. \A s \in SlotIds : slots[s] \in SlotRows
    BY DEF AssemblyTypeOK
  <1>3. \A row \in ShowRows \cup SlotRows : row.starts_at \in Int \/ row.starts_at = NoTime
    BY RowsAssumption
  <1>4. \A row \in SlotRows : row.starts_at # NoTime =>
           row.ends_at \in Int /\ row.starts_at < row.ends_at
    BY RowsAssumption
  <1> QED BY <1>1, <1>2, <1>3, <1>4

\* A pack has the performances and the rehearsals of its day, each once and in order.
LEMMA PackIs ==
    ASSUME AssemblyTypeOK, NEW d \in Dates
    PROVE  /\ Sorts(PackContent(d).performances, ShownOn(d), Earlier(shows, ShownOn(d)))
           /\ Sorts(PackContent(d).rehearsals, RehearsedOn(d), Earlier(slots, RehearsedOn(d)))
           /\ PackContent(d).warnings = RehearsalConflicts(PackContent(d).rehearsals)
           /\ PackContent(d).call_timeline = CallTimeline(PackContent(d).performances)
  <1> DEFINE window == DayWindow(d, ResolveTimezone(zoneName))
  <1>1. window.start = LocalMidnight(d) /\ window.end = LocalMidnight(d + 1)
    BY MidnightsAre
  <1>2. /\ PackContent(d).performances = DayPerformances(window)
        /\ PackContent(d).rehearsals = DayRehearsals(window)
        /\ PackContent(d).warnings = RehearsalConflicts(DayRehearsals(window))
        /\ PackContent(d).call_timeline = CallTimeline(DayPerformances(window))
    BY DEF PackContent
  <1> HIDE DEF window
  <1>3. DayPerformances(window) = InOrder(ShownOn(d), Earlier(shows, ShownOn(d)))
    <2>1. ShownOn(d) = {p \in ShowIds : /\ shows[p].linked /\ shows[p].starts_at # NoTime
                                        /\ InHalfOpen(shows[p].starts_at, window)}
      BY <1>1 DEF ShownOn, InHalfOpen
    <2> QED BY <2>1 DEF DayPerformances, ByTime
  <1>4. DayRehearsals(window) = InOrder(RehearsedOn(d), Earlier(slots, RehearsedOn(d)))
    <2>1. RehearsedOn(d)
            = {s \in SlotIds : /\ slots[s].linked /\ slots[s].starts_at # NoTime
                               /\ Intersects(slots[s].starts_at, slots[s].ends_at, window)}
      BY <1>1 DEF RehearsedOn, Intersects
    <2> QED BY <2>1 DEF DayRehearsals, ByTime
  <1>5. /\ ShownOn(d) \in SUBSET ShowIds /\ RehearsedOn(d) \in SUBSET SlotIds
        /\ \A p \in ShownOn(d) : shows[p].starts_at # NoTime
        /\ \A s \in RehearsedOn(d) : slots[s].starts_at # NoTime
    BY DEF ShownOn, RehearsedOn
  <1>6. /\ ShowIds \in SUBSET Nat /\ IsFiniteSet(ShowIds)
        /\ SlotIds \in SUBSET Nat /\ IsFiniteSet(SlotIds)
    BY AssemblyAssumption
  <1>7. IsFiniteSet(ShownOn(d)) /\ IsFiniteSet(RehearsedOn(d))
    BY <1>5, <1>6, FS_Subset
  <1>8. Sorts(InOrder(ShownOn(d), Earlier(shows, ShownOn(d))), ShownOn(d), Earlier(shows, ShownOn(d)))
    <2>1. ShownOn(d) \in SUBSET Nat /\ \A p \in ShownOn(d) : shows[p].starts_at \in Int
      BY <1>5, <1>6, RowsAre
    <2>2. Ordered(ShownOn(d), Earlier(shows, ShownOn(d)))
      BY <2>1, TimesAreOrdered
    <2> QED BY <1>7, <2>2, InOrderSorts
  <1>9. Sorts(InOrder(RehearsedOn(d), Earlier(slots, RehearsedOn(d))), RehearsedOn(d),
              Earlier(slots, RehearsedOn(d)))
    <2>1. RehearsedOn(d) \in SUBSET Nat /\ \A s \in RehearsedOn(d) : slots[s].starts_at \in Int
      BY <1>5, <1>6, RowsAre
    <2>2. Ordered(RehearsedOn(d), Earlier(slots, RehearsedOn(d)))
      BY <2>1, TimesAreOrdered
    <2> QED BY <1>7, <2>2, InOrderSorts
  <1> QED BY <1>2, <1>3, <1>4, <1>8, <1>9

\* A performance is in the pack of the day its start is part of.
LEMMA ShownOnItsDay ==
    ASSUME AssemblyTypeOK, NEW p \in ShowIds, shows[p].linked, shows[p].starts_at \in Covered
    PROVE  {d \in Dates : p \in ShownOn(d)} = {DayOf(shows[p].starts_at)}
  <1> DEFINE m == shows[p].starts_at
  <1>1. m \in Int /\ m # NoTime
    BY DayIs, RowsAssumption
  <1>2. \A d \in Dates : p \in ShownOn(d) <=> d = DayOf(m)
    <2>1. \A d \in Dates : LocalMidnight(d) <= m /\ m < LocalMidnight(d + 1) <=> d = DayOf(m)
      BY DayIs
    <2> QED BY <1>1, <2>1 DEF ShownOn
  <1>3. DayOf(m) \in Dates
    BY DayIs
  <1> HIDE DEF m
  <1>4. {d \in Dates : p \in ShownOn(d)} = {DayOf(m)}
    BY <1>2, <1>3
  <1> QED BY <1>4 DEF m

\* A rehearsal is in the packs of the days its instants are part of.
LEMMA RehearsedOnItsDays ==
    ASSUME AssemblyTypeOK, NEW s \in SlotIds, slots[s].linked, slots[s].starts_at # NoTime
    PROVE  {d \in Dates : s \in RehearsedOn(d)} = {DayOf(m) : m \in Instants(s) \cap Covered}
  <1> DEFINE from == slots[s].starts_at
             to == slots[s].ends_at
  <1>1. from \in Int /\ to \in Int /\ from < to
    BY RowsAre
  <1>2. \A d \in Dates : s \in RehearsedOn(d) <=> from < LocalMidnight(d + 1) /\ to > LocalMidnight(d)
    BY DEF RehearsedOn
  <1>3. Instants(s) = from..(to - 1)
    BY DEF Instants
  <1>4. ASSUME NEW d \in Dates
        PROVE  /\ LocalMidnight(d) \in Int /\ LocalMidnight(d + 1) \in Int
               /\ LocalMidnight(d) < LocalMidnight(d + 1)
    <2>1. d \in FirstDate..(LastDate + 1) /\ d + 1 \in FirstDate..(LastDate + 1)
      BY MidnightsAre
    <2> QED BY <2>1, MidnightsAre
  <1> HIDE DEF from, to
  <1>5. ASSUME NEW m \in Instants(s) \cap Covered
        PROVE  DayOf(m) \in Dates /\ s \in RehearsedOn(DayOf(m))
    <2>1. /\ DayOf(m) \in Dates /\ m \in Int
          /\ LocalMidnight(DayOf(m)) <= m /\ m < LocalMidnight(DayOf(m) + 1)
      BY DayIs
    <2>2. /\ LocalMidnight(DayOf(m)) \in Int /\ LocalMidnight(DayOf(m) + 1) \in Int
      BY <1>4, <2>1
    <2>3. from <= m /\ m < to
      BY <1>1, <1>3
    <2> QED BY <1>1, <1>2, <2>1, <2>2, <2>3
  <1>6. ASSUME NEW d \in Dates, s \in RehearsedOn(d)
        PROVE  \E m \in Instants(s) \cap Covered : d = DayOf(m)
    <2>1. PICK m \in Int : /\ from <= m /\ m < to
                           /\ LocalMidnight(d) <= m /\ m < LocalMidnight(d + 1)
      <3>1. CASE from <= LocalMidnight(d)
        BY <1>1, <1>2, <1>4, <1>6, <3>1
      <3>2. CASE LocalMidnight(d) <= from
        BY <1>1, <1>2, <1>4, <1>6, <3>2
      <3> QED BY <1>1, <1>4, <3>1, <3>2
    <2>2. m \in Instants(s)
      BY <1>1, <1>3, <2>1
    <2>3. m \in Covered
      BY <2>1, DaysAreCovered
    <2>4. d = DayOf(m)
      BY <2>1, <2>3, DayIs
    <2> QED BY <2>2, <2>3, <2>4
  <1> QED BY <1>5, <1>6

-----------------------------------------------------------------------------
\* Two rehearsals have an instant in common if the code says they overlap.
LEMMA MeetingIsOverlap ==
    ASSUME NEW a, NEW b,
           slots[a].starts_at \in Int, slots[a].ends_at \in Int, slots[a].starts_at < slots[a].ends_at,
           slots[b].starts_at \in Int, slots[b].ends_at \in Int, slots[b].starts_at < slots[b].ends_at
    PROVE  Instants(a) \cap Instants(b) # {} <=> SlotsOverlap(a, b)
  <1> DEFINE a1 == slots[a].starts_at
             a2 == slots[a].ends_at
             b1 == slots[b].starts_at
             b2 == slots[b].ends_at
  <1>1. /\ a1 \in Int /\ a2 \in Int /\ b1 \in Int /\ b2 \in Int /\ a1 < a2 /\ b1 < b2
        /\ Instants(a) = a1..(a2 - 1) /\ Instants(b) = b1..(b2 - 1)
        /\ SlotsOverlap(a, b) <=> a1 < b2 /\ b1 < a2
    BY DEF Instants, SlotsOverlap
  <1> HIDE DEF a1, a2, b1, b2
  <1>2. ASSUME SlotsOverlap(a, b)
        PROVE  Instants(a) \cap Instants(b) # {}
    <2>1. CASE a1 <= b1
      <3>1. b1 \in Instants(a) /\ b1 \in Instants(b)
        BY <1>1, <1>2, <2>1
      <3> QED BY <3>1
    <2>2. CASE b1 <= a1
      <3>1. a1 \in Instants(a) /\ a1 \in Instants(b)
        BY <1>1, <1>2, <2>2
      <3> QED BY <3>1
    <2> QED BY <1>1, <2>1, <2>2
  <1>3. ASSUME NEW m \in Instants(a) \cap Instants(b)
        PROVE  SlotsOverlap(a, b)
    <2>1. m \in Int /\ a1 <= m /\ m <= a2 - 1 /\ b1 <= m /\ m <= b2 - 1
      BY <1>1
    <2> QED BY <1>1, <2>1
  <1> QED BY <1>2, <1>3

\* What two rehearsals that overlap have in common.
Shared(a, b) ==
    (IF slots[a].room = slots[b].room /\ slots[a].room # NoText THEN {"room"} ELSE {})
    \cup (IF slots[a].people \cap slots[b].people # {} THEN {"people"} ELSE {})

About(s, a, b) == {w \in RehearsalConflicts(s) : ToSet(w.refs) = {a, b}}
IsWarnedOnce(s, a, b) ==
    \E refs : About(s, a, b) = {[code |-> c, refs |-> refs] :
                                  c \in IF SlotsOverlap(a, b) THEN Shared(a, b) ELSE {}}

\* Of rehearsals in order two are looked at once, and warned about if they overlap,
\* once for each thing they share.
LEMMA WarnedOnce ==
    ASSUME NEW S, NEW before, NEW s, Sorts(s, S, before), NEW a \in S, NEW b \in S, a # b
    PROVE  IsWarnedOnce(s, a, b)
  <1> DEFINE Refs(ij) == <<s[ij[1]], s[ij[2]]>>
             pairs == {Refs(ij) : ij \in {k \in (DOMAIN s) \X (DOMAIN s) :
                             k[1] < k[2] /\ SlotsOverlap(s[k[1]], s[k[2]])}}
             sameRoom == {p \in pairs : /\ slots[p[1]].room # NoText
                                        /\ slots[p[1]].room = slots[p[2]].room}
             samePeople == {p \in pairs : slots[p[1]].people \cap slots[p[2]].people # {}}
             about == About(s, a, b)
  <1>1. RehearsalConflicts(s) = {[code |-> "room", refs |-> p] : p \in sameRoom}
                                \cup {[code |-> "people", refs |-> p] : p \in samePeople}
    BY DEF RehearsalConflicts
  <1>2. /\ DOMAIN s = 1..Len(s) /\ Len(s) \in Nat
        /\ \A i, j \in DOMAIN s : s[i] = s[j] => i = j
    <2>1. DOMAIN s = 1..Len(s) /\ Len(s) \in Nat
      BY DEF Sorts
    <2>2. \A i, j \in 1..Len(s) : i < j => s[i] # s[j]
      BY DEF Sorts
    <2>3. \A i, j \in 1..Len(s) : i = j \/ i < j \/ j < i
      BY <2>1
    <2> QED BY <2>1, <2>2, <2>3
  <1>3. PICK i \in DOMAIN s : s[i] = a
    BY DEF Sorts, ToSet
  <1>4. PICK j \in DOMAIN s : s[j] = b
    BY DEF Sorts, ToSet
  <1> DEFINE refs == IF i < j THEN <<a, b>> ELSE <<b, a>>
  <1>5. \A x, y : ToSet(<<x, y>>) = {x, y}
    BY DEF ToSet
  <1>6. \A x, y : <<x, y>> \in pairs <=>
           \E k, l \in DOMAIN s : k < l /\ x = s[k] /\ y = s[l] /\ SlotsOverlap(x, y)
    <2>1. ASSUME NEW x, NEW y, <<x, y>> \in pairs
          PROVE  \E k, l \in DOMAIN s : k < l /\ x = s[k] /\ y = s[l] /\ SlotsOverlap(x, y)
      <3>1. PICK k \in (DOMAIN s) \X (DOMAIN s) :
               k[1] < k[2] /\ SlotsOverlap(s[k[1]], s[k[2]]) /\ <<x, y>> = Refs(k)
        BY <2>1
      <3>2. x = s[k[1]] /\ y = s[k[2]] /\ k[1] \in DOMAIN s /\ k[2] \in DOMAIN s
        BY <3>1
      <3> QED BY <3>1, <3>2
    <2>2. ASSUME NEW k \in DOMAIN s, NEW l \in DOMAIN s, k < l, SlotsOverlap(s[k], s[l])
          PROVE  <<s[k], s[l]>> \in pairs
      <3>1. <<k, l>> \in (DOMAIN s) \X (DOMAIN s) /\ <<s[k], s[l]>> = Refs(<<k, l>>)
        OBVIOUS
      <3> QED BY <2>2, <3>1
    <2> HIDE DEF pairs
    <2> QED BY <2>1, <2>2
  <1>7. i # j /\ (i < j \/ j < i)
    BY <1>2, <1>3, <1>4
  <1>8. SlotsOverlap(a, b) <=> SlotsOverlap(b, a)
    BY DEF SlotsOverlap
  <1>9. \A p \in pairs : \E x, y : p = <<x, y>>
    OBVIOUS
  <1>10. \A p \in pairs : ToSet(p) = {a, b} <=> p = refs
    <2> SUFFICES ASSUME NEW x, NEW y, <<x, y>> \in pairs
                 PROVE  {x, y} = {a, b} <=> <<x, y>> = refs
      <3> HIDE DEF pairs, refs
      <3> QED BY <1>5, <1>9
    <2>1. PICK k \in DOMAIN s : \E l \in DOMAIN s : k < l /\ x = s[k] /\ y = s[l]
      <3> HIDE DEF pairs
      <3> QED BY <1>6
    <2>2. PICK l \in DOMAIN s : k < l /\ x = s[k] /\ y = s[l]
      BY <2>1
    <2>3. ASSUME {x, y} = {a, b}
          PROVE  <<x, y>> = refs
      <3>1. (x = a /\ y = b) \/ (x = b /\ y = a)
        BY <2>3
      <3>2. CASE x = a /\ y = b
        <4>1. k = i /\ l = j
          BY <1>2, <1>3, <1>4, <2>2, <3>2
        <4> QED BY <2>2, <3>2, <4>1
      <3>3. CASE x = b /\ y = a
        <4>1. k = j /\ l = i
          BY <1>2, <1>3, <1>4, <2>2, <3>3
        <4>2. ~ (i < j)
          BY <1>2, <2>2, <4>1
        <4> QED BY <3>3, <4>2
      <3> QED BY <3>1, <3>2, <3>3
    <2>4. ASSUME <<x, y>> = refs
          PROVE  {x, y} = {a, b}
      <3>1. CASE i < j
        BY <2>4, <3>1
      <3>2. CASE ~ (i < j)
        BY <2>4, <3>2
      <3> QED BY <3>1, <3>2
    <2> QED BY <2>3, <2>4
  <1>11. refs \in pairs <=> SlotsOverlap(a, b)
    <2>1. ASSUME SlotsOverlap(a, b)
          PROVE  refs \in pairs
      <3>1. CASE i < j
        <4>1. <<a, b>> \in pairs
          <5> HIDE DEF pairs
          <5> QED BY <1>3, <1>4, <1>6, <2>1, <3>1
        <4> QED BY <3>1, <4>1
      <3>2. CASE ~ (i < j)
        <4>1. <<b, a>> \in pairs
          <5> HIDE DEF pairs
          <5> QED BY <1>3, <1>4, <1>6, <1>7, <1>8, <2>1, <3>2
        <4> QED BY <3>2, <4>1
      <3> QED BY <3>1, <3>2
    <2>2. ASSUME refs \in pairs
          PROVE  SlotsOverlap(a, b)
      <3>1. <<a, b>> \in pairs \/ <<b, a>> \in pairs
        <4> HIDE DEF pairs
        <4> QED BY <2>2
      <3>2. SlotsOverlap(a, b) \/ SlotsOverlap(b, a)
        <4> HIDE DEF pairs
        <4> QED BY <1>6, <3>1
      <3> QED BY <1>8, <3>2
    <2> QED BY <2>1, <2>2
  <1>12. /\ refs \in sameRoom <=> SlotsOverlap(a, b) /\ "room" \in Shared(a, b)
         /\ refs \in samePeople <=> SlotsOverlap(a, b) /\ "people" \in Shared(a, b)
    <2>1. /\ {refs[1], refs[2]} = {a, b}
          /\ (refs[1] = a /\ refs[2] = b) \/ (refs[1] = b /\ refs[2] = a)
      BY <1>7
    <2>2. /\ refs \in sameRoom <=> /\ refs \in pairs
                                   /\ slots[a].room = slots[b].room /\ slots[a].room # NoText
          /\ refs \in samePeople <=> /\ refs \in pairs
                                     /\ slots[a].people \cap slots[b].people # {}
      <3> HIDE DEF pairs, refs
      <3> QED BY <2>1
    <2>3. /\ "room" \in Shared(a, b) <=>
                slots[a].room = slots[b].room /\ slots[a].room # NoText
          /\ "people" \in Shared(a, b) <=> slots[a].people \cap slots[b].people # {}
      BY DEF Shared
    <2> HIDE DEF refs, pairs, sameRoom, samePeople
    <2> QED BY <1>11, <2>2, <2>3
  <1>13. Shared(a, b) \subseteq {"room", "people"}
    BY DEF Shared
  <1>14. /\ \A p \in sameRoom : p \in pairs
         /\ \A p \in samePeople : p \in pairs
    OBVIOUS
  <1> HIDE DEF refs, pairs, sameRoom, samePeople
  <1>15. \A w \in about : \E c \in Shared(a, b) :
            SlotsOverlap(a, b) /\ w = [code |-> c, refs |-> refs]
    <2> SUFFICES ASSUME NEW w \in RehearsalConflicts(s), ToSet(w.refs) = {a, b}
                 PROVE  \E c \in Shared(a, b) :
                           SlotsOverlap(a, b) /\ w = [code |-> c, refs |-> refs]
      BY DEF About
    <2>1. CASE w \in {[code |-> "room", refs |-> p] : p \in sameRoom}
      <3>1. PICK p \in sameRoom : w = [code |-> "room", refs |-> p]
        BY <2>1
      <3>2. p = refs
        BY <1>10, <1>14, <3>1
      <3> QED BY <1>12, <3>1, <3>2
    <2>2. CASE w \in {[code |-> "people", refs |-> p] : p \in samePeople}
      <3>1. PICK p \in samePeople : w = [code |-> "people", refs |-> p]
        BY <2>2
      <3>2. p = refs
        BY <1>10, <1>14, <3>1
      <3> QED BY <1>12, <3>1, <3>2
    <2> QED BY <1>1, <2>1, <2>2
  <1>16. ASSUME NEW c \in Shared(a, b), SlotsOverlap(a, b)
         PROVE  [code |-> c, refs |-> refs] \in about
    <2> DEFINE w == [code |-> c, refs |-> refs]
    <2>1. w.refs = refs /\ ToSet(refs) = {a, b}
      BY <1>10, <1>11, <1>16
    <2>2. c = "room" \/ c = "people"
      BY <1>13
    <2>3. w \in RehearsalConflicts(s)
      BY <1>1, <1>12, <1>16, <2>2
    <2> QED BY <2>1, <2>3 DEF About
  <1>17. about = {[code |-> c, refs |-> refs] :
                    c \in IF SlotsOverlap(a, b) THEN Shared(a, b) ELSE {}}
    <2> HIDE DEF about
    <2> QED BY <1>15, <1>16
  <1> QED BY <1>17 DEF IsWarnedOnce

\* What a pack warns of two of its rehearsals is what they clash in.
LEMMA WarnedOfClash ==
    ASSUME AssemblyTypeOK, NEW d \in Dates, NEW a \in RehearsedOn(d), NEW b \in RehearsedOn(d),
           a # b
    PROVE  LET about == {w \in PackContent(d).warnings : ToSet(w.refs) = {a, b}}
           IN  {w.code : w \in about} = Clash(a, b)
               /\ Cardinality(about) = Cardinality(Clash(a, b))
  <1> DEFINE about == {w \in PackContent(d).warnings : ToSet(w.refs) = {a, b}}
  <1>1. Clash(a, b) = IF SlotsOverlap(a, b) THEN Shared(a, b) ELSE {}
    <2>1. \A s \in RehearsedOn(d) : s \in SlotIds /\ slots[s].starts_at # NoTime
      BY DEF RehearsedOn
    <2>2. Instants(a) \cap Instants(b) # {} <=> SlotsOverlap(a, b)
      BY <2>1, RowsAre, MeetingIsOverlap
    <2> QED BY <2>2 DEF Clash, Shared
  <1>2. PICK refs : about = {[code |-> c, refs |-> refs] : c \in Clash(a, b)}
    <2> DEFINE s == PackContent(d).rehearsals
               S == RehearsedOn(d)
               before == Earlier(slots, S)
    <2>1. /\ Sorts(s, S, before) /\ a \in S /\ b \in S
          /\ PackContent(d).warnings = RehearsalConflicts(s)
      BY PackIs
    <2> HIDE DEF s, S, before
    <2>2. IsWarnedOnce(s, a, b)
      BY <2>1, WarnedOnce
    <2>3. PICK refs : About(s, a, b)
                        = {[code |-> c, refs |-> refs] :
                             c \in IF SlotsOverlap(a, b) THEN Shared(a, b) ELSE {}}
      BY <2>2 DEF IsWarnedOnce
    <2>4. about = About(s, a, b)
      BY <2>1 DEF About
    <2> HIDE DEF about
    <2>5. about = {[code |-> c, refs |-> refs] : c \in Clash(a, b)}
      BY <1>1, <2>3, <2>4, Zenon
    <2> QED BY <2>5
  <1> HIDE DEF about
  <1>3. {w.code : w \in about} = Clash(a, b)
    <2>1. \A w \in about : w.code \in Clash(a, b)
      BY <1>2
    <2>2. ASSUME NEW c \in Clash(a, b)
          PROVE  \E w \in about : w.code = c
      <3>1. [code |-> c, refs |-> refs] \in about /\ [code |-> c, refs |-> refs].code = c
        BY <1>2
      <3> QED BY <3>1
    <2> QED BY <2>1, <2>2
  <1>4. IsFiniteSet(Clash(a, b))
    <2>1. Clash(a, b) \in SUBSET {"room", "people"}
      BY DEF Clash
    <2>2. IsFiniteSet({"room"} \cup {"people"})
      BY FS_Singleton, FS_AddElement
    <2>3. {"room", "people"} = {"room"} \cup {"people"}
      OBVIOUS
    <2> QED BY <2>1, <2>2, <2>3, FS_Subset
  <1>5. ExistsBijection(Clash(a, b), about)
    <2> DEFINE f == [c \in Clash(a, b) |-> [code |-> c, refs |-> refs]]
    <2>1. f \in [Clash(a, b) -> about]
      BY <1>2
    <2>2. \A c, e \in Clash(a, b) : f[c] = f[e] => c = e
      <3>1. \A c \in Clash(a, b) : f[c].code = c
        OBVIOUS
      <3> HIDE DEF f
      <3> QED BY <3>1
    <2>3. \A w \in about : \E c \in Clash(a, b) : f[c] = w
      BY <1>2
    <2> HIDE DEF f
    <2>4. f \in Bijection(Clash(a, b), about)
      BY <2>1, <2>2, <2>3 DEF Bijection, Injection, IsInjective, Surjection
    <2> QED BY <2>4 DEF ExistsBijection
  <1>6. Cardinality(about) = Cardinality(Clash(a, b))
    BY <1>4, <1>5, FS_Bijection
  <1> QED BY <1>3, <1>6 DEF about

-----------------------------------------------------------------------------
\* Sequences put after one another, as far as the i-th.
FlatAfter(f, seqs, i) == IF i = 1 THEN seqs[i] ELSE f[i - 1] \o seqs[i]

\* The loop over the sequences is defined.
LEMMA FlattenIs ==
    ASSUME NEW seqs, Len(seqs) \in Nat, Len(seqs) # 0
    PROVE  \E f : /\ f = [i \in 1..Len(seqs) |-> FlatAfter(f, seqs, i)]
                  /\ FlattenSeq(seqs) = f[Len(seqs)]
  <1> DEFINE Computes(f, m) == f = [i \in 1..m |-> FlatAfter(f, seqs, i)]
             Good == {m \in 0..Len(seqs) : \E f : Computes(f, m)}
  <1>1. 0 \in Good
    <2> DEFINE empty == [i \in 1..0 |-> <<>>]
    <2>1. Computes(empty, 0)
      OBVIOUS
    <2> HIDE DEF empty, Computes
    <2> QED BY <2>1
  <1>2. ASSUME NEW m \in 1..Len(seqs), m - 1 \in Good
        PROVE  m \in Good
    <2>1. PICK f : Computes(f, m - 1)
      BY <1>2
    <2> DEFINE last == FlatAfter(f, seqs, m)
               g == [i \in 1..m |-> IF i = m THEN last ELSE f[i]]
    <2>2. ASSUME NEW i \in 1..m PROVE g[i] = FlatAfter(g, seqs, i)
      <3>1. i = m => g[i] = last /\ (i # 1 => g[i - 1] = f[i - 1])
        BY <1>2
      <3>2. i # m => /\ g[i] = FlatAfter(f, seqs, i)
                     /\ i # 1 => g[i - 1] = f[i - 1]
        BY <1>2, <2>1
      <3> HIDE DEF g
      <3> QED BY <3>1, <3>2 DEF FlatAfter
    <2>3. g = [i \in 1..m |-> g[i]]
      OBVIOUS
    <2> HIDE DEF g
    <2>4. Computes(g, m)
      BY <2>2, <2>3
    <2> QED BY <2>4
  <1>3. \E f : Computes(f, Len(seqs))
    <2> HIDE DEF Good
    <2>1. \A m \in 0..Len(seqs) : m \in Good
      BY <1>1, <1>2, Climbing
    <2> QED BY <2>1 DEF Good
  <1>4. FlattenSeq(seqs) = (CHOOSE f : Computes(f, Len(seqs)))[Len(seqs)]
    BY DEF FlattenSeq, FlatAfter
  <1> HIDE DEF Computes
  <1>5. Computes(CHOOSE f : Computes(f, Len(seqs)), Len(seqs))
    BY <1>3
  <1> QED BY <1>4, <1>5 DEF Computes

CallRow == [performance : Nat, track : Nat, call_at : Int]
CastTracks == {t \in LinkedTracks : tracks[t].primary # NoText}

\* calls are those of the first m performances of s for all cast roles, in order.
Calls(calls, s, m) ==
    /\ calls \in Seq(CallRow)
    /\ {<<calls[i].performance, calls[i].track>> : i \in DOMAIN calls}
         = {s[k] : k \in 1..m} \X CastTracks
    /\ \A i, j \in DOMAIN calls : i < j => calls[i].call_at <= calls[j].call_at
    /\ \A i \in DOMAIN calls : calls[i].call_at <= shows[s[m]].starts_at - CallOffset

\* The timeline has the calls of all cast roles for all performances, in order.
LEMMA TimelineIs ==
    ASSUME AssemblyTypeOK, NEW d \in Dates
    PROVE  LET s == PackContent(d).performances
               calls == PackContent(d).call_timeline
           IN  /\ {<<calls[i].performance, calls[i].track>> : i \in DOMAIN calls}
                    = ToSet(s) \X CastTracks
               /\ \A i, j \in DOMAIN calls : i < j => calls[i].call_at <= calls[j].call_at
  <1> DEFINE s == PackContent(d).performances
             S == ShownOn(d)
             n == Len(s)
             order == InOrder(CastTracks, Smaller(CastTracks))
             At(i) == shows[s[i]].starts_at - CallOffset
             TrackCall(i, k) == [performance |-> s[i], track |-> order[k], call_at |-> At(i)]
             seqs == [i \in DOMAIN s |-> [k \in DOMAIN order |-> TrackCall(i, k)]]
             calls == PackContent(d).call_timeline
  <1>1. /\ n \in Nat /\ DOMAIN s = 1..n /\ ToSet(s) = S
        /\ \A i \in 1..n : s[i] \in S
        /\ \A i, j \in 1..n : i < j => <<s[i], s[j]>> \in Earlier(shows, S)
        /\ calls = CallTimeline(s)
    <2>1. /\ Sorts(s, S, Earlier(shows, S)) /\ calls = CallTimeline(s)
      BY PackIs
    <2> HIDE DEF s, S, calls
    <2> QED BY <2>1 DEF Sorts
  <1>2. CastTracks \in SUBSET Nat /\ IsFiniteSet(CastTracks)
    <2>1. CastTracks \in SUBSET TrackIds
      BY DEF CastTracks, LinkedTracks
    <2> QED BY <2>1, AssemblyAssumption, FS_Subset
  <1>3. Sorts(order, CastTracks, Smaller(CastTracks))
    BY <1>2, IdsAreOrdered, InOrderSorts
  <1>4. /\ DOMAIN order = 1..Len(order) /\ Len(order) \in Nat
        /\ \A k \in DOMAIN order : order[k] \in CastTracks
        /\ \A t \in CastTracks : \E k \in DOMAIN order : order[k] = t
    <2> HIDE DEF order
    <2> QED BY <1>3 DEF Sorts, ToSet
  <1>5. \A p \in S : p \in Nat /\ shows[p].starts_at \in Int
    <2>1. \A p \in S : p \in ShowIds /\ shows[p].starts_at # NoTime
      BY DEF ShownOn
    <2> QED BY <2>1, RowsAre, AssemblyAssumption
  <1>6. CallOffset \in Int
    BY AssemblyAssumption
  <1>7. calls = FlattenSeq(seqs)
    BY <1>1 DEF CallTimeline, CastTracks
  <1>8. \A i \in 1..n : At(i) \in Int
    <2> HIDE DEF s, S, n
    <2> QED BY <1>1, <1>5, <1>6
  <1>9. \A i, j \in 1..n : i < j => At(i) <= At(j)
    <2> SUFFICES ASSUME NEW i \in 1..n, NEW j \in 1..n, i < j PROVE At(i) <= At(j)
      OBVIOUS
    <2> HIDE DEF s, S, n
    <2>1. <<s[i], s[j]>> \in Earlier(shows, S)
      BY <1>1
    <2>2. shows[s[i]].starts_at <= shows[s[j]].starts_at
      BY <1>1, <1>5, <2>1 DEF Earlier
    <2> QED BY <1>1, <1>5, <1>6, <2>2
  <1> HIDE DEF s, S, order, At, n
  <1>10. /\ Len(seqs) = n
         /\ \A i \in 1..n : /\ seqs[i] \in Seq(CallRow) /\ Len(seqs[i]) = Len(order)
                            /\ \A k \in 1..Len(order) : seqs[i][k] = TrackCall(i, k)
    <2>1. Len(seqs) = n
      BY <1>1
    <2>2. ASSUME NEW i \in 1..n
          PROVE  /\ seqs[i] \in Seq(CallRow) /\ Len(seqs[i]) = Len(order)
                 /\ \A k \in 1..Len(order) : seqs[i][k] = TrackCall(i, k)
      <3>1. seqs[i] = [k \in 1..Len(order) |-> TrackCall(i, k)]
        BY <1>1, <1>4
      <3>2. \A k \in 1..Len(order) : TrackCall(i, k) \in CallRow
        BY <1>1, <1>2, <1>4, <1>5, <1>8 DEF CallRow
      <3> HIDE DEF seqs, Row
      <3>3. seqs[i] \in [1..Len(order) -> CallRow]
        BY <3>1, <3>2
      <3> QED BY <1>4, <3>1, <3>3
    <2> HIDE DEF seqs, Row
    <2> QED BY <2>1, <2>2
  <1>11. CASE n = 0
    <2>1. calls = <<>>
      BY <1>1, <1>7, <1>10, <1>11 DEF FlattenSeq
    <2>2. ToSet(s) = {}
      BY <1>1, <1>11 DEF ToSet
    <2>3. DOMAIN calls = {}
      BY <2>1
    <2> HIDE DEF calls
    <2> QED BY <2>2, <2>3 DEF s, calls
  <1>12. CASE n # 0
    <2>1. PICK f : /\ f = [i \in 1..n |-> FlatAfter(f, seqs, i)]
                   /\ FlattenSeq(seqs) = f[n]
      <3> HIDE DEF seqs
      <3> QED BY <1>1, <1>10, <1>12, FlattenIs
    <2>2. \A i \in 1..n : f[i] = FlatAfter(f, seqs, i)
      BY <2>1
    <2>3. ASSUME NEW m \in 1..n, m = 1 \/ Calls(f[m - 1], s, m - 1)
          PROVE  Calls(f[m], s, m)
      <3> DEFINE own == seqs[m]
                 old == IF m = 1 THEN <<>> ELSE f[m - 1]
                 K == Len(order)
                 L == Len(old)
      <3>1. /\ own \in Seq(CallRow) /\ Len(own) = K /\ K \in Nat /\ m \in Nat /\ m >= 1
            /\ \A k \in 1..K : own[k] = TrackCall(m, k)
        BY <1>1, <1>4, <1>10
      <3>2. /\ old \in Seq(CallRow) /\ L \in Nat /\ DOMAIN old = 1..L
            /\ {<<old[i].performance, old[i].track>> : i \in 1..L}
                 = {s[k] : k \in 1..(m - 1)} \X CastTracks
            /\ \A i, j \in 1..L : i < j => old[i].call_at <= old[j].call_at
            /\ \A i \in 1..L : old[i].call_at <= At(m)
        <4>1. CASE m = 1
          <5>1. old = <<>> /\ L = 0
            BY <4>1
          <5>2. old \in Seq(CallRow) /\ DOMAIN old = 1..L
            <6> HIDE DEF old, L
            <6> QED BY <5>1
          <5>3. 1..L = {} /\ 1..(m - 1) = {}
            BY <4>1, <5>1
          <5> HIDE DEF old, L
          <5> QED BY <5>1, <5>2, <5>3
        <4>2. CASE m # 1
          <5>1. /\ Calls(old, s, m - 1) /\ m - 1 \in 1..n /\ m - 1 < m
            BY <1>1, <2>3, <4>2
          <5>2. At(m - 1) <= At(m) /\ At(m - 1) \in Int /\ At(m) \in Int
            BY <1>8, <1>9, <5>1
          <5>3. old \in Seq(CallRow) /\ L \in Nat /\ DOMAIN old = 1..L
            <6> HIDE DEF old
            <6> QED BY <5>1 DEF Calls
          <5>4. \A i \in 1..L : old[i].call_at \in Int /\ old[i].call_at <= At(m - 1)
            <6>1. \A i \in 1..L : old[i] \in CallRow
              <7> HIDE DEF old
              <7> QED BY <5>3
            <6> HIDE DEF old, L
            <6> QED BY <5>1, <5>3, <6>1 DEF Calls, CallRow, At
          <5> HIDE DEF old, L
          <5>5. \A i \in 1..L : old[i].call_at <= At(m)
            BY <5>2, <5>4
          <5> QED BY <5>1, <5>3, <5>5 DEF Calls
        <4> QED BY <4>1, <4>2
      <3>3. f[m] = old \o own
        <4>1. f[m] = FlatAfter(f, seqs, m)
          BY <2>2
        <4>2. m = 1 => old \o own = own
          BY <3>1
        <4> HIDE DEF seqs
        <4> QED BY <4>1, <4>2 DEF FlatAfter
      <3> HIDE DEF old, own, seqs
      <3> DEFINE c == old \o own
      <3>4. /\ c \in Seq(CallRow) /\ Len(c) = L + K /\ DOMAIN c = 1..(L + K)
            /\ \A i \in 1..L : c[i] = old[i]
            /\ \A i \in (L + 1)..(L + K) : i - L \in 1..K /\ c[i] = own[i - L]
            /\ \A k \in 1..K : k + L \in (L + 1)..(L + K) /\ c[k + L] = own[k]
        <4>1. /\ c \in Seq(CallRow) /\ Len(c) = L + K
              /\ \A i \in 1..(L + K) : c[i] = IF i <= L THEN old[i] ELSE own[i - L]
          <5>1. old \in Seq(CallRow) /\ own \in Seq(CallRow) /\ Len(old) = L /\ Len(own) = K
            BY <3>1, <3>2
          <5> HIDE DEF L, K
          <5> QED BY <5>1, ConcatProperties
        <4>2. DOMAIN c = 1..Len(c) /\ L \in Nat /\ K \in Nat
          BY <3>1, <3>2, <4>1
        <4> HIDE DEF c, L, K
        <4> QED BY <4>1, <4>2
      <3>5. \A k \in 1..K : /\ own[k].performance = s[m] /\ own[k].track = order[k]
                            /\ own[k].call_at = At(m) /\ order[k] \in CastTracks
        <4>1. \A k \in 1..K : order[k] \in CastTracks
          BY <1>4
        <4>2. ASSUME NEW k \in 1..K
              PROVE  /\ own[k].performance = s[m] /\ own[k].track = order[k]
                     /\ own[k].call_at = At(m)
          <5>1. own[k] = [performance |-> s[m], track |-> order[k], call_at |-> At(m)]
            BY <3>1
          <5> QED BY <5>1
        <4> HIDE DEF K, L, c, Row
        <4> QED BY <4>1, <4>2
      <3> HIDE DEF L, K, Row, c
      <3>6. \A i \in 1..(L + K) : i \in 1..L \/ i \in (L + 1)..(L + K)
        BY <3>1, <3>2
      <3>7. {<<c[i].performance, c[i].track>> : i \in DOMAIN c} = {s[k] : k \in 1..m} \X CastTracks
        <4>1. ASSUME NEW i \in DOMAIN c
              PROVE  <<c[i].performance, c[i].track>> \in {s[k] : k \in 1..m} \X CastTracks
          <5>1. CASE i \in 1..L
            <6>1. <<c[i].performance, c[i].track>> \in {s[k] : k \in 1..(m - 1)} \X CastTracks
              BY <3>2, <3>4, <5>1
            <6>2. \A k \in 1..(m - 1) : k \in 1..m
              BY <3>1
            <6> QED BY <6>1, <6>2
          <5>2. CASE i \in (L + 1)..(L + K)
            <6>1. c[i].performance = s[m] /\ c[i].track \in CastTracks
              BY <3>4, <3>5, <5>2
            <6>2. m \in 1..m
              BY <3>1
            <6> QED BY <6>1, <6>2
          <5> QED BY <3>4, <3>6, <5>1, <5>2
        <4>2. ASSUME NEW k \in 1..m, NEW t \in CastTracks
              PROVE  \E i \in DOMAIN c : <<c[i].performance, c[i].track>> = <<s[k], t>>
          <5>1. CASE k = m
            <6>1. PICK l \in 1..K : order[l] = t
              BY <1>4 DEF K
            <6>2. l + L \in DOMAIN c
              BY <3>1, <3>2, <3>4
            <6>3. c[l + L].performance = s[k] /\ c[l + L].track = t
              BY <3>4, <3>5, <5>1, <6>1
            <6> QED BY <6>2, <6>3
          <5>2. CASE k # m
            <6>1. k \in 1..(m - 1)
              BY <3>1, <5>2
            <6>2. <<s[k], t>> \in {<<old[i].performance, old[i].track>> : i \in 1..L}
              BY <3>2, <6>1
            <6>3. PICK i \in 1..L : <<old[i].performance, old[i].track>> = <<s[k], t>>
              BY <6>2
            <6>4. i \in DOMAIN c
              BY <3>1, <3>2, <3>4
            <6> QED BY <3>4, <6>3, <6>4
          <5> QED BY <5>1, <5>2
        <4> QED BY <4>1, <4>2
      <3>8. \A i \in 1..L : old[i].call_at \in Int
        <4>1. \A i \in 1..L : old[i] \in CallRow
          BY <3>2
        <4> QED BY <4>1 DEF CallRow
      <3>9. At(m) \in Int
        BY <1>8
      <3>10. ASSUME NEW i \in DOMAIN c, NEW j \in DOMAIN c, i < j
             PROVE  c[i].call_at <= c[j].call_at
        <4>1. CASE i \in 1..L /\ j \in 1..L
          BY <3>2, <3>4, <3>10, <4>1
        <4>2. CASE i \in 1..L /\ j \in (L + 1)..(L + K)
          BY <3>2, <3>4, <3>5, <4>2
        <4>3. CASE i \in (L + 1)..(L + K) /\ j \in (L + 1)..(L + K)
          BY <3>4, <3>5, <3>9, <4>3, SMTT(30)
        <4>4. ~ (i \in (L + 1)..(L + K) /\ j \in 1..L)
          BY <3>1, <3>2, <3>10
        <4> QED BY <3>4, <3>6, <4>1, <4>2, <4>3, <4>4
      <3>11. ASSUME NEW i \in DOMAIN c
             PROVE  c[i].call_at <= At(m)
        <4>1. CASE i \in 1..L
          BY <3>2, <3>4, <4>1
        <4>2. CASE i \in (L + 1)..(L + K)
          BY <3>4, <3>5, <3>9, <4>2
        <4> QED BY <3>4, <3>6, <4>1, <4>2
      <3>12. Calls(c, s, m)
        BY <3>4, <3>7, <3>10, <3>11 DEF Calls, At
      <3> QED BY <3>3, <3>12 DEF c
    <2> DEFINE Good == {m \in 0..n : m = 0 \/ Calls(f[m], s, m)}
    <2>4. n \in Good
      <3>1. 0 \in Good
        BY <1>1
      <3>2. \A m \in 1..n : m - 1 \in Good => m \in Good
        <4> SUFFICES ASSUME NEW m \in 1..n, m - 1 \in Good PROVE m \in Good
          OBVIOUS
        <4>1. m = 1 \/ Calls(f[m - 1], s, m - 1)
          BY <1>1
        <4>2. m \in 0..n
          BY <1>1
        <4> QED BY <2>3, <4>1, <4>2
      <3> HIDE DEF Good
      <3>3. \A m \in 0..n : m \in Good
        BY <1>1, <3>1, <3>2, Climbing
      <3> QED BY <1>1, <3>3
    <2>5. Calls(calls, s, n)
      BY <1>7, <1>12, <2>1, <2>4
    <2>6. {s[k] : k \in 1..n} = ToSet(s)
      BY <1>1 DEF ToSet
    <2> HIDE DEF calls
    <2>7. /\ {<<calls[i].performance, calls[i].track>> : i \in DOMAIN calls} = ToSet(s) \X CastTracks
          /\ \A i, j \in DOMAIN calls : i < j => calls[i].call_at <= calls[j].call_at
      BY <2>5, <2>6 DEF Calls
    <2> QED BY <2>7 DEF s, calls
  <1> QED BY <1>11, <1>12

\* The rows of the catalog keep their types, whatever is edited.
LEMMA AssemblyTypes ==
    /\ ServicesInit => AssemblyTypeOK
    /\ AssemblyTypeOK /\ [ServicesNext]_servicesVars => AssemblyTypeOK'
  <1>1. ASSUME ServicesInit PROVE AssemblyTypeOK
    <2>1. /\ \E row \in ShowRows : row.starts_at = NoTime
          /\ \E row \in SlotRows : row.starts_at = NoTime
          /\ \E row \in TrackRows : ~row.linked
          /\ "UTC" \in ZoneNames
      BY AssemblyAssumption, RowsAssumption
    <2>2. /\ (CHOOSE row \in ShowRows : row.starts_at = NoTime) \in ShowRows
          /\ (CHOOSE row \in SlotRows : row.starts_at = NoTime) \in SlotRows
          /\ (CHOOSE row \in TrackRows : ~row.linked) \in TrackRows
      BY <2>1, Zenon
    <2>3. AssemblyInit
      BY <1>1 DEF ServicesInit
    <2> QED BY <2>1, <2>2, <2>3 DEF AssemblyInit, AssemblyTypeOK
  <1>2. ASSUME AssemblyTypeOK, [ServicesNext]_servicesVars PROVE AssemblyTypeOK'
    <2>1. CASE UNCHANGED assemblyVars
      BY <1>2, <2>1 DEF AssemblyTypeOK, assemblyVars
    <2>2. CASE AssemblyNext
      BY <1>2, <2>2 DEF AssemblyNext, AssemblyTypeOK, MoveProduction, EditShow, EditSlot,
                        EditTrack, EditProp
    <2> QED BY <1>2, <2>1, <2>2 DEF ServicesNext, servicesVars
  <1> QED BY <1>1, <1>2

\* A performance is in the pack of exactly one day and a rehearsal in that of each day it
\* reaches into, in any time zone and with days of any lengths; rehearsals that clash are
\* warned about once for each thing they clash in; and the timeline has every call, in order.
THEOREM PacksTell == ServicesSpec => []PacksTellTheSchedule
  <1>1. AssemblyTypeOK => PacksTellTheSchedule
    <2> SUFFICES ASSUME AssemblyTypeOK PROVE PacksTellTheSchedule
      OBVIOUS
    <2> DEFINE pack == [d \in Dates |-> PackContent(d)]
    <2>1. ASSUME NEW d \in Dates
          PROVE  /\ pack[d] = PackContent(d)
                 /\ ToSet(PackContent(d).performances) = ShownOn(d)
                 /\ ToSet(PackContent(d).rehearsals) = RehearsedOn(d)
      BY PackIs DEF Sorts
    <2> HIDE DEF pack
    <2>2. ASSUME NEW p \in ShowIds, shows[p].linked, shows[p].starts_at \in Covered
          PROVE  {d \in Dates : p \in ToSet(pack[d].performances)} = {DayOf(shows[p].starts_at)}
      <3>1. {d \in Dates : p \in ShownOn(d)} = {DayOf(shows[p].starts_at)}
        BY <2>2, ShownOnItsDay
      <3>2. {d \in Dates : p \in ToSet(pack[d].performances)} = {d \in Dates : p \in ShownOn(d)}
        BY <2>1
      <3> QED BY <3>1, <3>2
    <2>3. ASSUME NEW s \in SlotIds, slots[s].linked, slots[s].starts_at # NoTime
          PROVE  {d \in Dates : s \in ToSet(pack[d].rehearsals)}
                   = {DayOf(m) : m \in Instants(s) \cap Covered}
      <3>1. {d \in Dates : s \in RehearsedOn(d)} = {DayOf(m) : m \in Instants(s) \cap Covered}
        BY <2>3, RehearsedOnItsDays
      <3>2. {d \in Dates : s \in ToSet(pack[d].rehearsals)} = {d \in Dates : s \in RehearsedOn(d)}
        BY <2>1
      <3> QED BY <3>1, <3>2, Zenon
    <2>4. ASSUME NEW d \in Dates, NEW a \in ToSet(pack[d].rehearsals),
                 NEW b \in ToSet(pack[d].rehearsals), a < b
          PROVE  LET about == {w \in pack[d].warnings : ToSet(w.refs) = {a, b}}
                 IN  {w.code : w \in about} = Clash(a, b)
                     /\ Cardinality(about) = Cardinality(Clash(a, b))
      <3>1. pack[d] = PackContent(d) /\ a \in RehearsedOn(d) /\ b \in RehearsedOn(d)
        BY <2>1
      <3>2. a # b
        <4>1. a \in Nat /\ b \in Nat
          BY <3>1, AssemblyAssumption DEF RehearsedOn
        <4> QED BY <2>4, <4>1
      <3>3. LET about == {w \in PackContent(d).warnings : ToSet(w.refs) = {a, b}}
            IN  {w.code : w \in about} = Clash(a, b)
                /\ Cardinality(about) = Cardinality(Clash(a, b))
        BY <3>1, <3>2, WarnedOfClash
      <3> QED BY <3>1, <3>3, Zenon
    <2>5. ASSUME NEW d \in Dates
          PROVE  LET calls == pack[d].call_timeline
                 IN  /\ {<<calls[i].performance, calls[i].track>> : i \in DOMAIN calls}
                          = ToSet(pack[d].performances)
                              \X {t \in LinkedTracks : tracks[t].primary # NoText}
                     /\ \A i, j \in DOMAIN calls : i < j => calls[i].call_at <= calls[j].call_at
      <3> DEFINE s == PackContent(d).performances
                 calls == PackContent(d).call_timeline
      <3>1. /\ {<<calls[i].performance, calls[i].track>> : i \in DOMAIN calls}
                 = ToSet(s) \X CastTracks
            /\ \A i, j \in DOMAIN calls : i < j => calls[i].call_at <= calls[j].call_at
        BY TimelineIs
      <3>2. calls = pack[d].call_timeline /\ s = pack[d].performances
        BY <2>1
      <3>3. CastTracks = {t \in LinkedTracks : tracks[t].primary # NoText}
        BY DEF CastTracks
      <3> HIDE DEF s, calls
      <3> QED BY <3>1, <3>2, <3>3, Zenon
    <2> QED BY <2>2, <2>3, <2>4, <2>5, Zenon DEF PacksTellTheSchedule, pack
  <1> QED BY <1>1, AssemblyTypes, PTL DEF ServicesSpec

-----------------------------------------------------------------------------
(***************************************************************************)
(* What the pages of listings and queries, and aggregates, show of the     *)
(* rows.                                                                   *)
(***************************************************************************)
\* What the path of a sort key leads to in a row is a number or nothing.
LEMMA KeyLeadsTo ==
    ASSUME NEW key \in SortKey, NEW row \in Row
    PROVE  Resolve(row, key.path) \in Nat \cup {Missing}
  <1>1. key.path \in STRING /\ key.path \notin {"slug", "status", "tags"}
    BY DEF SortKey
  <1>2. DOMAIN row = {"id", "slug", "name", "status", "tags", "season", "notes", "version"}
    BY DEF Row
  <1>3. row.id \in Nat /\ row.name \in Nat /\ row.season \in Nat \cup {Missing}
        /\ row.notes \in Nat /\ row.version \in Nat
    BY CatalogAssumption DEF Row, Entities
  <1>4. CASE key.path \notin DOMAIN row
    BY <1>4 DEF Resolve
  <1>5. CASE key.path \in DOMAIN row
    <2>1. Resolve(row, key.path) = row[key.path]
      BY <1>5 DEF Resolve
    <2>2. key.path \in {"id", "name", "season", "notes", "version"}
      BY <1>1, <1>2, <1>5
    <2> QED BY <1>3, <2>1, <2>2
  <1> QED BY <1>4, <1>5

\* A sort key compares rows as a sort needs them compared, up to ties.
LEMMA KeyOrders ==
    ASSUME NEW key \in SortKey, NEW a \in Row, NEW b \in Row, NEW c \in Row
    PROVE  /\ ~KeyBefore(key, a, a)
           /\ KeyBefore(key, a, b) => ~KeyBefore(key, b, a)
           /\ KeyBefore(key, a, b) /\ KeyBefore(key, b, c) => KeyBefore(key, a, c)
           /\ Tied(key, a, b) /\ Tied(key, b, c) => Tied(key, a, c)
           /\ KeyBefore(key, a, b) /\ Tied(key, b, c) => KeyBefore(key, a, c)
           /\ Tied(key, a, b) /\ KeyBefore(key, b, c) => KeyBefore(key, a, c)
           /\ Tied(key, a, b) = Tied(key, b, a)
  <1> DEFINE x == Resolve(a, key.path)
             y == Resolve(b, key.path)
             z == Resolve(c, key.path)
  <1>1. x \in Nat \cup {Missing} /\ y \in Nat \cup {Missing} /\ z \in Nat \cup {Missing}
    BY KeyLeadsTo
  <1>2. Missing \notin Nat /\ key.missing_last \in BOOLEAN /\ key.descending \in BOOLEAN
    BY MissingAssumption DEF SortKey
  <1> DEFINE Before(u, v) == \/ u = Missing /\ v # Missing /\ ~key.missing_last
                             \/ u # Missing /\ v = Missing /\ key.missing_last
                             \/ u # Missing /\ v # Missing /\ u < v
             First(u, v) == IF key.descending THEN Before(v, u) ELSE Before(u, v)
  <1>3. /\ KeyBefore(key, a, a) = First(x, x) /\ KeyBefore(key, a, b) = First(x, y)
        /\ KeyBefore(key, b, a) = First(y, x) /\ KeyBefore(key, b, c) = First(y, z)
        /\ KeyBefore(key, c, b) = First(z, y) /\ KeyBefore(key, a, c) = First(x, z)
        /\ KeyBefore(key, c, a) = First(z, x)
    BY DEF KeyBefore, SortBefore
  <1>4. /\ ~First(x, x) /\ (First(x, y) => ~First(y, x))
        /\ First(x, y) /\ First(y, z) => First(x, z)
        /\ ~First(x, y) /\ ~First(y, x) /\ ~First(y, z) /\ ~First(z, y)
              => ~First(x, z) /\ ~First(z, x)
        /\ First(x, y) /\ ~First(y, z) /\ ~First(z, y) => First(x, z)
        /\ ~First(x, y) /\ ~First(y, x) /\ First(y, z) => First(x, z)
    <2> HIDE DEF x, y, z
    <2> QED BY <1>1, <1>2
  <1> HIDE DEF First
  <1> QED BY <1>3, <1>4 DEF Tied

-----------------------------------------------------------------------------
\* Row i stands before row j by the keys from the n-th on.
FromKey(n, keys, rows, i, j) ==
    \/ \E k \in n..Len(keys) :
          /\ KeyBefore(keys[k], rows[i], rows[j])
          /\ \A l \in n..(k - 1) : Tied(keys[l], rows[i], rows[j])
    \/ i < j /\ \A k \in n..Len(keys) : Tied(keys[k], rows[i], rows[j])
OrderFrom(n, keys, rows) ==
    {ij \in (DOMAIN rows) \X (DOMAIN rows) : FromKey(n, keys, rows, ij[1], ij[2])}

\* The n-th key decides, and the others do where it does not.
LEMMA FromKeyStep ==
    ASSUME NEW rows \in Seq(Row), NEW keys \in Seq(SortKey), NEW n \in 1..Len(keys),
           NEW i \in DOMAIN rows, NEW j \in DOMAIN rows
    PROVE  FromKey(n, keys, rows, i, j)
             <=> \/ KeyBefore(keys[n], rows[i], rows[j])
                 \/ Tied(keys[n], rows[i], rows[j]) /\ FromKey(n + 1, keys, rows, i, j)
  <1> DEFINE B(k) == KeyBefore(keys[k], rows[i], rows[j])
             T(k) == Tied(keys[k], rows[i], rows[j])
             L == Len(keys)
  <1>1. L \in Nat /\ n \in 1..L /\ n..L = {n} \cup (n + 1)..L
    OBVIOUS
  <1>2. \A k \in (n + 1)..L : n..(k - 1) = {n} \cup (n + 1)..(k - 1)
    BY <1>1
  <1>3. n..(n - 1) = {}
    BY <1>1
  <1> HIDE DEF B, T, L
  <1>4. (\E k \in n..L : B(k) /\ \A l \in n..(k - 1) : T(l))
          <=> B(n) \/ (T(n) /\ \E k \in (n + 1)..L : B(k) /\ \A l \in (n + 1)..(k - 1) : T(l))
    <2>1. ASSUME NEW k \in n..L, B(k), \A l \in n..(k - 1) : T(l)
          PROVE  B(n) \/ (T(n) /\ \E m \in (n + 1)..L : B(m) /\ \A l \in (n + 1)..(m - 1) : T(l))
      <3>1. CASE k = n
        BY <2>1, <3>1
      <3>2. CASE k \in (n + 1)..L
        BY <1>2, <2>1, <3>2, Zenon
      <3> QED BY <1>1, <3>1, <3>2
    <2>2. ASSUME B(n)
          PROVE  \E k \in n..L : B(k) /\ \A l \in n..(k - 1) : T(l)
      <3>1. n \in n..L
        BY <1>1
      <3> QED BY <1>3, <2>2, <3>1, Zenon
    <2>3. ASSUME T(n), NEW k \in (n + 1)..L, B(k), \A l \in (n + 1)..(k - 1) : T(l)
          PROVE  \E m \in n..L : B(m) /\ \A l \in n..(m - 1) : T(l)
      <3>1. k \in n..L
        BY <1>1
      <3>2. \A l \in n..(k - 1) : T(l)
        BY <1>2, <2>3, Zenon
      <3> QED BY <2>3, <3>1, <3>2
    <2> QED BY <2>1, <2>2, <2>3, Zenon
  <1>5. (\A k \in n..L : T(k)) <=> T(n) /\ \A k \in (n + 1)..L : T(k)
    BY <1>1
  <1>6. FromKey(n, keys, rows, i, j)
          <=> \/ \E k \in n..L : B(k) /\ \A l \in n..(k - 1) : T(l)
              \/ i < j /\ \A k \in n..L : T(k)
    BY DEF FromKey, B, T, L
  <1>7. FromKey(n + 1, keys, rows, i, j)
          <=> \/ \E k \in (n + 1)..L : B(k) /\ \A l \in (n + 1)..(k - 1) : T(l)
              \/ i < j /\ \A k \in (n + 1)..L : T(k)
    BY DEF FromKey, B, T, L
  <1>8. FromKey(n, keys, rows, i, j) <=> B(n) \/ (T(n) /\ FromKey(n + 1, keys, rows, i, j))
    BY <1>4, <1>5, <1>6, <1>7, Zenon
  <1> QED BY <1>8 DEF B, T

\* By the keys from any of them on, rows are in an order.
LEMMA KeysOrder ==
    ASSUME NEW rows \in Seq(Row), NEW keys \in Seq(SortKey)
    PROVE  /\ Len(keys) \in Nat
           /\ \A m \in 0..Len(keys) : Ordered(DOMAIN rows, OrderFrom(Len(keys) + 1 - m, keys, rows))
  <1> DEFINE L == Len(keys)
             D == DOMAIN rows
             Before(n, i, j) == FromKey(n, keys, rows, i, j)
             Good == {m \in 0..L : Ordered(D, OrderFrom(L + 1 - m, keys, rows))}
  <1>1. L \in Nat /\ \A i \in D : i \in Nat /\ rows[i] \in Row
    OBVIOUS
  <1>2. \A n, i, j : i \in D /\ j \in D =>
           (<<i, j>> \in OrderFrom(n, keys, rows) <=> Before(n, i, j))
    BY DEF OrderFrom
  <1>3. 0 \in Good
    <2>1. (L + 1 - 0)..L = {} /\ 0 \in 0..L
      BY <1>1
    <2>2. \A i, j \in D : Before(L + 1 - 0, i, j) <=> i < j
      BY <2>1 DEF FromKey
    <2> HIDE DEF D, Before, L
    <2>3. Ordered(D, OrderFrom(L + 1 - 0, keys, rows))
      BY <1>1, <1>2, <2>2 DEF Ordered
    <2> QED BY <2>1, <2>3
  <1>4. ASSUME NEW m \in 1..L, m - 1 \in Good
        PROVE  m \in Good
    <2> DEFINE n == L + 1 - m
               B(i, j) == KeyBefore(keys[n], rows[i], rows[j])
               T(i, j) == Tied(keys[n], rows[i], rows[j])
    <2>1. n \in 1..L /\ L + 1 - (m - 1) = n + 1 /\ m \in 0..L
      BY <1>1
    <2>2. keys[n] \in SortKey
      BY <2>1
    <2>3. Ordered(D, OrderFrom(n + 1, keys, rows))
      BY <1>4, <2>1
    <2>4. \A i, j \in D : Before(n, i, j) <=> B(i, j) \/ (T(i, j) /\ Before(n + 1, i, j))
      BY <2>1, FromKeyStep
    <2>5. \A i, j, k \in D :
             /\ ~B(i, i) /\ (B(i, j) => ~B(j, i))
             /\ (B(i, j) /\ B(j, k) => B(i, k)) /\ (T(i, j) /\ T(j, k) => T(i, k))
             /\ (B(i, j) /\ T(j, k) => B(i, k)) /\ (T(i, j) /\ B(j, k) => B(i, k))
             /\ (T(i, j) <=> ~B(i, j) /\ ~B(j, i))
      BY <1>1, <2>2, KeyOrders DEF Tied
    <2>6. \A i, j, k \in D :
             /\ ~Before(n + 1, i, i)
             /\ i # j => Before(n + 1, i, j) \/ Before(n + 1, j, i)
             /\ Before(n + 1, i, j) /\ Before(n + 1, j, k) => Before(n + 1, i, k)
      <3> HIDE DEF D, Before
      <3> QED BY <1>2, <2>3, ZenonT(40) DEF Ordered
    <2> HIDE DEF D, Before, B, T, L
    <2>7. /\ \A i \in D : ~Before(n, i, i)
          /\ \A i, j \in D : i # j => Before(n, i, j) \/ Before(n, j, i)
      BY <2>4, <2>5, <2>6
    <2>8. ASSUME NEW i \in D, NEW j \in D, NEW k \in D, Before(n, i, j), Before(n, j, k)
          PROVE  Before(n, i, k)
      <3>1. B(i, j) \/ (T(i, j) /\ Before(n + 1, i, j))
        BY <2>4, <2>8
      <3>2. B(j, k) \/ (T(j, k) /\ Before(n + 1, j, k))
        BY <2>4, <2>8
      <3>3. B(i, k) \/ (T(i, k) /\ Before(n + 1, i, k))
        BY <2>5, <2>6, <3>1, <3>2
      <3> QED BY <2>4, <3>3
    <2>9. Ordered(D, OrderFrom(n, keys, rows))
      <3> HIDE DEF n
      <3> QED BY <1>2, <2>7, <2>8 DEF Ordered
    <2> QED BY <2>1, <2>9
  <1>5. \A m \in 0..L : m \in Good
    <2> HIDE DEF Good
    <2> QED BY <1>1, <1>3, <1>4, Climbing
  <1> QED BY <1>1, <1>5

\* The rows at the places of a sorted sequence.
LEMMA RowsAtAre ==
    ASSUME NEW rows \in Seq(Row), NEW places \in SUBSET (DOMAIN rows), NEW before,
           Ordered(places, before)
    PROVE  LET order == InOrder(places, before)
           IN  /\ Sorts(order, places, before)
               /\ RowsAt(rows, places, before) \in Seq(Row)
               /\ Len(RowsAt(rows, places, before)) = Len(order)
               /\ \A n \in 1..Len(order) : RowsAt(rows, places, before)[n] = rows[order[n]]
  <1> DEFINE order == InOrder(places, before)
             shown == [n \in DOMAIN order |-> rows[order[n]]]
  <1>1. IsFiniteSet(places)
    <2>1. IsFiniteSet(1..Len(rows)) /\ DOMAIN rows = 1..Len(rows)
      BY FS_Interval
    <2> QED BY <2>1, FS_Subset
  <1>2. Sorts(order, places, before)
    BY <1>1, InOrderSorts
  <1>3. /\ DOMAIN order = 1..Len(order) /\ Len(order) \in Nat
        /\ \A n \in 1..Len(order) : order[n] \in places
    <2> HIDE DEF order
    <2> QED BY <1>2 DEF Sorts, ToSet
  <1>4. \A i \in places : rows[i] \in Row
    OBVIOUS
  <1> HIDE DEF order
  <1>5. shown = [n \in 1..Len(order) |-> rows[order[n]]]
        /\ \A n \in 1..Len(order) : rows[order[n]] \in Row
    BY <1>3, <1>4
  <1>6. shown \in Seq(Row) /\ Len(shown) = Len(order)
        /\ \A n \in 1..Len(order) : shown[n] = rows[order[n]]
    BY <1>3, <1>5
  <1>7. RowsAt(rows, places, before) = <<>> \o shown
    BY DEF RowsAt, order
  <1>8. <<>> \o shown = shown
    <2> HIDE DEF shown
    <2> QED BY <1>6, ConcatEmptySeq
  <1> HIDE DEF shown
  <1> QED BY <1>2, <1>6, <1>7, <1>8 DEF order

\* by a key, what is in an order already: the order counts where the key does not decide.
LEMMA KeySorts ==
    ASSUME NEW rows \in Seq(Row), NEW key \in SortKey,
           NEW before, Ordered(DOMAIN rows, before),
           NEW after, Ordered(DOMAIN rows, after),
           \A i, j \in DOMAIN rows :
              <<i, j>> \in after <=> \/ KeyBefore(key, rows[i], rows[j])
                                     \/ Tied(key, rows[i], rows[j]) /\ <<i, j>> \in before
    PROVE  SortedBy(key, RowsAt(rows, DOMAIN rows, before)) = RowsAt(rows, DOMAIN rows, after)
  <1> DEFINE D == DOMAIN rows
             p == InOrder(D, before)
             found == RowsAt(rows, D, before)
             E == DOMAIN found
             relation == SortOrder(key, found)
             q == InOrder(E, relation)
             sorted == RowsAt(found, E, relation)
             pq == [n \in 1..Len(q) |-> p[q[n]]]
  <1>1. /\ Sorts(p, D, before) /\ found \in Seq(Row) /\ Len(found) = Len(p)
        /\ \A n \in 1..Len(p) : found[n] = rows[p[n]]
    BY RowsAtAre
  <1> HIDE DEF p, found
  <1>2. /\ E = 1..Len(p) /\ Len(p) \in Nat
        /\ \A n \in E : p[n] \in D /\ found[n] = rows[p[n]] /\ rows[p[n]] \in Row
        /\ \A i \in D : \E n \in E : p[n] = i
        /\ \A m, n \in E : m < n => <<p[m], p[n]>> \in before /\ p[m] # p[n]
    BY <1>1, SMTT(30) DEF Sorts, ToSet
  <1> DEFINE B(m, n) == KeyBefore(key, rows[p[m]], rows[p[n]])
  <1>3. \A m, n \in E : <<m, n>> \in relation <=> B(m, n) \/ (m < n /\ ~B(n, m))
    <2>1. \A m, n \in E : <<m, n>> \in relation
             <=> \/ KeyBefore(key, found[m], found[n])
                 \/ m < n /\ ~KeyBefore(key, found[n], found[m])
      BY DEF SortOrder
    <2> QED BY <1>2, <2>1
  <1>4. \A m, n, k \in E :
           /\ ~B(m, m) /\ (B(m, n) => ~B(n, m))
           /\ B(m, n) /\ B(n, k) => B(m, k)
           /\ ~B(m, n) /\ ~B(n, m) /\ ~B(n, k) /\ ~B(k, n) => ~B(m, k) /\ ~B(k, m)
           /\ B(m, n) /\ ~B(n, k) /\ ~B(k, n) => B(m, k)
           /\ ~B(m, n) /\ ~B(n, m) /\ B(n, k) => B(m, k)
    <2> SUFFICES ASSUME NEW m \in E, NEW n \in E, NEW k \in E
                 PROVE  /\ ~B(m, m) /\ (B(m, n) => ~B(n, m))
                        /\ B(m, n) /\ B(n, k) => B(m, k)
                        /\ ~B(m, n) /\ ~B(n, m) /\ ~B(n, k) /\ ~B(k, n) => ~B(m, k) /\ ~B(k, m)
                        /\ B(m, n) /\ ~B(n, k) /\ ~B(k, n) => B(m, k)
                        /\ ~B(m, n) /\ ~B(n, m) /\ B(n, k) => B(m, k)
      OBVIOUS
    <2>1. rows[p[m]] \in Row /\ rows[p[n]] \in Row /\ rows[p[k]] \in Row
      BY <1>2
    <2> HIDE DEF E
    <2> QED BY <2>1, KeyOrders DEF Tied
  <1>5. Ordered(E, relation)
    <2>1. \A m \in E : m \in Int
      BY <1>2
    <2> HIDE DEF B, E, relation
    <2>2. \A m, n \in E : /\ <<m, m>> \notin relation
                          /\ m # n => <<m, n>> \in relation \/ <<n, m>> \in relation
      <3> SUFFICES ASSUME NEW m \in E, NEW n \in E
                   PROVE  /\ <<m, m>> \notin relation
                          /\ m # n => <<m, n>> \in relation \/ <<n, m>> \in relation
        OBVIOUS
      <3>1. m \in Int /\ n \in Int /\ ~B(m, m)
        BY <1>4, <2>1
      <3>2. <<m, m>> \notin relation
        BY <1>3, <3>1
      <3>3. m # n => m < n \/ n < m
        BY <3>1
      <3> QED BY <1>3, <3>2, <3>3
    <2>3. ASSUME NEW m \in E, NEW n \in E, NEW k \in E,
                 <<m, n>> \in relation, <<n, k>> \in relation
          PROVE  <<m, k>> \in relation
      <3>1. B(m, n) \/ (m < n /\ ~B(n, m) /\ ~B(m, n))
        BY <1>3, <2>3
      <3>2. B(n, k) \/ (n < k /\ ~B(k, n) /\ ~B(n, k))
        BY <1>3, <2>3
      <3>3. B(m, k) \/ (m < k /\ ~B(k, m))
        BY <1>4, <2>1, <3>1, <3>2
      <3> QED BY <1>3, <3>3
    <2> QED BY <2>2, <2>3 DEF Ordered
  <1>6. /\ Sorts(q, E, relation) /\ sorted \in Seq(Row) /\ Len(sorted) = Len(q)
        /\ \A n \in 1..Len(q) : sorted[n] = found[q[n]]
    <2> HIDE DEF relation
    <2> QED BY <1>1, <1>5, RowsAtAre
  <1>7. SortedBy(key, found) = sorted
    BY DEF SortedBy
  <1> HIDE DEF q, sorted, relation, E
  <1>8. /\ Len(q) \in Nat /\ \A n \in 1..Len(q) : q[n] \in E
        /\ \A n \in E : \E k \in 1..Len(q) : q[k] = n
        /\ \A m, n \in 1..Len(q) : m < n => <<q[m], q[n]>> \in relation /\ q[m] # q[n]
    BY <1>6 DEF Sorts, ToSet
  <1>9. Sorts(pq, D, after)
    <2>1. \A n \in 1..Len(q) : p[q[n]] \in D
      BY <1>2, <1>8
    <2>2. /\ pq \in Seq(D) /\ Len(pq) = Len(q) /\ DOMAIN pq = 1..Len(q)
          /\ \A n \in 1..Len(q) : pq[n] = p[q[n]]
      BY <1>8, <2>1
    <2>3. ToSet(pq) = D
      <3>1. ASSUME NEW i \in D PROVE \E n \in 1..Len(q) : pq[n] = i
        <4>1. PICK m \in E : p[m] = i
          BY <1>2
        <4>2. PICK n \in 1..Len(q) : q[n] = m
          BY <1>8
        <4> QED BY <2>2, <4>1, <4>2
      <3> HIDE DEF pq
      <3>2. \A n \in DOMAIN pq : pq[n] \in D
        BY <2>1, <2>2
      <3>3. \A i \in D : \E n \in DOMAIN pq : pq[n] = i
        BY <2>2, <3>1
      <3> HIDE DEF D
      <3> QED BY <3>2, <3>3 DEF ToSet
    <2>4. ASSUME NEW m \in 1..Len(q), NEW n \in 1..Len(q), m < n
          PROVE  <<pq[m], pq[n]>> \in after /\ pq[m] # pq[n]
      <3>1. q[m] \in E /\ q[n] \in E /\ q[m] # q[n] /\ <<q[m], q[n]>> \in relation
        BY <1>8, <2>4
      <3>2. q[m] \in Int /\ q[n] \in Int
        BY <1>2, <3>1
      <3>3. pq[m] = p[q[m]] /\ pq[n] = p[q[n]] /\ p[q[m]] \in D /\ p[q[n]] \in D
        BY <2>1, <2>2
      <3>4. B(q[m], q[n]) \/ (q[m] < q[n] /\ ~B(q[n], q[m]))
        BY <1>3, <3>1
      <3>5. p[q[m]] # p[q[n]]
        <4>1. q[m] < q[n] \/ q[n] < q[m]
          BY <3>1, <3>2
        <4> QED BY <1>2, <3>1, <4>1
      <3>6. <<p[q[m]], p[q[n]]>> \in after
        <4>1. CASE B(q[m], q[n])
          BY <3>3, <4>1
        <4>2. CASE q[m] < q[n] /\ ~B(q[n], q[m]) /\ ~B(q[m], q[n])
          <5>1. <<p[q[m]], p[q[n]]>> \in before
            BY <1>2, <3>1, <4>2
          <5>2. Tied(key, rows[p[q[m]]], rows[p[q[n]]])
            BY <4>2 DEF Tied
          <5> QED BY <3>3, <5>1, <5>2
        <4> QED BY <3>4, <4>1, <4>2
      <3> QED BY <3>3, <3>5, <3>6
    <2> HIDE DEF pq
    <2> QED BY <1>8, <2>2, <2>3, <2>4 DEF Sorts
  <1> DEFINE o == InOrder(D, after)
             due == RowsAt(rows, D, after)
  <1>10. /\ Sorts(o, D, after) /\ due \in Seq(Row) /\ Len(due) = Len(o)
         /\ \A n \in 1..Len(o) : due[n] = rows[o[n]]
    BY RowsAtAre
  <1> HIDE DEF o, due
  <1>11. pq = o
    <2> HIDE DEF pq
    <2> QED BY <1>9, <1>10, SortsAgree
  <1>12. /\ Len(o) = Len(q) /\ \A n \in 1..Len(q) : o[n] = p[q[n]]
    <2>1. Len(pq) = Len(q) /\ \A n \in 1..Len(q) : pq[n] = p[q[n]]
      BY <1>8
    <2> HIDE DEF pq
    <2> QED BY <1>11, <2>1
  <1>13. \A n \in 1..Len(q) : sorted[n] = due[n]
    <2> SUFFICES ASSUME NEW n \in 1..Len(q) PROVE sorted[n] = due[n]
      OBVIOUS
    <2>1. q[n] \in E /\ sorted[n] = found[q[n]]
      BY <1>6, <1>8
    <2>2. found[q[n]] = rows[p[q[n]]]
      BY <1>2, <2>1
    <2>3. due[n] = rows[o[n]] /\ o[n] = p[q[n]]
      BY <1>10, <1>12
    <2> QED BY <2>1, <2>2, <2>3
  <1>14. sorted = due
    BY <1>6, <1>10, <1>12, <1>13, SeqEqual
  <1> QED BY <1>7, <1>14 DEF found, due

\* The rows after the sorts by the last n keys.
SortedAfter(f, keys, rows, n) ==
    IF n = 0 THEN rows ELSE SortedBy(keys[Len(keys) + 1 - n], f[n - 1])

\* The loop over the sort keys is defined.
LEMMA SortedIs ==
    ASSUME NEW keys, Len(keys) \in Nat, NEW rows
    PROVE  \E f : /\ f = [n \in 0..Len(keys) |-> SortedAfter(f, keys, rows, n)]
                  /\ Sorted(keys, rows) = f[Len(keys)]
  <1> DEFINE Computes(f, m) == f = [n \in 0..m |-> SortedAfter(f, keys, rows, n)]
             Good == {m \in 0..Len(keys) : \E f : Computes(f, m)}
  <1>1. 0 \in Good
    <2>1. Computes([n \in 0..0 |-> rows], 0)
      BY DEF SortedAfter
    <2> QED BY <2>1
  <1>2. ASSUME NEW m \in 1..Len(keys), m - 1 \in Good
        PROVE  m \in Good
    <2>1. PICK f : Computes(f, m - 1)
      BY <1>2
    <2> DEFINE last == SortedAfter(f, keys, rows, m)
               g == [n \in 0..m |-> IF n = m THEN last ELSE f[n]]
    <2>2. ASSUME NEW n \in 0..m PROVE g[n] = SortedAfter(g, keys, rows, n)
      <3>1. n = m => g[n] = last /\ g[n - 1] = f[n - 1]
        BY <1>2
      <3>2. n # m => /\ g[n] = SortedAfter(f, keys, rows, n)
                     /\ n # 0 => g[n - 1] = f[n - 1]
        BY <1>2, <2>1
      <3> HIDE DEF g
      <3> QED BY <3>1, <3>2 DEF SortedAfter
    <2>3. g = [n \in 0..m |-> g[n]]
      OBVIOUS
    <2> HIDE DEF g
    <2>4. Computes(g, m)
      BY <2>2, <2>3
    <2> QED BY <2>4
  <1>3. \E f : Computes(f, Len(keys))
    <2> HIDE DEF Good
    <2>1. \A m \in 0..Len(keys) : m \in Good
      BY <1>1, <1>2, Climbing
    <2> QED BY <2>1 DEF Good
  <1>4. Sorted(keys, rows) = (CHOOSE f : Computes(f, Len(keys)))[Len(keys)]
    BY DEF Sorted, SortedAfter
  <1> HIDE DEF Computes
  <1>5. Computes(CHOOSE f : Computes(f, Len(keys)), Len(keys))
    BY <1>3
  <1> QED BY <1>4, <1>5 DEF Computes

\* The natural order of the places sorts nothing.
LEMMA UnsortedIs ==
    ASSUME NEW rows \in Seq(Row), NEW before, Ordered(DOMAIN rows, before),
           \A i, j \in DOMAIN rows : i < j => <<i, j>> \in before
    PROVE  RowsAt(rows, DOMAIN rows, before) = rows
  <1> DEFINE D == DOMAIN rows
             order == InOrder(D, before)
             same == [i \in 1..Len(rows) |-> i]
             found == RowsAt(rows, D, before)
  <1>1. D = 1..Len(rows) /\ Len(rows) \in Nat
    OBVIOUS
  <1>2. /\ Sorts(order, D, before) /\ found \in Seq(Row) /\ Len(found) = Len(order)
        /\ \A n \in 1..Len(order) : found[n] = rows[order[n]]
    BY RowsAtAre
  <1> HIDE DEF order, found
  <1>3. Sorts(same, D, before)
    <2>1. same \in Seq(D) /\ Len(same) = Len(rows) /\ DOMAIN same = 1..Len(rows)
          /\ \A i \in 1..Len(rows) : same[i] = i
      BY <1>1
    <2>2. ToSet(same) = D
      <3> HIDE DEF same
      <3> QED BY <1>1, <2>1 DEF ToSet
    <2>3. \A i, j \in 1..Len(rows) : i < j => <<same[i], same[j]>> \in before /\ same[i] # same[j]
      BY <1>1, <2>1
    <2> HIDE DEF same
    <2> QED BY <1>1, <2>1, <2>2, <2>3 DEF Sorts
  <1>4. same = order
    <2> HIDE DEF same
    <2> QED BY <1>2, <1>3, SortsAgree
  <1>5. Len(order) = Len(rows) /\ \A n \in 1..Len(rows) : order[n] = n
    <2>1. Len(same) = Len(rows) /\ \A n \in 1..Len(rows) : same[n] = n
      BY <1>1
    <2> HIDE DEF same
    <2> QED BY <1>4, <2>1
  <1>6. \A n \in 1..Len(rows) : found[n] = rows[n]
    BY <1>2, <1>5
  <1>7. found = rows
    BY <1>2, <1>5, <1>6, SeqEqual
  <1> QED BY <1>7 DEF found

\* Stable sorts by one key after the other, from the last to the first, put the rows in
\* the order in which the first key that tells two of them apart decides.
LEMMA SortsAreOne ==
    ASSUME NEW rows \in Seq(Row), NEW keys \in Seq(SortKey)
    PROVE  Sorted(keys, rows) = RowsAt(rows, DOMAIN rows, OrderFrom(1, keys, rows))
  <1> DEFINE L == Len(keys)
             Order(m) == OrderFrom(L + 1 - m, keys, rows)
  <1>1. L \in Nat /\ \A m \in 0..L : Ordered(DOMAIN rows, Order(m))
    BY KeysOrder
  <1>2. PICK f : /\ f = [n \in 0..L |-> SortedAfter(f, keys, rows, n)]
                 /\ Sorted(keys, rows) = f[L]
    BY <1>1, SortedIs
  <1> DEFINE Good == {m \in 0..L : f[m] = RowsAt(rows, DOMAIN rows, Order(m))}
  <1>3. 0 \in Good
    <2>1. f[0] = rows
      BY <1>1, <1>2 DEF SortedAfter
    <2>2. \A i, j \in DOMAIN rows : i < j => <<i, j>> \in Order(0)
      <3>1. (L + 1 - 0)..L = {}
        BY <1>1
      <3> QED BY <3>1 DEF OrderFrom, FromKey
    <2>3. Ordered(DOMAIN rows, Order(0)) /\ 0 \in 0..L
      BY <1>1
    <2> HIDE DEF Order
    <2> QED BY <2>1, <2>2, <2>3, UnsortedIs
  <1>4. ASSUME NEW m \in 1..L, m - 1 \in Good
        PROVE  m \in Good
    <2> DEFINE n == L + 1 - m
    <2>1. n \in 1..L /\ L + 1 - (m - 1) = n + 1 /\ m \in 0..L /\ m - 1 \in 0..L /\ m # 0
      BY <1>1
    <2>2. f[m] = SortedBy(keys[n], f[m - 1])
      BY <1>2, <2>1 DEF SortedAfter
    <2>3. f[m - 1] = RowsAt(rows, DOMAIN rows, Order(m - 1))
      BY <1>4
    <2>4. keys[n] \in SortKey
      BY <2>1
    <2>5. Ordered(DOMAIN rows, Order(m - 1)) /\ Ordered(DOMAIN rows, Order(m))
      BY <1>1, <2>1
    <2>6. \A i, j \in DOMAIN rows :
             <<i, j>> \in Order(m) <=> \/ KeyBefore(keys[n], rows[i], rows[j])
                                       \/ /\ Tied(keys[n], rows[i], rows[j])
                                          /\ <<i, j>> \in Order(m - 1)
      <3>1. \A i, j \in DOMAIN rows :
               /\ <<i, j>> \in Order(m) <=> FromKey(n, keys, rows, i, j)
               /\ <<i, j>> \in Order(m - 1) <=> FromKey(n + 1, keys, rows, i, j)
        BY <2>1 DEF OrderFrom
      <3> HIDE DEF n, Order, L
      <3> QED BY <2>1, <3>1, FromKeyStep DEF L
    <2> HIDE DEF Order, n
    <2>7. SortedBy(keys[n], f[m - 1]) = RowsAt(rows, DOMAIN rows, Order(m))
      BY <2>3, <2>4, <2>5, <2>6, KeySorts, SMTT(30)
    <2> QED BY <2>1, <2>2, <2>7
  <1>5. L \in Good
    <2> HIDE DEF Good
    <2>1. \A m \in 0..L : m \in Good
      BY <1>1, <1>3, <1>4, Climbing
    <2> QED BY <1>1, <2>1
  <1>6. L + 1 - L = 1
    BY <1>1
  <1> QED BY <1>2, <1>5, <1>6

\* The rows a query matches are rows; its answer is their sort.
LEMMA AnswerIs ==
    ASSUME NEW query \in Queries, NEW rows \in Seq(Row)
    PROVE  /\ Matched(query, rows) \in Seq(Row)
           /\ QueryReference(query, rows) \in Seq(Row)
           /\ Sorted(query.sort_keys, Matched(query, rows)) = QueryReference(query, rows)
  <1> DEFINE keys == query.sort_keys
             places == {i \in DOMAIN rows : \A p \in query.predicates : PredicateHolds(p, rows[i])}
             found == Matched(query, rows)
             stands == {ij \in (DOMAIN found) \X (DOMAIN found) :
                           StandsBefore(keys, found, ij[1], ij[2])}
  <1>1. keys \in Seq(SortKey)
    BY CatalogAssumption
  <1>2. found \in Seq(Row)
    <2>1. Ordered(places, InputOrder(rows))
      <3>1. \A i \in places : i \in Int
        OBVIOUS
      <3>2. \A i, j \in places : <<i, j>> \in InputOrder(rows) <=> i < j
        BY DEF InputOrder
      <3> HIDE DEF places
      <3> QED BY <3>1, <3>2 DEF Ordered
    <2>2. places \in SUBSET (DOMAIN rows)
      OBVIOUS
    <2>3. found = RowsAt(rows, places, InputOrder(rows))
      BY DEF Matched
    <2> HIDE DEF places, found
    <2> QED BY <2>1, <2>2, <2>3, RowsAtAre
  <1>3. QueryReference(query, rows) = RowsAt(found, DOMAIN found, stands)
    BY DEF QueryReference
  <1> HIDE DEF found
  <1>4. stands = OrderFrom(1, keys, found)
    <2>1. Len(keys) \in Nat /\ DOMAIN keys = 1..Len(keys)
      BY <1>1
    <2> HIDE DEF keys
    <2>2. \A i, j : StandsBefore(keys, found, i, j) <=> FromKey(1, keys, found, i, j)
      BY <2>1 DEF StandsBefore, FromKey
    <2> QED BY <2>2 DEF OrderFrom
  <1>5. Ordered(DOMAIN found, OrderFrom(1, keys, found))
    <2> HIDE DEF keys
    <2>1. /\ Len(keys) \in Nat
          /\ \A m \in 0..Len(keys) : Ordered(DOMAIN found, OrderFrom(Len(keys) + 1 - m, keys, found))
      BY <1>1, <1>2, KeysOrder
    <2>2. Len(keys) \in 0..Len(keys) /\ Len(keys) + 1 - Len(keys) = 1
      BY <2>1
    <2> QED BY <2>1, <2>2
  <1> HIDE DEF keys, stands
  <1>6. RowsAt(found, DOMAIN found, OrderFrom(1, keys, found)) \in Seq(Row)
    BY <1>2, <1>5, RowsAtAre
  <1>7. Sorted(keys, found) = RowsAt(found, DOMAIN found, OrderFrom(1, keys, found))
    BY <1>1, <1>2, SortsAreOne
  <1> QED BY <1>2, <1>3, <1>4, <1>6, <1>7 DEF found, keys

\* The lesser of two numbers.
LEMMA LeastOfTwo ==
    ASSUME NEW a \in Int, NEW b \in Int
    PROVE  Min({a, b}) = IF a <= b THEN a ELSE b
  <1> DEFINE m == IF a <= b THEN a ELSE b
  <1>1. m \in {a, b} /\ \A y \in {a, b} : m <= y
    OBVIOUS
  <1>2. \A x \in {a, b} : (\A y \in {a, b} : x <= y) => x = m
    OBVIOUS
  <1> QED BY <1>1, <1>2 DEF Min

\* As many pages as there are leave no row over, and each of them has one.
LEMMA PagesSuffice ==
    ASSUME NEW total \in Nat, NEW size \in Nat \ {0}
    PROVE  LET count == PageCount(total, size)
           IN  /\ count \in Nat
               /\ total <= count * size
               /\ count # 0 => (count - 1) * size < total
  <1> DEFINE n == total + size - 1
             count == n \div size
  <1>1. n \in Nat
    OBVIOUS
  <1>2. /\ count \in Nat /\ count * size <= n /\ n < count * size + size
    <2> HIDE DEF n
    <2>1. n = size * (n \div size) + (n % size) /\ n % size \in 0..(size - 1) /\ n \div size \in Int
      BY <1>1
    <2> QED BY <1>1, <2>1
  <1> HIDE DEF count
  <1>3. (count - 1) * size = count * size - size
    BY <1>2
  <1>4. count * size \in Int
    BY <1>2
  <1> DEFINE x == count * size
             y == (count - 1) * size
  <1>5. x \in Int /\ y = x - size /\ x <= n /\ n < x + size
    BY <1>2, <1>3, <1>4
  <1> HIDE DEF x, y
  <1>6. total <= x /\ y < total
    BY <1>5
  <1> QED BY <1>2, <1>6 DEF PageCount, count, x, y

\* Where page p of some rows starts and stops.
PageStart(p, size) == (p - 1) * size
PageStop(p, size, total) == Min({total, PageStart(p, size) + size})

\* The pages follow each other; all but the last are full.
LEMMA PagesFollow ==
    ASSUME NEW total \in Nat, NEW size \in Nat \ {0}
    PROVE  LET count == PageCount(total, size)
           IN  /\ count \in Nat /\ (count = 0 <=> total = 0)
               /\ PageStart(1, size) = 0
               /\ count # 0 => PageStop(count, size, total) = total
               /\ \A p \in 1..count :
                     /\ PageStart(p, size) \in 0..(total - 1)
                     /\ PageStop(p, size, total) \in (PageStart(p, size) + 1)..total
                     /\ p < count => PageStop(p, size, total) = PageStart(p + 1, size)
                     /\ p < count <=> PageStop(p, size, total) < total
  <1> DEFINE count == PageCount(total, size)
             Start(p) == PageStart(p, size)
  <1>1. count \in Nat /\ total <= count * size /\ (count # 0 => (count - 1) * size < total)
    BY PagesSuffice
  <1> HIDE DEF count
  <1>2. \A p \in Int : p * size \in Int /\ (p - 1) * size = p * size - size
    OBVIOUS
  <1>3. \A p \in 1..count : Start(p) \in Int /\ Start(p) + size = p * size
    BY <1>1, <1>2 DEF PageStart
  <1>4. ASSUME NEW p \in Nat, NEW q \in Nat, p <= q
        PROVE  p * size <= q * size
    <2>1. (q - p) * size >= 0 /\ (q - p) * size = q * size - p * size
      BY <1>4
    <2> QED BY <1>2, <2>1
  <1>5. ASSUME NEW p \in 1..count
        PROVE  /\ Start(p) >= 0
               /\ Start(p) < total
               /\ p < count => Start(p) + size < total /\ Start(p) + size = Start(p + 1)
               /\ p = count => total <= Start(p) + size
    <2>1. Start(p) = (p - 1) * size /\ p - 1 \in Nat /\ count - 1 \in Nat /\ p - 1 <= count - 1
      BY <1>1 DEF PageStart
    <2>2. (p - 1) * size <= (count - 1) * size /\ (p - 1) * size \in Int /\ (count - 1) * size \in Int
      BY <1>2, <1>4, <2>1
    <2>3. (count - 1) * size < total
      BY <1>1
    <2>4. Start(p) >= 0
      <3>1. 0 * size = 0 /\ 0 * size <= (p - 1) * size
        BY <1>4, <2>1
      <3> QED BY <2>1, <3>1
    <2>5. Start(p) < total
      <3> DEFINE a == (p - 1) * size
                 b == (count - 1) * size
      <3>1. a \in Int /\ b \in Int /\ a <= b /\ b < total
        BY <2>2, <2>3
      <3> HIDE DEF a, b
      <3>2. a < total
        BY <3>1
      <3> QED BY <2>1, <3>2 DEF a
    <2>6. ASSUME p < count PROVE Start(p) + size < total /\ Start(p) + size = Start(p + 1)
      <3>1. p * size <= (count - 1) * size
        BY <1>1, <1>4, <2>1, <2>6
      <3>2. Start(p) + size = p * size /\ Start(p + 1) = p * size
        BY <1>3 DEF PageStart
      <3> DEFINE a == p * size
                 b == (count - 1) * size
      <3>3. a \in Int /\ b \in Int /\ a <= b /\ b < total
        BY <1>2, <2>2, <2>3, <3>1
      <3> HIDE DEF a, b
      <3>4. a < total
        BY <3>3
      <3> QED BY <3>2, <3>4 DEF a
    <2>7. p = count => total <= Start(p) + size
      BY <1>1, <1>3
    <2> QED BY <2>4, <2>5, <2>6, <2>7
  <1>6. ASSUME NEW p \in 1..count
        PROVE  PageStop(p, size, total) = IF total <= Start(p) + size THEN total ELSE Start(p) + size
    <2>1. Start(p) + size \in Int
      BY <1>3
    <2> QED BY <2>1, LeastOfTwo DEF PageStop
  <1>7. PageStart(1, size) = 0
    BY DEF PageStart
  <1>8. count = 0 <=> total = 0
    <2>1. count = 0 => total <= 0
      <3>1. count = 0 => count * size = 0
        OBVIOUS
      <3> QED BY <1>1, <3>1
    <2>2. count # 0 => total # 0
      <3>1. count # 0 => count \in 1..count
        BY <1>1
      <3> QED BY <1>3, <1>5, <3>1
    <2> QED BY <2>1, <2>2
  <1>9. count # 0 => PageStop(count, size, total) = total
    <2>1. count # 0 => count \in 1..count
      BY <1>1
    <2> QED BY <1>5, <1>6, <2>1
  <1>10. ASSUME NEW p \in 1..count
         PROVE  /\ Start(p) \in 0..(total - 1)
                /\ PageStop(p, size, total) \in (Start(p) + 1)..total
                /\ p < count => PageStop(p, size, total) = Start(p + 1)
                /\ p < count <=> PageStop(p, size, total) < total
    <2> HIDE DEF Start
    <2>1. Start(p) \in Int
      BY <1>3
    <2>2. p = count \/ p < count
      BY <1>1
    <2> QED BY <1>5, <1>6, <2>1, <2>2
  <1> HIDE DEF Start
  <1> QED BY <1>1, <1>7, <1>8, <1>9, <1>10 DEF count, Start

\* Pages put after one another show every row once and in order.
LEMMA PagesJoin ==
    ASSUME NEW S, NEW items \in Seq(S), NEW size \in Nat \ {0}, NEW count,
           count = PageCount(Len(items), size), NEW parts,
           parts = [p \in 1..count |-> SubSeq(items, PageStart(p, size) + 1,
                                              PageStop(p, size, Len(items)))]
    PROVE  FlattenSeq(parts) = items
  <1> DEFINE L == Len(items)
             Start(p) == PageStart(p, size)
             Stop(p) == PageStop(p, size, L)
  <1>1. /\ L \in Nat /\ count \in Nat /\ (count = 0 <=> L = 0) /\ Start(1) = 0
        /\ count # 0 => Stop(count) = L
        /\ \A p \in 1..count : /\ Start(p) \in 0..(L - 1) /\ Stop(p) \in (Start(p) + 1)..L
                               /\ p < count => Stop(p) = Start(p + 1)
    <2>1. L \in Nat
      OBVIOUS
    <2> HIDE DEF L
    <2> QED BY <2>1, PagesFollow DEF L
  <1>2. Len(parts) = count /\ DOMAIN parts = 1..count
    <2>1. \A p \in 1..count : parts[p] \in Seq(S)
      <3> SUFFICES ASSUME NEW p \in 1..count PROVE SubSeq(items, Start(p) + 1, Stop(p)) \in Seq(S)
        OBVIOUS
      <3> HIDE DEF Start, Stop
      <3>1. /\ Start(p) + 1 \in Int /\ Stop(p) \in Int
            /\ \A i \in (Start(p) + 1)..Stop(p) : items[i] \in S
        BY <1>1
      <3> QED BY <3>1, SubSeqProperties
    <2> HIDE DEF Start, Stop
    <2> QED BY <1>1
  <1>3. CASE count = 0
    <2>1. items = <<>> /\ parts = <<>>
      BY <1>1, <1>3
    <2>2. FlattenSeq(parts) = parts
      BY <1>2, <1>3 DEF FlattenSeq
    <2> QED BY <2>1, <2>2
  <1>4. CASE count # 0
    <2>1. PICK f : /\ f = [i \in 1..count |-> FlatAfter(f, parts, i)]
                   /\ FlattenSeq(parts) = f[count]
      <3>1. \E f : /\ f = [i \in 1..Len(parts) |-> FlatAfter(f, parts, i)]
                   /\ FlattenSeq(parts) = f[Len(parts)]
        BY <1>1, <1>2, <1>4, FlattenIs
      <3> QED BY <1>2, <3>1
    <2> DEFINE Good == {m \in 0..count : m = 0 \/ f[m] = SubSeq(items, 1, Stop(m))}
    <2>2. 0 \in Good
      BY <1>1
    <2>3. ASSUME NEW m \in 1..count, m - 1 \in Good
          PROVE  m \in Good
      <3>1. parts[m] = SubSeq(items, Start(m) + 1, Stop(m))
        OBVIOUS
      <3> HIDE DEF Start, Stop
      <3>2. ASSUME m = 1 PROVE f[m] = SubSeq(items, 1, Stop(m))
        <4>1. f[m] = parts[m]
          BY <2>1, <3>2 DEF FlatAfter
        <4>2. Start(m) + 1 = 1
          BY <1>1, <3>2
        <4> QED BY <3>1, <4>1, <4>2
      <3>3. ASSUME m # 1 PROVE f[m] = SubSeq(items, 1, Stop(m))
        <4>1. f[m] = f[m - 1] \o parts[m]
          BY <2>1, <3>3 DEF FlatAfter
        <4>2. m - 1 \in 1..count /\ m - 1 < count /\ m - 1 # 0
          BY <1>1, <3>3
        <4>3. f[m - 1] = SubSeq(items, 1, Stop(m - 1))
          BY <2>3, <4>2
        <4>4. Stop(m - 1) = Start(m)
          BY <1>1, <4>2
        <4>5. /\ 1 \in 1..(L + 1) /\ Start(m) \in (1 - 1)..L /\ Stop(m) \in Start(m)..L
          BY <1>1
        <4>6. SubSeq(items, 1, Start(m)) \o SubSeq(items, Start(m) + 1, Stop(m))
                = SubSeq(items, 1, Stop(m))
          BY <4>5, ConcatAdjacentSubSeq
        <4> QED BY <3>1, <4>1, <4>3, <4>4, <4>6
      <3>4. m \in 0..count
        BY <1>1
      <3> QED BY <3>2, <3>3, <3>4
    <2>4. count \in Good
      <3> HIDE DEF Good
      <3>1. \A m \in 0..count : m \in Good
        BY <1>1, <2>2, <2>3, Climbing
      <3> QED BY <1>1, <3>1
    <2>5. f[count] = SubSeq(items, 1, L)
      BY <1>1, <1>4, <2>4
    <2>6. SubSeq(items, 1, L) = items
      BY SubSeqFull
    <2> QED BY <2>1, <2>5, <2>6
  <1> QED BY <1>3, <1>4

\* A sequence of pages is what it is made of.
LEMMA PagesAre ==
    ASSUME NEW n \in Nat, NEW made, made = [p \in 1..n |-> made[p]]
    PROVE  <<>> \o made = made
  <1> DEFINE S == {made[p] : p \in 1..n}
  <1>1. made \in Seq(S)
    <2>1. \A p \in 1..n : made[p] \in S
      OBVIOUS
    <2> HIDE DEF S
    <2>2. [p \in 1..n |-> made[p]] \in Seq(S)
      BY <2>1
    <2> QED BY <2>2
  <1> HIDE DEF S
  <1> QED BY <1>1, ConcatEmptySeq

\* A listing has the rows of the status that is asked for, by their names and ids.
LEMMA ListingIs ==
    ASSUME NEW status, CollectionRows \in Seq(Row), IdsDiffer(CollectionRows)
    PROVE  LET items == Listed(status)
           IN  /\ items \in Seq(Row)
               /\ ToSet(items) = {row \in ToSet(CollectionRows) : status \in {Missing, row.status}}
               /\ \A i, j \in DOMAIN items : i < j => NameBefore(items[i], items[j])
  <1> DEFINE rows == CollectionRows
             places == {i \in DOMAIN rows : status \in {Missing, rows[i].status}}
             order == InOrder(places, NameOrder(rows))
             items == Listed(status)
  <1>1. \A i \in DOMAIN rows : rows[i] \in Row /\ rows[i].name \in Int /\ rows[i].id \in Int
    <2>1. \A i \in DOMAIN rows : rows[i] \in Row
      OBVIOUS
    <2>2. \A row \in Row : row.name \in Int /\ row.id \in Int
      BY CatalogAssumption DEF Row, Entities
    <2> QED BY <2>1, <2>2
  <1>2. places \in SUBSET (DOMAIN rows)
    OBVIOUS
  <1>3. \A i, j \in places : <<i, j>> \in NameOrder(rows) <=> NameBefore(rows[i], rows[j])
    BY DEF NameOrder
  <1>4. Ordered(places, NameOrder(rows))
    <2>1. \A i \in places : rows[i].name \in Int /\ rows[i].id \in Int
      BY <1>1
    <2>2. \A i, j \in places : rows[i].id = rows[j].id => i = j
      BY DEF IdsDiffer
    <2> HIDE DEF places, rows
    <2> QED BY <1>3, <2>1, <2>2 DEF Ordered, NameBefore
  <1>5. items = RowsAt(rows, places, NameOrder(rows))
    BY DEF Listed
  <1>6. /\ Sorts(order, places, NameOrder(rows)) /\ items \in Seq(Row) /\ Len(items) = Len(order)
        /\ \A n \in 1..Len(order) : items[n] = rows[order[n]]
    <2> HIDE DEF places
    <2> QED BY <1>2, <1>4, <1>5, RowsAtAre
  <1> HIDE DEF order, items
  <1>7. /\ DOMAIN items = 1..Len(order)
        /\ \A n \in 1..Len(order) : order[n] \in places
        /\ \A i \in places : \E n \in 1..Len(order) : order[n] = i
        /\ \A m, n \in 1..Len(order) : m < n => <<order[m], order[n]>> \in NameOrder(rows)
    <2> HIDE DEF places
    <2>1. DOMAIN items = 1..Len(items)
      BY <1>6
    <2> QED BY <1>6, <2>1 DEF Sorts, ToSet
  <1>8. ToSet(items) = {row \in ToSet(rows) : status \in {Missing, row.status}}
    <2>1. \A n \in DOMAIN items :
             items[n] \in {row \in ToSet(rows) : status \in {Missing, row.status}}
      BY <1>6, <1>7 DEF ToSet
    <2>2. ASSUME NEW row \in ToSet(rows), status \in {Missing, row.status}
          PROVE  \E n \in DOMAIN items : items[n] = row
      <3>1. PICK i \in DOMAIN rows : rows[i] = row
        BY DEF ToSet
      <3>2. i \in places
        BY <2>2, <3>1
      <3>3. PICK n \in 1..Len(order) : order[n] = i
        BY <1>7, <3>2
      <3> QED BY <1>6, <1>7, <3>1, <3>3
    <2>3. \A row : row \in ToSet(items) <=> \E n \in DOMAIN items : items[n] = row
      BY DEF ToSet
    <2> HIDE DEF rows
    <2> QED BY <2>1, <2>2, <2>3
  <1>9. \A m, n \in DOMAIN items : m < n => NameBefore(items[m], items[n])
    <2> HIDE DEF places, rows
    <2> SUFFICES ASSUME NEW m \in DOMAIN items, NEW n \in DOMAIN items, m < n
                 PROVE  NameBefore(items[m], items[n])
      OBVIOUS
    <2>1. order[m] \in places /\ order[n] \in places /\ <<order[m], order[n]>> \in NameOrder(rows)
      BY <1>7
    <2>2. NameBefore(rows[order[m]], rows[order[n]])
      BY <1>3, <2>1
    <2>3. items[m] = rows[order[m]] /\ items[n] = rows[order[n]]
      BY <1>6, <1>7
    <2> QED BY <2>2, <2>3
  <1> QED BY <1>6, <1>8, <1>9 DEF items

\* The pages of a listing show it.
LEMMA ListingShown ==
    ASSUME NEW items \in Seq(Row), NEW size \in PageSizes
    PROVE  LET count == PageCount(Len(items), size)
               pages == Pages(LAMBDA p : Paginate(items, p, size), count)
           IN  /\ FlattenSeq([p \in 1..count |-> pages[p].items]) = items
               /\ \A p \in 1..count : pages[p].has_next = (p < count)
  <1> DEFINE count == PageCount(Len(items), size)
             made == [p \in 1..count |-> Paginate(items, p, size)]
             pages == Pages(LAMBDA p : Paginate(items, p, size), count)
             parts == [p \in 1..count |-> pages[p].items]
  <1>1. size \in Nat \ {0} /\ Len(items) \in Nat
    BY CatalogAssumption
  <1>2. count \in Nat
    BY <1>1, PagesSuffice
  <1>3. pages = <<>> \o made
    BY DEF Pages
  <1> HIDE DEF count
  <1>4. pages = made
    <2>1. made = [p \in 1..count |-> made[p]]
      OBVIOUS
    <2> HIDE DEF made, pages
    <2> QED BY <1>2, <1>3, <2>1, PagesAre
  <1> HIDE DEF pages
  <1>5. \A p \in 1..count : /\ pages[p].items = SubSeq(items, PageStart(p, size) + 1,
                                                       PageStop(p, size, Len(items)))
                            /\ pages[p].has_next = (p < count)
    BY <1>4 DEF Paginate, PageStart, PageStop, count
  <1>6. parts = [p \in 1..count |-> SubSeq(items, PageStart(p, size) + 1,
                                           PageStop(p, size, Len(items)))]
    BY <1>5
  <1>7. FlattenSeq(parts) = items
    <2> HIDE DEF parts
    <2> QED BY <1>1, <1>6, PagesJoin DEF count
  <1> QED BY <1>5, <1>7 DEF count, pages

\* The pages of a query show its answer.
LEMMA QueryShown ==
    ASSUME CollectionRows \in Seq(Row), NEW query \in Queries, NEW size \in PageSizes
    PROVE  LET answer == QueryReference(query, CollectionRows)
               count == PageCount(Len(answer), size)
               pages == Pages(LAMBDA p : PageOf(query, p, size), count)
           IN  /\ FlattenSeq([p \in 1..count |-> pages[p].rows]) = answer
               /\ \A p \in 1..count : HasMore(PageQuery(query, p, size), pages[p]) = (p < count)
  <1> DEFINE answer == QueryReference(query, CollectionRows)
             L == Len(answer)
             count == PageCount(L, size)
             made == [p \in 1..count |-> PageOf(query, p, size)]
             pages == Pages(LAMBDA p : PageOf(query, p, size), count)
             parts == [p \in 1..count |-> pages[p].rows]
             Start(p) == PageStart(p, size)
             Stop(p) == PageStop(p, size, L)
  <1>1. /\ answer \in Seq(Row)
        /\ Sorted(query.sort_keys, Matched(query, CollectionRows)) = answer
    BY AnswerIs
  <1>2. size \in Nat \ {0} /\ size # Missing /\ L \in Nat
    <2>1. PageSizes \subseteq Nat \ {0}
      BY CatalogAssumption
    <2> HIDE DEF answer
    <2> QED BY <1>1, <2>1, MissingAssumption
  <1>3. ASSUME NEW p
        PROVE  PageOf(query, p, size)
                 = [rows |-> SubSeq(answer, Start(p) + 1, Stop(p)), total |-> L]
    <2> DEFINE page == PageQuery(query, p, size)
    <2>1. /\ page.predicates = query.predicates /\ page.sort_keys = query.sort_keys
          /\ page.offset = Start(p) /\ page.limit = size
      <3>1. query = [predicates |-> query.predicates, sort_keys |-> query.sort_keys,
                     offset |-> 0, limit |-> Missing]
        BY CatalogAssumption
      <3> QED BY <3>1 DEF PageQuery, PageStart
    <2> HIDE DEF page
    <2>2. Matched(page, CollectionRows) = Matched(query, CollectionRows)
      BY <2>1 DEF Matched
    <2>3. Sorted(page.sort_keys, Matched(page, CollectionRows)) = answer
      BY <1>1, <2>1, <2>2
    <2>4. Execute(page, CollectionRows)
            = [rows |-> SubSeq(answer, Start(p) + 1, Stop(p)), total |-> L]
      <3> HIDE DEF answer
      <3> QED BY <1>2, <2>1, <2>3 DEF Execute, PageStop
    <2> QED BY <2>4 DEF PageOf, page
  <1> HIDE DEF answer
  <1>4. /\ count \in Nat
        /\ \A p \in 1..count : /\ Start(p) \in 0..(L - 1) /\ Stop(p) \in (Start(p) + 1)..L
                               /\ p < count <=> Stop(p) < L
    <2> HIDE DEF L
    <2> QED BY <1>2, PagesFollow
  <1>5. pages = <<>> \o made
    BY DEF Pages
  <1> HIDE DEF count
  <1>6. pages = made
    <2>1. made = [p \in 1..count |-> made[p]]
      OBVIOUS
    <2> HIDE DEF made, pages
    <2> QED BY <1>4, <1>5, <2>1, PagesAre
  <1> HIDE DEF pages
  <1>7. \A p \in 1..count : /\ pages[p].rows = SubSeq(answer, Start(p) + 1, Stop(p))
                            /\ pages[p].total = L
    <2> SUFFICES ASSUME NEW p \in 1..count
                 PROVE  /\ pages[p].rows = SubSeq(answer, Start(p) + 1, Stop(p))
                        /\ pages[p].total = L
      OBVIOUS
    <2>1. pages[p] = PageOf(query, p, size)
      BY <1>6
    <2> HIDE DEF Start, Stop, L
    <2> QED BY <1>3, <2>1
  <1>8. FlattenSeq(parts) = answer
    <2>1. parts = [p \in 1..count |-> SubSeq(answer, Start(p) + 1, Stop(p))]
      BY <1>7
    <2> HIDE DEF parts
    <2> QED BY <1>1, <1>2, <2>1, PagesJoin DEF count
  <1>9. ASSUME NEW p \in 1..count
        PROVE  HasMore(PageQuery(query, p, size), pages[p]) = (p < count)
    <2> HIDE DEF Start, Stop, L
    <2>1. /\ PageQuery(query, p, size).offset = Start(p)
          /\ PageQuery(query, p, size).limit = size
      <3>1. query = [predicates |-> query.predicates, sort_keys |-> query.sort_keys,
                     offset |-> 0, limit |-> Missing]
        BY CatalogAssumption
      <3> QED BY <3>1 DEF PageQuery, PageStart, Start
    <2>2. /\ Start(p) \in Int /\ Stop(p) \in Int /\ Start(p) + 1 <= Stop(p)
          /\ Start(p) >= 0 /\ Stop(p) <= L
      BY <1>2, <1>4
    <2>3. Len(SubSeq(answer, Start(p) + 1, Stop(p))) = Stop(p) - Start(p)
      <3>1. \A i \in (Start(p) + 1)..Stop(p) : answer[i] \in Row
        BY <1>1, <2>2 DEF L
      <3>2. Len(SubSeq(answer, Start(p) + 1, Stop(p))) = Stop(p) - (Start(p) + 1) + 1
        BY <2>2, <3>1, SubSeqProperties
      <3> QED BY <2>2, <3>2
    <2>4. Len(pages[p].rows) = Stop(p) - Start(p) /\ pages[p].total = L
      BY <1>7, <2>3
    <2>5. HasMore(PageQuery(query, p, size), pages[p]) = (Stop(p) < L)
      <3>1. Start(p) + (Stop(p) - Start(p)) = Stop(p)
        BY <2>2
      <3> QED BY <1>2, <2>1, <2>4, <3>1 DEF HasMore
    <2> QED BY <1>4, <2>5
  <1> QED BY <1>8, <1>9 DEF answer, count, pages

\* What an aggregate says of the rows with one key.
GroupOf(rows, key) == {i \in DOMAIN rows : Resolve(rows[i], "season") = key}
NotesOf(rows, T) == [i \in T |-> rows[i].notes]
GroupRow(rows, key) ==
    [key |-> key, count |-> Cardinality(GroupOf(rows, key)),
     total |-> SumOf(NotesOf(rows, GroupOf(rows, key)), GroupOf(rows, key)),
     minimum |-> Min({rows[i].notes : i \in GroupOf(rows, key)}),
     maximum |-> Max({rows[i].notes : i \in GroupOf(rows, key)})]

\* Every row has notes: none is left out of its group's total.
LEMMA AggregateIs ==
    ASSUME NEW rows \in Seq(Row)
    PROVE  Aggregate(rows, "season", "notes")
             = {GroupRow(rows, key) : key \in {Resolve(rows[i], "season") : i \in DOMAIN rows}}
  <1> DEFINE keys == {Resolve(rows[i], "season") : i \in DOMAIN rows}
             group(key) == {i \in DOMAIN rows : Resolve(rows[i], "season") = key}
             valued(key) == {i \in group(key) : Exists(rows[i], "notes")}
             values(key) == {rows[i]["notes"] : i \in valued(key)}
             line(key) ==
                [key |-> key, count |-> Cardinality(group(key)),
                 total |-> SumFunctionOnSet([i \in valued(key) |-> rows[i]["notes"]], valued(key)),
                 minimum |-> IF valued(key) = {} THEN Missing ELSE Min(values(key)),
                 maximum |-> IF valued(key) = {} THEN Missing ELSE Max(values(key))]
  <1>1. Aggregate(rows, "season", "notes") = {line(key) : key \in keys}
    BY DEF Aggregate
  <1>2. \A i \in DOMAIN rows : Exists(rows[i], "notes")
    <2>1. \A row \in Row : Resolve(row, "notes") \in Nat
      BY DEF Row, Resolve
    <2> QED BY <2>1, MissingAssumption DEF Exists
  <1>3. ASSUME NEW key \in keys PROVE line(key) = GroupRow(rows, key)
    <2>1. group(key) = GroupOf(rows, key) /\ group(key) # {}
      BY DEF GroupOf
    <2>2. valued(key) = group(key)
      BY <1>2
    <2> DEFINE T == GroupOf(rows, key)
    <2>3. valued(key) = T /\ T # {} /\ group(key) = T
      BY <2>1, <2>2
    <2> HIDE DEF valued, group, T
    <2>4. /\ [i \in valued(key) |-> rows[i]["notes"]] = NotesOf(rows, T)
          /\ values(key) = {rows[i].notes : i \in T}
      BY <2>3 DEF NotesOf
    <2> HIDE DEF values
    <2> QED BY <2>3, <2>4 DEF GroupRow, SumOf, T
  <1> HIDE DEF line
  <1> QED BY <1>1, <1>3

\* The groups of an aggregate count every row once, between the least and the largest.
LEMMA GroupsCount ==
    ASSUME NEW rows \in Seq(Row)
    PROVE  LET groups == Aggregate(rows, "season", "notes")
           IN  /\ SumFunctionOnSet([g \in groups |-> g.count], groups) = Len(rows)
               /\ \A g \in groups : g.count * g.minimum <= g.total /\ g.total <= g.count * g.maximum
  <1> DEFINE D == DOMAIN rows
             keyOf(i) == Resolve(rows[i], "season")
             keys == {keyOf(i) : i \in D}
             groups == {GroupRow(rows, key) : key \in keys}
             own == [g \in groups |-> {i \in D : keyOf(i) = g.key}]
             k == [i \in D |-> GroupRow(rows, keyOf(i))]
             ones == [i \in D |-> 1]
             counts == [g \in groups |-> g.count]
  <1>1. IsFiniteSet(D) /\ Cardinality(D) = Len(rows)
    <2>1. D = 1..Len(rows) /\ Len(rows) \in Nat
      OBVIOUS
    <2> HIDE DEF D
    <2>2. IsFiniteSet(1..Len(rows))
          /\ Cardinality(1..Len(rows)) = IF 1 > Len(rows) THEN 0 ELSE Len(rows) - 1 + 1
      BY <2>1, FS_Interval
    <2> QED BY <2>1, <2>2
  <1>2. ASSUME NEW key \in keys
        PROVE  /\ GroupRow(rows, key).key = key /\ GroupRow(rows, key) \in groups
               /\ own[GroupRow(rows, key)] = GroupOf(rows, key)
               /\ counts[GroupRow(rows, key)] = Cardinality(GroupOf(rows, key))
               /\ GroupOf(rows, key) \in SUBSET D /\ GroupOf(rows, key) # {}
    <2>1. GroupRow(rows, key).key = key /\ GroupRow(rows, key) \in groups
          /\ GroupRow(rows, key).count = Cardinality(GroupOf(rows, key))
      BY DEF GroupRow
    <2>2. own[GroupRow(rows, key)] = {i \in D : keyOf(i) = key}
      <3> HIDE DEF groups, D, keyOf
      <3> QED BY <2>1
    <2> QED BY <2>1, <2>2 DEF GroupOf
  <1>3. IsFiniteSet(groups)
    <2>1. groups = {k[i] : i \in D}
      OBVIOUS
    <2> HIDE DEF groups, D, k
    <2> QED BY <1>1, <2>1, ImageIsFinite
  <1>4. SummedByKey(counts, groups, own, [g \in groups |-> ones], k, ones, D)
    <2>1. \A i \in D : k[i] \in groups /\ ones[i] \in Int
      OBVIOUS
    <2>2. ASSUME NEW g \in groups
          PROVE  /\ own[g] = {i \in D : k[i] = g}
                 /\ \A i \in own[g] : [h \in groups |-> ones][g][i] = ones[i]
                 /\ counts[g] = SumOf([h \in groups |-> ones][g], own[g])
      <3>1. PICK key \in keys : g = GroupRow(rows, key)
        OBVIOUS
      <3>2. \A i \in D : keyOf(i) \in keys /\ k[i] = GroupRow(rows, keyOf(i))
        OBVIOUS
      <3>3. own[g] = {i \in D : keyOf(i) = g.key}
        OBVIOUS
      <3> HIDE DEF D, keys, groups, keyOf, k, own, ones, counts
      <3>4. \A i \in D : k[i] = g <=> keyOf(i) = g.key
        BY <1>2, <3>1, <3>2
      <3>5. own[g] = {i \in D : k[i] = g}
        BY <3>3, <3>4
      <3>6. [h \in groups |-> ones][g] = ones
        OBVIOUS
      <3>7. SumOf(ones, own[g]) = Cardinality(own[g])
        <4>1. IsFiniteSet(own[g]) /\ own[g] \in SUBSET D
          BY <1>1, <3>5, FS_Subset
        <4>2. \A i \in own[g] : ones[i] = 1
          BY <4>1 DEF ones
        <4> QED BY <4>1, <4>2, SumOfOnes
      <3>8. counts[g] = Cardinality(own[g])
        BY <1>2, <3>1
      <3> QED BY <3>5, <3>6, <3>7, <3>8
    <2> HIDE DEF D, keys, groups, keyOf, k, own, ones, counts
    <2> QED BY <1>1, <1>3, <2>1, <2>2 DEF SummedByKey
  <1>5. SumOf(counts, groups) = Len(rows)
    <2>1. \A i \in D : ones[i] = 1
      OBVIOUS
    <2> HIDE DEF D, keys, groups, keyOf, k, own, ones, counts
    <2>2. SumOf(counts, groups) = SumOf(ones, D)
      BY <1>4, SumByKey
    <2>3. SumOf(ones, D) = Cardinality(D)
      BY <1>1, <2>1, SumOfOnes
    <2> QED BY <1>1, <2>2, <2>3
  <1>6. ASSUME NEW g \in groups
        PROVE  g.count * g.minimum <= g.total /\ g.total <= g.count * g.maximum
    <2>1. PICK key \in keys : g = GroupRow(rows, key)
      OBVIOUS
    <2> DEFINE T == GroupOf(rows, key)
               f == NotesOf(rows, T)
               V == {rows[i].notes : i \in T}
               n == Cardinality(T)
               lo == Min(V)
               hi == Max(V)
    <2>2. IsFiniteSet(T) /\ T # {} /\ T \in SUBSET D
      <3> HIDE DEF D, keys, T
      <3> QED BY <1>1, <1>2, FS_Subset DEF T
    <2>3. \A i \in T : f[i] = rows[i].notes /\ f[i] \in Nat /\ f[i] \in V
      <3>1. \A row \in Row : row.notes \in Nat
        BY DEF Row
      <3>2. \A i \in T : i \in DOMAIN rows
        BY DEF GroupOf
      <3>3. \A i \in T : rows[i] \in Row
        BY <3>2
      <3> HIDE DEF T
      <3> QED BY <3>1, <3>3 DEF NotesOf
    <2>4. g.count = n /\ g.total = SumOf(f, T) /\ g.minimum = lo /\ g.maximum = hi
      BY <2>1 DEF GroupRow
    <2> HIDE DEF T, f, D, keys
    <2>5. V = {f[i] : i \in T}
      BY <2>3
    <2>6. V \in SUBSET Int /\ V # {} /\ IsFiniteSet(V)
      <3>1. V \in SUBSET Int /\ V # {}
        BY <2>2, <2>3, <2>5
      <3>2. IsFiniteSet({f[i] : i \in T})
        BY <2>2, ImageIsFinite
      <3> QED BY <2>5, <3>1, <3>2
    <2> HIDE DEF V
    <2>7. lo \in Int /\ hi \in Int /\ \A i \in T : lo <= f[i] /\ f[i] <= hi
      BY <2>3, <2>6, Extremes
    <2> HIDE DEF lo, hi
    <2> DEFINE least == [i \in T |-> lo]
               most == [i \in T |-> hi]
    <2>8. \A i \in T : least[i] = lo /\ most[i] = hi
      OBVIOUS
    <2> HIDE DEF least, most
    <2>9. SumOf(least, T) = n * lo /\ SumOf(most, T) = n * hi
      BY <2>2, <2>7, <2>8, SumOfEqual
    <2>10. SumOf(least, T) <= SumOf(f, T)
      BY <2>2, <2>3, <2>7, <2>8, SumMonotone
    <2>11. SumOf(f, T) <= SumOf(most, T)
      BY <2>2, <2>3, <2>7, <2>8, SumMonotone
    <2> HIDE DEF n
    <2> QED BY <2>4, <2>9, <2>10, <2>11
  <1>7. Aggregate(rows, "season", "notes") = groups
    BY AggregateIs
  <1>8. SumFunctionOnSet(counts, groups) = Len(rows)
    <2> HIDE DEF counts, groups
    <2> QED BY <1>5 DEF SumOf
  <1> HIDE DEF groups
  <1> QED BY <1>6, <1>7, <1>8

\* PagesShowEachRowOnce, whatever the pages, the queries and the rows are: the pages of a
\* listing and of a query show each row that matches once and in order, and the groups of
\* an aggregate count each once.
THEOREM PagesShowAll == ServicesSpec => []PagesShowEachRowOnce
  <1>1. CatalogInv => PagesShowEachRowOnce
    <2> SUFFICES ASSUME CatalogInv PROVE PagesShowEachRowOnce
      OBVIOUS
    <2>1. CollectionRows \in Seq(Row) /\ IdsDiffer(CollectionRows)
      BY CollectionIs DEF CatalogInv
    <2>2. \A status \in RowStatuses \cup {Missing} :
             LET items == Listed(status)
             IN  /\ ToSet(items) = {row \in ToSet(CollectionRows) : status \in {Missing, row.status}}
                 /\ \A i, j \in DOMAIN items : i < j => NameBefore(items[i], items[j])
                 /\ \A size \in PageSizes :
                       LET count == PageCount(Len(items), size)
                           pages == Pages(LAMBDA p : Paginate(items, p, size), count)
                       IN  /\ FlattenSeq([p \in 1..count |-> pages[p].items]) = items
                           /\ \A p \in 1..count : pages[p].has_next = (p < count)
      BY <2>1, ListingIs, ListingShown
    <2>3. \A query \in Queries :
             LET answer == QueryReference(query, CollectionRows)
             IN  \A size \in PageSizes :
                   LET count == PageCount(Len(answer), size)
                       pages == Pages(LAMBDA p : PageOf(query, p, size), count)
                   IN  /\ FlattenSeq([p \in 1..count |-> pages[p].rows]) = answer
                       /\ \A p \in 1..count :
                             HasMore(PageQuery(query, p, size), pages[p]) = (p < count)
      BY <2>1, QueryShown
    <2>4. LET groups == Aggregate(CollectionRows, "season", "notes")
          IN  /\ SumFunctionOnSet([g \in groups |-> g.count], groups) = Len(CollectionRows)
              /\ \A g \in groups : g.count * g.minimum <= g.total /\ g.total <= g.count * g.maximum
      BY <2>1, GroupsCount
    <2> QED BY <2>2, <2>3, <2>4 DEF PagesShowEachRowOnce
  <1> QED BY <1>1, CatalogInvariance, PTL
=============================================================================
