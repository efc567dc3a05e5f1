SPECIFICATION ServicesSpec
CONSTANTS
  Workers = {w1}
  Days = {d1, d2}
  Sources <- MCSources
  None = None
  MaxEdits = 2
  MaxPacks = 2
  MaxVersion = 3

  hamlet = hamlet
  lear = lear
  Requests = {q1, q2}
  Slugs = {hamlet, lear}
  Names = {1}
  Changes <- MCChanges
  Registry <- MCRegistry
  Shelves <- MCShelves
  Queries <- MCQueries
  PageSizes = {1, 2}
  NoRequest = NoRequest
  Raised = Raised
  Missing = Missing
  MaxEntities = 2
  MaxStoreRevision = 3

  studio = studio
  ada = ada
  bo = bo
  Dates = {1, 2}
  Zones <- MCZones
  ZoneNames = {"UTC", "spring", "autumn", "nowhere"}
  Midnight <- MCMidnight
  UtcDay = 4
  CallOffset = 2
  ShowIds = {1, 2}
  ShowRows <- MCShowRows
  SlotIds = {1, 2}
  SlotRows <- MCSlotRows
  TrackIds = {1, 2}
  TrackRows <- MCTrackRows
  NoTime = NoTime
  NoText = NoText

  Callers = {q1, q2}
  Cast = {"ada", "bo"}
  Titles = {"one", "two"}
  LiftTimes = {1, 2}
  CreatedAt = 1
  Workflow <- MCWorkflow
  RequiredStages = {"preview"}
  Starts <- MCStarts
  Updates <- MCUpdates
  Absent = Absent
  NoCopy = NoCopy
  MaxSaves = 3
  MaxSections = 1
SYMMETRY RequestSymmetry
INVARIANTS
  OnePackPerDay RequestsAreKept PagesShowEachRowOnce PacksTellTheSchedule
  PromisesAreKept
PROPERTIES
  PublishedIsLocked RebuildMovesForward MigrationLosesNoWrite
