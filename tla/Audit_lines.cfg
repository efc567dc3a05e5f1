SPECIFICATION DaySpec
CONSTANTS
  rigging = rigging
  programme = programme
  Items = {rigging, programme}
  EvidenceIds = {e1, e2}
  Moments = {1, 2}
  Expiries = {2}
  Never = Never
  None = None
  Profile <- MCProfile

  CallIds = {c1, c2}
  People = {ben}
  Places = {stage, hall}
  CallTimes = {0, 1, 2, 3}
  AccessAt = 1
  PerformanceAt = 2
  NoAccess = NoAccess
  NoCall = NoCall
  NotYet = NotYet
  MaxChanges = 2
  MaxRevisions = 1

  prod = prod
  show = show
  draft = draft
  secret = secret
  active = active
  Resources = {prod, show}
  Entries <- MCEntries
  ResourceStates = {draft, secret, active}
  Redact <- MCRedact
  NoState = NoState
  RecordTimes = {1, 2}
  EveryResource = EveryResource
  PageLimit = 1
  MaxEvents = 3
  MaxFaults = 2
  NoBatch = NoBatch
  NoFile = NoFile

  room1 = room1
  ada = ada
  b1 = b1
  b2 = b2
  b3 = b3
  BookingIds = {b1, b2, b3}
  Rooms = {room1}
  Performers = {ada}
  Templates <- MCTemplates
  Slots <- MCSlots
  Statuses = {"confirmed", "cancelled"}
  WindowSets <- MCWindowSets
  Views <- MCViews
  Capacities = {1}
  Turnaround = 1
  DayLength = 3
  Rules <- MCRules
  SeriesRules <- MCSeriesRules
  SeriesIds <- MCSeriesIds
  Unbounded = Unbounded
  LastDay = 40
  NoRoom = NoRoom
  NoBooking = NoBooking
  NeverSet = NeverSet

  g1 = g1
  g2 = g2
  GrantIds <- MCGrantIds
  GrantTerms <- MCGrantTerms
  Requests <- MCRequests
  NoGrant = NoGrant
  Unlimited = Unlimited

  stalls = stalls
  circle = circle
  SaleIds = {s1, s2}
  Bands <- MCBands
  Tenders = {cash, card}
  Comp = comp
  Quantities = {1, 2, 3}
  Discounts = {0, 1, 7}
  Capacity = 5
  NoSale = NoSale

  CueIds = {q1, q2, q3}
  CueNumbers = {0, 1, 2, 3, 4}
  MaxRequired = 2
  NoCue = NoCue
INVARIANTS OwnExportIsAccepted
