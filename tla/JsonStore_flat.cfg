SPECIFICATION FairSpec
CONSTANTS
  Threads = {t1, t2}
  Names = {c1, c2}
  Rows = {r1}
  Absent = Absent
  None = None
  Torn = Torn
  MaxDepth = 1
  MaxSchema = 2
  MaxRevision = 2
INVARIANTS TemporaryIsMine
PROPERTIES RevisionAdvances NoLostUpdate ImplementsStoreSpec LockIsReleased
