SPECIFICATION Spec
CONSTANTS
  Threads = {t1}
  Names = {c1, c2}
  Rows = {r1}
  Absent = Absent
  None = None
  Torn = Torn
  MaxDepth = 2
  MaxSchema = 1
  MaxRevision = 2
PROPERTIES RevisionAdvances
