SPECIFICATION Spec
CONSTANTS
  Sheets <- MCSheets
  None = None
  MaxTime = 1
  MaxSnapshotCues = 2
INVARIANTS RunIsSound
PROPERTIES DependenciesStayMet FiringUsesTheArm FollowsAreDrained
