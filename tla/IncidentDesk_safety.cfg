SPECIFICATION Spec
CONSTANTS
  Incidents = {i1}
  Actions = {a1, a2}
  Categories <- MCCategories
  ReportTimes = {0}
  None = None
SYMMETRY ActionSymmetry
INVARIANTS SettledIsComplete ActionsInOrder DeadlinesMatchSeverity SomeActionCanProceed
