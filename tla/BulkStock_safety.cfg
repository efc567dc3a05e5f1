SPECIFICATION Spec
CONSTANTS
  Locations = {l1, l2}
  Reservations = {r1, r2}
  Windows <- MCWindows
  Kind = "consumable"
  ReorderPoint = 1
  None = None
  MaxBalance = 2
  MaxMovements = 3
SYMMETRY StockSymmetry
INVARIANTS LedgerIsSound
PROPERTIES HoldsNeverOverbook
