SPECIFICATION Spec
CONSTANTS
  Locations = {l1, l2}
  Reservations = {r1}
  Windows <- MCWindows
  Kind = "bulk"
  ReorderPoint = 1
  None = None
  MaxBalance = 2
  MaxMovements = 3
SYMMETRY StockSymmetry
INVARIANTS NeverOverbooked
