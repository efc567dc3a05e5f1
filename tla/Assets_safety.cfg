SPECIFICATION Spec
CONSTANTS
  Units = {1, 2}
  Locations = {l1, l2}
  Reservations = {r1, r2}
  Tickets = {k1}
  Windows <- MCWindows
  None = None
SYMMETRY AssetSymmetry
INVARIANTS CirculationIsSafe ReservedUnitsAreHeld NoDoubleBookingAtLocation
