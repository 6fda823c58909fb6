CONSTANTS
  Passports = {p1, p2}
  None = None
  Damaged = Damaged
  Jobs = {j1}
SPECIFICATION RequestsSpec
INVARIANT LockedHoldsNoCapability
