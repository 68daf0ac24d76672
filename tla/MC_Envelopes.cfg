SPECIFICATION Spec
CONSTANTS
  c1 = c1
  c2 = c2
  k1 = k1
  k2 = k2
  Clients = {c1, c2}
  Keys = {k1, k2}
  Registrant = c1
  RegKey = k1
  Held <- MCHeld
  Signs = {c1}
  Attempts = 2
  MaxWrites = 3
  MaxChanges = 2
INVARIANTS TypeOK  TrustedCanRead ReadsAreWhole
CHECK_DEADLOCK FALSE
