SPECIFICATION Spec
CONSTANTS
  a1 = a1
  r1 = r1
  r2 = r2
  r3 = r3
  r4 = r4
  q1 = q1
  Absent = Absent
  Accounts = {a1}
  Refs = {r1, r2}
  Readers = {q1}
  Owner <- OneOwner
  Cost <- OneCost
  Opening <- OneOpening
  Warm = {}
  MaxInFlight = 2
  MaxResends = 1
  Faults = {}
INVARIANT NeverOverspent
CHECK_DEADLOCK FALSE
