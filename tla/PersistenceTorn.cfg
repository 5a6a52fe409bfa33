CHECK_DEADLOCK FALSE
SPECIFICATION PersistSpec
CONSTANTS
  Keys = {k1, k2}
  Values = {v1}
  Absent = Absent
  MaxOps = 3
  MaxFaults = 2
  MaxDamage = 0
INVARIANT TornTailHarmless
