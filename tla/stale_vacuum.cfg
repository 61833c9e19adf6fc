\* One server merges with the LOG database it opened before the other inserted.
SPECIFICATION Spec
CONSTANTS
  Files = {f1, f2, f3, f4}
  TableIds = {t1, t2}
  Servers = {s1, s2}
  Ops <- CreatesAndVacuums
  FaultKinds = {}
  TTL = 0
  Seeded = FALSE
  Absent = Absent
  View = View
  MaxRequests = 4
  MaxFaults = 0
  MaxCrashes = 0
  MaxClock = 0
SYMMETRY Symmetry
PROPERTY MergePreservesRows
