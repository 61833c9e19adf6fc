\* INSERT on a server that remembers a table dropped and created again.
SPECIFICATION Spec
CONSTANTS
  Files = {f1, f2, f3, f4, f5}
  TableIds = {t1, t2}
  Servers = {s1, s2}
  Ops <- CreatesAndDrops
  FaultKinds = {}
  TTL = 0
  Seeded = TRUE
  Absent = Absent
  View = View
  MaxRequests = 4
  MaxFaults = 0
  MaxCrashes = 0
  MaxClock = 0
SYMMETRY Symmetry
INVARIANT FilesMatchTable
