\* VACUUM again and again.
SPECIFICATION Spec
CONSTANTS
  Files = {f1, f2, f3, f4, f5}
  TableIds = {t1}
  Servers = {s1}
  Ops <- InsertsAndVacuums
  FaultKinds = {}
  TTL = 0
  Seeded = TRUE
  Absent = Absent
  View = View
  MaxRequests = 4
  MaxFaults = 0
  MaxCrashes = 0
  MaxClock = 0
SYMMETRY Symmetry
PROPERTY PurgeFindsWork
