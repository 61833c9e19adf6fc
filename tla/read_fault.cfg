\* A rejected VACUUM, then one whose import fails.
SPECIFICATION Spec
CONSTANTS
  Files = {f1, f2, f3, f4, f5}
  TableIds = {t1}
  Servers = {s1, s2}
  Ops <- InsertsAndVacuums
  FaultKinds = {"read"}
  TTL = 0
  Seeded = TRUE
  Absent = Absent
  View = View
  MaxRequests = 4
  MaxFaults = 1
  MaxCrashes = 0
  MaxClock = 0
SYMMETRY Symmetry
INVARIANT LiveFilesPresent
