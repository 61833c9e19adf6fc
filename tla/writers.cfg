\* Two servers write to, merge and read one table that an earlier server made.
SPECIFICATION Spec
CONSTANTS
  Files = {f1, f2, f3, f4, f5}
  TableIds = {t1}
  Servers = {s1, s2}
  Ops <- InsertsAndVacuums
  FaultKinds = {"write", "lost", "copy", "delete"}
  TTL = 1
  Seeded = TRUE
  Absent = Absent
  View = View
  MaxRequests = 4
  MaxFaults = 1
  MaxCrashes = 1
  MaxClock = 1
SYMMETRY Symmetry
INVARIANTS
  AckedRowsDurable
  MissingFilesExpired
  NoRowTwice
  ReadsSeeAckedRows
PROPERTIES
  LogOnlyGrows
  ImplementsTable
