\* Concurrent INSERTs and SELECTs of one warm process; VACUUM runs alone.
SPECIFICATION Spec
CONSTANTS
  Files = {f1, f2, f3, f4, f5}
  TableIds = {t1}
  Handlers = {h1, h2}
  Conns = {c1, c2}
  Ops <- Everything
  Alone <- Vacuums
  WarmUp = TRUE
  FaultKinds = {"write", "lost"}
  Absent = Absent
  MaxRequests = 4
  MaxFaults = 1
  MaxCrashes = 1
SYMMETRY Symmetry
INVARIANTS
  TypeOK
  OneWriter
  AckedRowsDurable
  NoRowTwice
PROPERTIES
  LogOnlyGrows
  ImplementsTable
