\* A VACUUM beside an INSERT of the same process.
SPECIFICATION Spec
CONSTANTS
  Files = {f1, f2, f3, f4}
  TableIds = {t1}
  Handlers = {h1, h2}
  Conns = {c1, c2}
  Ops <- InsertsAndVacuums
  Alone = {}
  WarmUp = TRUE
  FaultKinds = {}
  Absent = Absent
  MaxRequests = 3
  MaxFaults = 0
  MaxCrashes = 0
SYMMETRY Symmetry
INVARIANT AckedRowsDurable
