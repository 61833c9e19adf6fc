\* The first requests of a process arrive together.
SPECIFICATION Spec
CONSTANTS
  Files = {f1, f2, f3}
  TableIds = {t1}
  Handlers = {h1, h2}
  Conns = {c1, c2}
  Ops <- Inserts
  Alone = {}
  WarmUp = FALSE
  FaultKinds = {}
  Absent = Absent
  MaxRequests = 2
  MaxFaults = 0
  MaxCrashes = 0
SYMMETRY Symmetry
INVARIANT AckedRowsDurable
