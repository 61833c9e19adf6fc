\* One server, every statement, crashes and storage failures.
SPECIFICATION FairSpec
CONSTANTS
  Files = {f1, f2, f3, f4}
  TableIds = {t1, t2}
  Servers = {s1}
  Ops <- Everything
  FaultKinds = {"write", "lost", "copy", "delete"}
  TTL = 0
  Seeded = FALSE
  Absent = Absent
  View = View
  MaxRequests = 5
  MaxFaults = 2
  MaxCrashes = 1
  MaxClock = 0
INVARIANTS
  TypeOK
  AckedRowsDurable
  ReadsSeeAckedRows
  DropLeavesNothing
  FilesMatchTable
PROPERTIES
  ImplementsTable
  RequestsFinish
