\* Requests of up to three statements and comments, answered by one server.
SPECIFICATION Spec
CONSTANTS
  Bodies <- Texts
  Tables = {"t"}
  Absent = Absent
  MaxRequests = 1
  MaxFaults = 1
  MaxCrashes = 1
INVARIANTS
  TypeOK
  ReadsAsDuckDB
  BatchIsPrefix
