\* Readers and writers of the log file; writes do not overlap each other.
SPECIFICATION Spec
CONSTANTS
  Clients = {a, b, c}
  Chunks = {x1, x2, x3, x4}
  Inodes = {i1, i2}
  Exclusive = TRUE
  Hole = Hole
  Absent = Absent
SYMMETRY Symmetry
INVARIANT TypeOK
PROPERTIES
  NoLostUpdate
  ImplementsObjectStore
