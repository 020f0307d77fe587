SPECIFICATION Spec
CONSTANTS
  Capacity = 4
  Jobs = {j1, j2, j3}
  NoJob = NoJob
INVARIANTS TypeOK RingConsistent
PROPERTY ImplementsFIFO
