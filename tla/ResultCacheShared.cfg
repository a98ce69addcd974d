\* Callers share a memo of two results; clear comes from refresh only.
CONSTANTS
  Threads = {t1, t2, t3}
  Keys = {k1, k2, k3}
  Values = {v1, v2}
  Capacity = 2
  SharedClear = FALSE
  None = None
SPECIFICATION Spec
SYMMETRY Symmetry
INVARIANTS TypeOK CapacityBound NoOrphan OneGhostPerKey
PROPERTIES ImplementsBoundedMap
