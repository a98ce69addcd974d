\* Two tasks take snapshots, one reads them.
CONSTANTS
  Writers = {w1, w2}
  Readers = {r1}
  MaxHistory = 1
  MaxTime = 2
  MaxSnapshots = 3
  NotFound = NotFound Torn = Torn Whole = Whole
SPECIFICATION Spec
SYMMETRY Symmetry
INVARIANTS TypeOK RotationBounds NewestKept EnoughIsKept
PROPERTIES NewestReported
