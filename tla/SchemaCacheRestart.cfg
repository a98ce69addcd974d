\* One process that fails or restarts at any point.
CONSTANTS
  orders = orders users = users plain = plain counted = counted wide = wide
  hollow = hollow ddl0 = ddl0 ddl1 = ddl1 ddl2 = ddl2 h1 = h1 h2 = h2
  Absent = Absent Listed = Listed Invalidated = Invalidated
  NotFound = NotFound Torn = Torn NoCache = NoCache
  Hollow = hollow
  Sigs = {ddl0, ddl1, ddl2}
  Sig <- MCSig
  Handles = {h1}
  TableOrder <- TwoTables
  Shapes <- TwoShapes
  TTL = 0
  MaxTime = 1
  MaxChanges = 2
  Calls = {"refresh", "refresh_table", "invalidate_table"}
  Memoize = FALSE
  Legacy = TRUE
SPECIFICATION Spec
INVARIANTS TypeOK FingerprintCoherent ImageWasSeen Durable InvalidationPersists
PROPERTIES InvalidatedIsReported LegacyOutlivesMigration
