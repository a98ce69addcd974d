\* The write of a refresh fails under a memo.
CONSTANTS
  orders = orders users = users plain = plain counted = counted wide = wide
  hollow = hollow ddl0 = ddl0 ddl1 = ddl1 ddl2 = ddl2 h1 = h1 h2 = h2
  Absent = Absent Listed = Listed Invalidated = Invalidated
  NotFound = NotFound Torn = Torn NoCache = NoCache
  Hollow = hollow
  Sigs = {ddl0, ddl1, ddl2}
  Sig <- MCSig
  Handles = {h1}
  TableOrder <- OneTable
  Shapes <- TwoShapes
  TTL = 0
  MaxTime = 0
  MaxChanges = 0
  Calls = {"refresh"}
  Memoize = TRUE
  Legacy = FALSE
SPECIFICATION Spec
INVARIANTS SuspectsAreCleared
