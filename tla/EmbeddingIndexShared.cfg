CONSTANTS
  c1 = c1
  c2 = c2
  c3 = c3
  x = x
  y = y
  a = a
  b = b
  Callers = {c1, c2, c3}
  Processes = {x, y}
  ProcessOf <- MCProcessOf
  Tables = {t1, t2}
  Columns = {a, b}
  Models = {m1, m2}
  Unnamed = Unnamed
  MaxCalls = 2
  MaxChanges = 1
  Missing = Missing
  Torn = Torn
SYMMETRY Symmetry
SPECIFICATION Spec
INVARIANTS TypeOK NoMixedModels RankedByItsModel NextCallIsWarm
