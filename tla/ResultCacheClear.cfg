\* clear is called through the handle memo() gives out, beside gets and puts.
CONSTANTS
  Threads = {t1, t2, t3}
  Keys = {k1, k2, k3, k4}
  Values = {v1}
  Capacity = 1
  SharedClear = TRUE
  None = None
SPECIFICATION Spec
SYMMETRY Symmetry
INVARIANTS OverrunBounded
