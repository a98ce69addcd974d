\* One caller at a time: the memo is an LRU queue.
CONSTANTS
  Threads = {t1}
  Keys = {k1, k2, k3, k4}
  Values = {v1, v2}
  Capacity = 3
  SharedClear = FALSE
  None = None
SPECIFICATION Spec
PROPERTIES ImplementsLru
