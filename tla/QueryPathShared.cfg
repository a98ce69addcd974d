\* A task and a synchronous caller share a cache and the runner pool.
CONSTANTS
  d0 = d0
  Sync = {s1}
  Async = {a1}
  Statements = {select, delete}
  Writes = {delete}
  Ddls = {d0}
  Ddl <- MCDdl
  MaxChanges = 2
  MaxClears = 1
  None = None
SPECIFICATION FairSpec
INVARIANTS TypeOK OneRunner
PROPERTIES NothingOlderThanRefresh SyncCallsReturn
