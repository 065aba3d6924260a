CONSTANTS
  n1 = n1
  n2 = n2
  t1 = t1
  t2 = t2
  c1 = c1
  prefix1 = prefix1
  Node = {n1, n2}
  Faulty = {n2}
  FaultyReports <- TheFaultyReports
  Task = {t1, t2}
  Container = {c1}
  Prefix = {prefix1}
  TaskNode <- TheTaskNode
  PrefixOf <- ThePrefixOf
  Bare = bare
  Reader = {r1}
  None = none
  Conflict = conflict
  MaxRounds = 2
  Name = {"a", "b"}
  Snapshot <- SomeNames
  retention = 4
  recentFor = 2
  bucketWidth = 2
  maxHistorySamples = 4
  maxQueryCells = 3
  MaxClock = 5
  Event = {e1, e2}
  Noise = {x1}
  capacity = 3
  NoEvent = NoEvent
  MaxSent = 2
  pageSize = 2
  bufferSize = 3
  tailLines = 1
  MaxLines = 5
  MaxBreaks = 1
  MaxOpens = 1
SPECIFICATION Spec
INVARIANT OneRun
CHECK_DEADLOCK FALSE
