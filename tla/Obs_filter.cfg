SPECIFICATION Spec
CONSTANTS
  t1 = t1
  t2 = t2
  l1 = l1
  c1 = c1
  Threads = {t1}
  Loggers = {l1}
  Collectors = {}
  NullLogger = NullLogger
  NullMetrics = NullMetrics
  NullPtr = NullPtr
  Levels = {0, 1, 2, 3}
  MaxDepth = 1
  MaxFailures = 0
INVARIANTS
  AllFiltered
