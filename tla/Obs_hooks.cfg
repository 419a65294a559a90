SPECIFICATION Spec
CONSTANTS
  t1 = t1
  t2 = t2
  l1 = l1
  c1 = c1
  Threads = {t1, t2}
  Loggers = {l1}
  Collectors = {c1}
  NullLogger = NullLogger
  NullMetrics = NullMetrics
  NullPtr = NullPtr
  Levels = {0, 1}
  MaxDepth = 2
  MaxFailures = 1
SYMMETRY Interchangeable
INVARIANTS
  TypeOK
  NoUseAfterFree
  HelperFilters
  MetricsPaired
