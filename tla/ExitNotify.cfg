SPECIFICATION FairSpec
CONSTANTS
  Watcher = watcher
  NoCb = none
  Running = running
  Nobody = nobody
  c1 = c1
  c2 = c2
  c3 = c3
  Nested <- NestedC1C2
  Threads = {t1, t2}
  Workers = {w1}
  InRuntime = {t2, w1}
  Callbacks = {c1, c2, c3}
  Panicking = {c3}
  RuntimeMayStop = TRUE
  Codes = {0, 1}
INVARIANTS FiredOnceAfterExit NoneForgotten FiredInOrder RunsWhereRegistered
PROPERTIES ImplementsExitOnce EverySettled
CHECK_DEADLOCK FALSE
