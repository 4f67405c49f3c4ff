SPECIFICATION FairSpec
CONSTANTS
  Children = {k1, k2}
  Pids = {p1, p2}
  NoPid = nopid
  Nobody = nobody
  Strangers = {s1, s2}
  Foreign = {s2}
  Codes = {0, 1, 259}
  Live = live
  NoStatus = nostatus
INVARIANT StatusIsReal
PROPERTIES WaitReturns KeepsToItsOwn
CHECK_DEADLOCK FALSE
