SPECIFICATION Spec
CONSTANTS
  l1 = l1
  l2 = l2
  Launches = {l1, l2}
  Handoff = {l1, l2}
  Shell = {}
  Detached = {l2}
  Args <- TwoEach
  Opened <- OneEach
  Word = {"place", "a", "b"}
  Escaped = {}
  Pids = {p1, p2, p3}
  NoPid = nopid
  OldPids = {}
  Unreadable = {}
  Human = human
  NoOwner = noowner
  Grace = 1
  Fallback = 2
  Deadline = 3
  ListingMayFail = FALSE
  AssignMayFail = FALSE
INVARIANTS EarlyExitIsGenuine TracksOwn OwnNeverPassedOver CallerTakesItsOwn
PROPERTY ImplementsLaunch
SYMMETRY NewPidSymmetry
CHECK_DEADLOCK FALSE
