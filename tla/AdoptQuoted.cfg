SPECIFICATION Spec
CONSTANTS
  l1 = l1
  l2 = l2
  Launches = {l1}
  Handoff = {l1}
  Shell = {}
  Detached = {}
  Args <- OneEach
  Opened <- OneEach
  Word = {"place", "a", "b"}
  Escaped = {"a"}
  Pids = {p1, p2}
  NoPid = nopid
  OldPids = {}
  Unreadable = {}
  Human = human
  NoOwner = noowner
  Grace = 1
  Fallback = 2
  Deadline = 3
  ListingMayFail = FALSE
  AssignMayFail = FALSE
INVARIANT OwnNeverPassedOver
CHECK_DEADLOCK FALSE
