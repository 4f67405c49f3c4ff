SPECIFICATION FairSpec
CONSTANTS
  l1 = l1
  l2 = l2
  Launches = {l1, l2}
  Handoff = {l1}
  Shell = {l2}
  Detached = {l2}
  Args <- FirstArgless
  Opened <- FirstArgless
  Word = {"place", "a", "b"}
  Escaped = {}
  Pids = {p1, p2, p4}
  NoPid = nopid
  OldPids = {p4}
  Unreadable = {p1, p2}
  Human = human
  NoOwner = noowner
  Grace = 1
  Fallback = 2
  Deadline = 3
  ListingMayFail = TRUE
  AssignMayFail = TRUE
PROPERTIES TracksNew AdoptionEnds
CHECK_DEADLOCK FALSE
