SPECIFICATION FairSpec
INVARIANTS OneClaimPerProcess VerifiedClaimIsOwn OwnNeverPassedOver
CONSTANTS
  l1 = l1
  l2 = l2
  l3 = l3
  o1 = o1
  q1 = q1
  Launches = {l1, l2, l3}
  Simple = {l3}
  Others = {o1}
  Processes = {q1}
  ProcessOf <- OneProcess
  Args <- MixedArgs
  Word = {"place", "a", "b"}
  Pids = {p1, p2, p3}
  NoPid = nopid
  OldPids = {p1}
  NoOwner = noowner
  MaxAttempts = 2
  VerifyAttempts = 1
  Exe = "Studio"
PROPERTIES SpawnReturns ImplementsLaunch
CHECK_DEADLOCK FALSE
