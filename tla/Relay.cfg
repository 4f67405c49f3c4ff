SPECIFICATION FairSpec
CONSTANTS
  Output <- FourAndThree
  Bad <- SecondErrBad
  PtyCap = 2
  PipeCap = 1
INVARIANTS NoLineLost HangsUpOnlyOrphans
PROPERTIES EverythingArrives AppNeverStalls ImplementsCapturedOutput
CHECK_DEADLOCK FALSE
