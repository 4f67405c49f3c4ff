SPECIFICATION FairSpec
CONSTANTS
  Output <- FourAndThree
  Bad <- SecondErrBad
  PtyCap = 2
  PipeCap = 1
PROPERTY HelperExitsWithApp
CHECK_DEADLOCK FALSE
