SPECIFICATION FairSpec
CONSTANTS
  Launches = {l1, l2}
  Piped = {l1, l2}
  Output = 3
  Bad = {l2}
  PipeCap = 1
INVARIANTS BytesArriveInOrder EofIsGenuine
PROPERTIES AppNeverStalls EofArrives ImplementsCapturedOutput
CHECK_DEADLOCK FALSE
