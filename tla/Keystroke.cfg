SPECIFICATION FairSpec
CONSTANTS
  s1 = s1
  s2 = s2
  f1 = f1
  a1 = a1
  a2 = a2
  Senders = {s1, s2}
  Focusers = {f1}
  Apps = {a1, a2}
  Target <- FirstApart
  Mods <- Modifiers
  Key = "s"
  User = user
  NoWindow = nowindow
  Nobody = nobody
  MaxTries = 1
INVARIANTS LandsOnTarget ChordIsWhole HandsBack
PROPERTIES CallsReturn CallsAdvance ImplementsChordTurns
CHECK_DEADLOCK FALSE
