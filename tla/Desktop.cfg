SPECIFICATION Spec
CONSTANTS
  studio = studio
  editor = editor
  viewer = viewer
  k1 = k1
  p1 = p1
  p2 = p2
  Apps = {studio, editor, viewer}
  NoApp = noapp
  Qt = {studio}
  Background = {studio, viewer}
  Keys = {k1}
  Presses = {p1, p2}
  Target <- Targets
  Focused = {studio}
  Exiting = {studio, editor}
  Fickle = {p2}
INVARIANTS KeysReachTarget FrontComesBack PressActs
CHECK_DEADLOCK FALSE
