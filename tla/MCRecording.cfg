\* Two paths, a survey, a record and a person at the folder, in five scenes; and a
\* store and a repository with two names, three acts of either side and one stop.
CONSTANTS
  Parts = {"surveying", "bridge"}
  TheScenes <- MCScenes
  Doing <- AllDeeds
  MaxDeeds = 3
  MaxBreaks = 1
  Checkouts = {apart, a, b}
  a = a
  b = b
  apart = apart
  p = p
  q = q
  photo = photo
  out = out
  fenced = fenced
SPECIFICATION MCSpec
SYMMETRY Alike
CHECK_DEADLOCK FALSE
INVARIANTS
  RecordsTheFolder
  BridgeKeepsTrack
PROPERTIES
  OthersWorkIsKept
